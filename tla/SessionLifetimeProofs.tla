------------------------ MODULE SessionLifetimeProofs ------------------------
(* What holds of SessionLifetime for any number of requests and tokens and any   *)
(* limits and lifetimes.                                                         *)
EXTENDS SessionLifetime, TLAPS

(* Which operation is at which step, and what it has in hand there.              *)
OpAt(r) ==
  /\ At(r, "idle") => req[r] = NoReq /\ txn[r] = NoTxn
  /\ pc[r] \in {"check", "load", "throttle", "flush_touch", "set_touch"} => req[r].op # "refresh"
  /\ pc[r] \in {"verify", "burn", "reload", "flush_bind", "replay"} => req[r].op = "refresh"
  /\ req[r].op = "refresh" => req[r].tok \in held /\ req[r].new \in Jtis
  /\ req[r].op # "refresh" => req[r].new = NoJti
  /\ "jti" \in txn[r].dirty => req[r].op = "refresh"
Base == TypeOK /\ \A r \in Requests : OpAt(r)

(* last_activity_at, also the one a transaction is about to write, is no later   *)
(* than the last request that was served.                                        *)
LimitOK ==
  /\ row.last <= used /\ used <= now
  /\ \A r \in Requests : pc[r] \notin {"expire", "expire_flag"} => txn[r].at <= used

(* Once the flag is set it outlives the row, and nobody is told of an end before. *)
EndOK ==
  /\ row.expires <= now + Absolute
  /\ revoked # 0 => row.expires <= revoked
  /\ acked => revoked # 0
  /\ \A r \in Requests :
       /\ "active" \in txn[r].dirty => pc[r] \in {"flag", "respond", "commit"}
       /\ pc[r] \in {"respond", "commit"} /\ "active" \in txn[r].dirty => revoked # 0
       /\ req[r].acked => acked
       /\ req[r].acked /\ At(r, "load") => row.expires <= now

(* A refresh token is minted once, by the one request that has drawn it, and a   *)
(* client has only tokens that were minted.                                      *)
MintOK ==
  /\ \A j \in Jtis : exp[j] <= now + RememberLife
  /\ \A j \in held : exp[j] # 0
  /\ \A r \in Requests : req[r].op = "refresh" =>
       /\ pc[r] \in {"verify", "burn"} => exp[req[r].new] = 0
       /\ pc[r] \in {"reload", "flush_bind", "respond"} => exp[req[r].new] # 0
  /\ \A r, q \in Requests : r # q /\ req[r].new = req[q].new => req[r].new = NoJti
BurntOK ==
  /\ rotated \subseteq held
  /\ \A j \in rotated : exp[j] - Second < burnt[j] \/ exp[j] - Second < now

-------------------------------------------------------------------------------
(* int() drops less than a second.                                               *)
LEMMA WholeSeconds ==
  ASSUME NEW t \in Nat
  PROVE  Seconds(t) \in Nat /\ Seconds(t) <= t /\ t - Second < Seconds(t)
<1>1. t % Second \in 0 .. (Second - 1) /\ t % Second <= t
  BY TimeAssumption
<1>. QED
  BY <1>1, TimeAssumption DEF Seconds

LEMMA Times ==
  /\ Idle \in Nat \ {0} /\ Absolute \in Nat \ {0} /\ Throttle \in Nat \ {0}
  /\ AccessLife \in Nat \ {0} /\ RefreshLife \in Nat \ {0} /\ RememberLife \in Nat \ {0}
  /\ Second \in Nat \ {0} /\ Second <= RefreshLife /\ RefreshLife <= RememberLife
  BY TimeAssumption

LEMMA FinishTypes ==
  ASSUME TypeOK, NEW r \in Requests, Finish(r)
  PROVE  /\ pc' \in [Requests -> Steps] /\ lock' \in Requests \cup {NoRequest}
         /\ req' \in [Requests -> Request] /\ txn' \in [Requests -> Transaction]
         /\ pc'[r] = "idle" /\ req'[r] = NoReq /\ txn'[r] = NoTxn
<1>1. NoReq \in Request /\ NoTxn \in Transaction
  BY DEF NoReq, Request, NoTxn, Transaction, Ops, Time
<1>. QED
  BY <1>1 DEF TypeOK, Finish, Goto, Steps

(* A request's step leaves the other requests alone.                             *)
LEMMA Others ==
  ASSUME TypeOK, NEW r \in Requests, Step(r), NEW q \in Requests \ {r}
  PROVE  pc'[q] = pc[q] /\ req'[q] = req[q] /\ txn'[q] = txn[q]
<1>1. CASE \/ BeginAuth(r) \/ CheckFlag(r) \/ Load(r) \/ LoadEnded(r) \/ Expire(r) \/ ExpireFlag(r)
           \/ CheckTouch(r) \/ FlushTouch(r) \/ SetTouch(r)
  BY <1>1 DEF BeginAuth, CheckFlag, Load, LoadEnded, Expire, ExpireFlag, CheckTouch, FlushTouch,
    SetTouch, Reject, Finish, Goto, TypeOK
<1>2. CASE \/ Blacklist(r) \/ FlushEnd(r) \/ Flag(r) \/ BeginRefresh(r) \/ VerifyRefresh(r)
           \/ Burn(r) \/ Reload(r)
  BY <1>2 DEF Blacklist, FlushEnd, Flag, BeginRefresh, VerifyRefresh, Burn, Reload, Reject, Finish,
    Goto, TypeOK
<1>3. CASE \/ ReloadEnded(r) \/ FlushBind(r) \/ Replay(r) \/ Respond(r) \/ Commit(r) \/ Abort(r)
  BY <1>3 DEF ReloadEnded, FlushBind, Replay, Respond, Commit, Abort, Reject, Finish, Goto, TypeOK
<1>. QED
  BY <1>1, <1>2, <1>3 DEF Step

-------------------------------------------------------------------------------
(* What each step does to its own request.                                       *)
LEMMA BeginAuthLocal ==
  ASSUME Base, NEW r \in Requests, BeginAuth(r)
  PROVE  /\ pc'[r] = "check" /\ txn' = txn /\ txn[r] = NoTxn
         /\ req'[r] \in Request /\ req' \in [Requests -> Request]
         /\ req'[r].op \in {"call", "logout"} /\ req'[r].acked = acked /\ req'[r].new = NoJti
<1>1. PICK op \in {"call", "logout"} :
        req' = [req EXCEPT ![r] = [NoReq EXCEPT !.op = op, !.acked = acked, !.late = PastLimit]]
  BY DEF BeginAuth
<1> DEFINE new == [NoReq EXCEPT !.op = op, !.acked = acked, !.late = PastLimit]
<1>2. new \in Request /\ new.op = op /\ new.acked = acked /\ new.new = NoJti
  BY DEF NoReq, Request, Ops, PastLimit, Base, TypeOK
<1>3. req' = [req EXCEPT ![r] = new]
  BY <1>1
<1> HIDE DEF new
<1>. QED
  BY <1>2, <1>3 DEF BeginAuth, Goto, Base, TypeOK, OpAt

LEMMA BeginRefreshLocal ==
  ASSUME Base, NEW r \in Requests, BeginRefresh(r)
  PROVE  /\ pc'[r] = "verify" /\ txn' = txn /\ txn[r] = NoTxn
         /\ req'[r] \in Request /\ req' \in [Requests -> Request]
         /\ req'[r].op = "refresh" /\ req'[r].acked = acked
         /\ req'[r].tok \in held /\ req'[r].new \in FreshJtis
<1>1. PICK j \in held, k \in FreshJtis :
        req' = [req EXCEPT ![r] = [op |-> "refresh", tok |-> j, new |-> k, acked |-> acked,
                                   late |-> PastLimit]]
  BY DEF BeginRefresh
<1>2. PastLimit \in BOOLEAN
  BY DEF PastLimit
<1>3. [op |-> "refresh", tok |-> j, new |-> k, acked |-> acked, late |-> PastLimit] \in Request
  BY <1>2 DEF Request, Ops, Base, TypeOK, FreshJtis
<1>. QED
  BY <1>1, <1>3 DEF BeginRefresh, Goto, Base, TypeOK, OpAt

LEMMA LoadLocal ==
  ASSUME Base, NEW r \in Requests, Load(r)
  PROVE  /\ txn'[r] = [txn[r] EXCEPT !.at = now, !.jti = row.jti]
         /\ txn' \in [Requests -> Transaction] /\ txn'[r].at = now /\ txn'[r].dirty = txn[r].dirty
         /\ \/ Lapsed /\ pc'[r] = "expire" /\ used' = used
            \/ ~Lapsed /\ pc'[r] = "throttle" /\ used' = now
<1>1. [txn[r] EXCEPT !.at = now, !.jti = row.jti] \in Transaction
  BY DEF Base, TypeOK, Row, Transaction
<1>. QED
  BY <1>1 DEF Load, Goto, Base, TypeOK, Transaction

LEMMA ReloadLocal ==
  ASSUME Base, NEW r \in Requests, Reload(r)
  PROVE  /\ txn' \in [Requests -> Transaction] /\ txn'[r].at = now /\ txn'[r].dirty = txn[r].dirty
         /\ pc'[r] = "flush_bind"
<1>1. [txn[r] EXCEPT !.at = now] \in Transaction
  BY DEF Base, TypeOK, Transaction
<1>. QED
  BY <1>1 DEF Reload, Goto, Base, TypeOK, Transaction

LEMMA DirtyLocal ==
  ASSUME Base, NEW r \in Requests, FlushTouch(r) \/ FlushEnd(r) \/ FlushBind(r)
  PROVE  /\ txn' \in [Requests -> Transaction] /\ txn'[r].at = txn[r].at
         /\ FlushTouch(r) => pc'[r] = "set_touch" /\ txn'[r].dirty = txn[r].dirty \cup {"last"}
         /\ FlushEnd(r) => pc'[r] = "flag" /\ txn'[r].dirty = txn[r].dirty \cup {"active"}
         /\ FlushBind(r) => pc'[r] = "respond" /\ txn'[r].dirty = {"last", "jti"}
<1> DEFINE to(d) == [txn[r] EXCEPT !.dirty = d]
<1>0. txn[r] \in Transaction /\ txn[r].dirty \subseteq {"last", "jti", "active"}
  BY DEF Base, TypeOK, Transaction
<1>1. \A d \in SUBSET {"last", "jti", "active"} : to(d) \in Transaction /\ to(d).dirty = d
                                                   /\ to(d).at = txn[r].at
  BY <1>0 DEF Transaction
<1>2. CASE FlushTouch(r)
  <2>1. txn' = [txn EXCEPT ![r] = to(txn[r].dirty \cup {"last"})]
    BY <1>2 DEF FlushTouch
  <2>2. pc[r] = "flush_touch" /\ pc'[r] = "set_touch"
    BY <1>2 DEF FlushTouch, At, Goto, Base, TypeOK
  <2>. QED  BY <1>0, <1>1, <2>1, <2>2 DEF Base, TypeOK, FlushEnd, FlushBind, At
<1>3. CASE FlushEnd(r)
  <2>1. txn' = [txn EXCEPT ![r] = to(txn[r].dirty \cup {"active"})]
    BY <1>3 DEF FlushEnd
  <2>2. pc[r] = "flush_end" /\ pc'[r] = "flag"
    BY <1>3 DEF FlushEnd, At, Goto, Base, TypeOK
  <2>. QED  BY <1>0, <1>1, <2>1, <2>2 DEF Base, TypeOK, FlushTouch, FlushBind, At
<1>4. CASE FlushBind(r)
  <2>1. txn' = [txn EXCEPT ![r] = to({"last", "jti"})]
    BY <1>4 DEF FlushBind
  <2>2. pc[r] = "flush_bind" /\ pc'[r] = "respond"
    BY <1>4 DEF FlushBind, At, Goto, Base, TypeOK
  <2>. QED  BY <1>0, <1>1, <2>1, <2>2 DEF Base, TypeOK, FlushTouch, FlushEnd, At
<1>. QED
  BY <1>2, <1>3, <1>4
LEMMA BurnLocal ==
  ASSUME Base, NEW r \in Requests, Burn(r)
  PROVE  /\ txn' \in [Requests -> Transaction] /\ txn'[r].at = txn[r].at
         /\ txn'[r].dirty = txn[r].dirty /\ pc'[r] = "reload" /\ pc[r] = "burn"
         /\ req[r].op = "refresh" /\ req[r].tok \in held /\ req[r].new \in Jtis
         /\ exp' = [exp EXCEPT ![req[r].new] = Seconds(now + RefreshLife)]
         /\ Seconds(now + RefreshLife) \in Nat \ {0}
         /\ Seconds(now + RefreshLife) <= now + RememberLife
         /\ rotated' = rotated \cup {req[r].tok}
<1>1. now \in Nat /\ now + RefreshLife \in Nat /\ now + AccessLife \in Nat
  BY Times DEF Base, TypeOK, Time
<1>2. [txn[r] EXCEPT !.access = Seconds(now + AccessLife)] \in Transaction
  BY <1>1, WholeSeconds DEF Base, TypeOK, Transaction, Time
<1>3. /\ Seconds(now + RefreshLife) \in Nat \ {0}
      /\ Seconds(now + RefreshLife) <= now + RememberLife
  BY <1>1, WholeSeconds, Times
<1>4. pc[r] = "burn" /\ req[r].op = "refresh" /\ req[r].tok \in held /\ req[r].new \in Jtis
  BY DEF Burn, At, Base, OpAt
<1>. QED
  BY <1>2, <1>3, <1>4 DEF Burn, Goto, Base, TypeOK, Transaction

LEMMA ReplayLocal ==
  ASSUME Base, NEW r \in Requests, Replay(r)
  PROVE  \/ Finish(r) /\ Reject(r)
         \/ /\ txn' \in [Requests -> Transaction] /\ txn'[r].at = txn[r].at
            /\ txn'[r].dirty = txn[r].dirty /\ pc'[r] = "blacklist"
            /\ pc' \in [Requests -> Steps]
            /\ UNCHANGED <<now, row, lock, keys, clients, exp, rotated, used, req>>
<1>1. [txn[r] EXCEPT !.jti = row.jti] \in Transaction
  BY DEF Base, TypeOK, Transaction, Row
<1>. QED
  BY <1>1 DEF Replay, Reject, Goto, Base, TypeOK, Transaction, Steps

(* Steps that change neither what the request holds nor its transaction.         *)
Moves(r) ==
  \/ Expire(r) \/ CheckTouch(r) \/ SetTouch(r) \/ Blacklist(r) \/ Flag(r) \/ VerifyRefresh(r)
  \/ Respond(r) \/ (CheckFlag(r) /\ ~Finish(r))
LEMMA MovesLocal ==
  ASSUME Base, NEW r \in Requests, Moves(r)
  PROVE  req' = req /\ txn' = txn
  BY DEF Moves, Expire, CheckTouch, SetTouch, Blacklist, Flag, VerifyRefresh, Respond, CheckFlag, Reject

(* Steps that end the request.                                                   *)
Ends(r) ==
  \/ Reject(r) \/ ExpireFlag(r) \/ Commit(r)
LEMMA EndsLocal ==
  ASSUME Base, NEW r \in Requests, Ends(r)
  PROVE  Finish(r) /\ pc'[r] = "idle" /\ req'[r] = NoReq /\ txn'[r] = NoTxn
  BY FinishTypes DEF Ends, Reject, ExpireFlag, Commit, Base

LEMMA StepKinds ==
  ASSUME NEW r \in Requests, Step(r)
  PROVE  \/ BeginAuth(r) \/ BeginRefresh(r) \/ Load(r) \/ Reload(r)
         \/ FlushTouch(r) \/ FlushEnd(r) \/ FlushBind(r) \/ Burn(r) \/ Replay(r)
         \/ Moves(r) \/ Ends(r)
  BY DEF Step, Moves, Ends, CheckFlag, LoadEnded, ReloadEnded, Abort, Reject

-------------------------------------------------------------------------------
LEMMA TypesStep ==
  ASSUME Base, NEW r \in Requests, Step(r)
  PROVE  TypeOK'
<1>0. TypeOK /\ now \in Nat /\ used \in Nat
  BY DEF Base, TypeOK, Time
<1>1. CASE BeginAuth(r)
  BY <1>1, <1>0, BeginAuthLocal DEF BeginAuth, TypeOK, Goto, keys, clients, Steps
<1>2. CASE BeginRefresh(r)
  BY <1>2, <1>0, BeginRefreshLocal DEF BeginRefresh, TypeOK, Goto, keys, clients, Steps
<1>3. CASE Load(r) \/ Reload(r)
  <2>1. txn' \in [Requests -> Transaction] /\ used' \in Nat
    BY <1>3, <1>0, LoadLocal, ReloadLocal DEF Reload
  <2>2. /\ pc' \in [Requests -> Steps]
        /\ UNCHANGED <<now, row, lock, revoked, touched, burnt, access, held, acked, exp, rotated, req>>
    BY <1>3, <1>0 DEF Load, Reload, Goto, keys, clients, TypeOK, Steps
  <2>. QED  BY <2>1, <2>2, <1>0 DEF TypeOK, Time
<1>4. CASE FlushTouch(r) \/ FlushEnd(r) \/ FlushBind(r)
  <2>1. txn' \in [Requests -> Transaction]
    BY <1>4, DirtyLocal
  <2>2. /\ pc' \in [Requests -> Steps] /\ lock' = r
        /\ UNCHANGED <<now, row, revoked, touched, burnt, access, held, acked, exp, rotated, used, req>>
    BY <1>4, <1>0
    DEF FlushTouch, FlushEnd, FlushBind, LockRow, TypeOK, Goto, keys, clients, Steps
  <2>. QED  BY <2>1, <2>2, <1>0 DEF TypeOK
<1>5. CASE Burn(r)
  <2>1. exp' \in [Jtis -> Time]
    BY <1>5, <1>0, BurnLocal DEF TypeOK, Time
  <2>2. burnt' \in [Jtis -> Time]
    <3>1. Seconds(exp[req[r].tok] - now) > 0 => now + Seconds(exp[req[r].tok] - now) \in Nat
      <4>1. req[r].tok \in Jtis /\ exp[req[r].tok] \in Nat
        BY <1>5, <1>0, BurnLocal DEF TypeOK, Time
      <4>2. exp[req[r].tok] - now \in Int
        BY <4>1, <1>0
      <4>3. Seconds(exp[req[r].tok] - now) \in Int
        BY <4>2, Times DEF Seconds
      <4>. QED  BY <1>0, <4>3
    <3>. QED  BY <1>5, <1>0, <3>1 DEF Burn, TypeOK, Time
  <2>3. rotated' \subseteq Jtis
    BY <1>5, <1>0, BurnLocal DEF TypeOK
  <2>. QED
    BY <1>5, <1>0, <2>1, <2>2, <2>3, BurnLocal DEF Burn, TypeOK, Goto, clients, Steps, Time
<1>6. CASE Replay(r)
  BY <1>6, <1>0, ReplayLocal, FinishTypes DEF Reject, TypeOK, keys, clients, Time
<1>7. CASE Moves(r)
  <2>1. req' = req /\ txn' = txn
    BY <1>7, MovesLocal
  <2>2. CASE Expire(r) \/ CheckTouch(r) \/ VerifyRefresh(r) \/ (CheckFlag(r) /\ ~Finish(r))
    BY <2>1, <2>2, <1>0
    DEF Expire, CheckTouch, VerifyRefresh, CheckFlag, Reject, Body, Goto, keys, clients, TypeOK, Row,
        Steps, Time
  <2>3. CASE SetTouch(r) \/ Flag(r)
    <3>1. revoked' \in Nat /\ touched' \in Nat
      BY <2>3, <1>0, Times DEF SetTouch, Flag, ClearCache, TypeOK, Time
    <3>2. /\ pc' \in [Requests -> Steps]
          /\ UNCHANGED <<now, row, lock, burnt, access, held, acked, exp, rotated, used>>
      BY <2>3, <1>0 DEF SetTouch, Flag, Body, Goto, clients, TypeOK, Steps
    <3>. QED  BY <2>1, <3>1, <3>2, <1>0 DEF TypeOK, Time
  <2>4. CASE Blacklist(r)
    <3>1. now + RememberLife \in Time
      BY <1>0, Times DEF Time
    <3>2. burnt' \in [Jtis -> Time]
      BY <2>4, <3>1, <1>0 DEF Blacklist, TypeOK
    <3>. QED  BY <2>1, <2>4, <3>2, <1>0 DEF Blacklist, Goto, clients, TypeOK, Steps
  <2>5. CASE Respond(r)
    <3>1. req[r] \in Request /\ txn[r] \in Transaction
      BY <1>0 DEF TypeOK
    <3>2. held' \subseteq Jtis /\ access' \in Nat /\ acked' \in BOOLEAN
      BY <2>5, <3>1, <1>0 DEF Respond, clients, TypeOK, Request, Transaction, Time
    <3>3. /\ pc' \in [Requests -> Steps]
          /\ UNCHANGED <<now, row, lock, revoked, touched, burnt, exp, rotated, used>>
      BY <2>5, <1>0 DEF Respond, Goto, keys, TypeOK, Steps
    <3>. QED  BY <2>1, <3>2, <3>3, <1>0 DEF TypeOK, Time
  <2>. QED  BY <1>7, <2>2, <2>3, <2>4, <2>5 DEF Moves
<1>8. CASE Ends(r)
  <2>1. Finish(r)
    BY <1>8, EndsLocal
  <2>2. CASE Reject(r)
    BY <2>1, <2>2, <1>0, FinishTypes DEF Reject, keys, clients, TypeOK, Time
  <2>3. CASE ExpireFlag(r)
    BY <2>1, <2>3, <1>0, FinishTypes, Times DEF ExpireFlag, ClearCache, clients, TypeOK, Time
  <2>4. CASE Commit(r)
    <3>1. "jti" \in txn[r].dirty => req[r].new \in Jtis
      BY DEF Base, OpAt
    <3>2. row' \in Row
      BY <2>4, <3>1, <1>0 DEF Commit, TypeOK, Row, Transaction, Time
    <3>. QED  BY <2>1, <2>4, <3>2, <1>0, FinishTypes DEF Commit, keys, clients, TypeOK, Time
  <2>. QED  BY <1>8, <2>2, <2>3, <2>4 DEF Ends
<1>. QED
  BY <1>1, <1>2, <1>3, <1>4, <1>5, <1>6, <1>7, <1>8, StepKinds
LEMMA PlaceStep ==
  ASSUME Base, NEW r \in Requests, Step(r)
  PROVE  \A q \in Requests : OpAt(q)'
<1>0. TypeOK /\ OpAt(r) /\ held \subseteq held'
  <2>1. held' = held \/ Respond(r)
    BY DEF Step, BeginAuth, CheckFlag, Load, LoadEnded, Expire, ExpireFlag, CheckTouch, FlushTouch,
      SetTouch, Blacklist, FlushEnd, Flag, BeginRefresh, VerifyRefresh, Burn, Reload, ReloadEnded,
      FlushBind, Replay, Commit, Abort, Reject, clients
  <2>. QED  BY <2>1 DEF Base, Respond, clients
<1>1. ASSUME NEW q \in Requests \ {r} PROVE OpAt(q)'
  BY <1>0, Others DEF Base, OpAt, At
<1>2. OpAt(r)'
  <2>1. CASE BeginAuth(r)
    BY <2>1, BeginAuthLocal DEF OpAt, At, NoTxn
  <2>2. CASE BeginRefresh(r)
    BY <2>2, <1>0, BeginRefreshLocal DEF OpAt, At, NoTxn, FreshJtis
  <2>3. CASE Load(r) \/ Reload(r)
    <3>1. req' = req /\ pc[r] \in {"load", "reload"} /\ (Load(r) => pc[r] = "load")
          /\ (Reload(r) => pc[r] = "reload")
      BY <2>3 DEF Load, Reload, At
    <3>. QED  BY <2>3, <1>0, <3>1, LoadLocal, ReloadLocal DEF OpAt, At
  <2>4. CASE FlushTouch(r) \/ FlushEnd(r) \/ FlushBind(r)
    <3>1. req' = req /\ (FlushTouch(r) => pc[r] = "flush_touch") /\ (FlushBind(r) => pc[r] = "flush_bind")
      BY <2>4 DEF FlushTouch, FlushEnd, FlushBind, At
    <3>. QED  BY <2>4, <1>0, <3>1, DirtyLocal DEF OpAt, At
  <2>5. CASE Burn(r)
    <3>1. req' = req
      BY <2>5 DEF Burn
    <3>2. pc'[r] = "reload" /\ txn'[r].dirty = txn[r].dirty /\ req[r].op = "refresh"
      BY <2>5, BurnLocal
    <3>. QED  BY <1>0, <3>1, <3>2 DEF OpAt, At
  <2>6. CASE Replay(r)
    <3>1. CASE Finish(r)
      <4>1. pc'[r] = "idle" /\ req'[r] = NoReq /\ txn'[r] = NoTxn
        BY <3>1, <1>0, FinishTypes
      <4>. QED  BY <4>1 DEF OpAt, At, NoReq, NoTxn
    <3>2. CASE pc'[r] = "blacklist" /\ req' = req /\ txn'[r].dirty = txn[r].dirty
      BY <3>2, <1>0 DEF OpAt, At
    <3>. QED  BY <2>6, <3>1, <3>2, ReplayLocal
  <2>7. CASE Moves(r)
    <3>1. req' = req /\ txn' = txn
      BY <2>7, MovesLocal
    <3>2. /\ pc'[r] # "idle"
          /\ pc'[r] \in {"check", "load", "throttle", "flush_touch", "set_touch"} =>
               pc[r] \in {"check", "load", "throttle", "flush_touch", "set_touch"}
          /\ pc'[r] \in {"verify", "burn", "reload", "flush_bind", "replay"} =>
               pc[r] \in {"verify", "burn", "reload", "flush_bind", "replay"}
      BY <2>7, <1>0 DEF Moves, Expire, CheckTouch, SetTouch, Blacklist, Flag, VerifyRefresh, Respond,
        CheckFlag, Reject, Body, At, Goto, TypeOK
    <3>. QED  BY <1>0, <3>1, <3>2 DEF OpAt, At
  <2>8. CASE Ends(r)
    <3>1. pc'[r] = "idle" /\ req'[r] = NoReq /\ txn'[r] = NoTxn
      BY <2>8, EndsLocal
    <3>. QED  BY <3>1 DEF OpAt, At, NoReq, NoTxn
  <2>. QED  BY <2>1, <2>2, <2>3, <2>4, <2>5, <2>6, <2>7, <2>8, StepKinds
<1>. QED
  BY <1>1, <1>2

LEMMA InitBase ==
  ASSUME Init
  PROVE  Base
<1>1. NoReq \in Request /\ NoTxn \in Transaction
  BY DEF NoReq, Request, NoTxn, Transaction, Ops, Time
<1>2. now \in Nat
  BY Times DEF Init
<1>3. /\ Expiry(now) \in Nat /\ Seconds(now + AccessLife) \in Nat
      /\ Seconds(now + RefreshLife) \in Nat
  BY <1>2, WholeSeconds, Times DEF Expiry, Earlier
<1>4. TypeOK
  <2>1. row \in Row
    BY <1>2, <1>3, JtiAssumption DEF Init, Row, Time
  <2>2. exp \in [Jtis -> Nat] /\ burnt \in [Jtis -> Nat]
    BY <1>3 DEF Init
  <2>3. held \subseteq Jtis /\ rotated \subseteq Jtis /\ lock \in Requests \cup {NoRequest}
    BY JtiAssumption DEF Init
  <2>6. acked \in BOOLEAN
    BY DEF Init
  <2>5. {revoked, touched, access, used} \subseteq Nat
    <3>1. revoked = 0 /\ touched = 0 /\ used = now
          /\ access = Seconds(now + AccessLife)
      BY DEF Init
    <3>. QED  BY <1>2, <1>3, <3>1
  <2>4. /\ pc \in [Requests -> Steps] /\ req \in [Requests -> Request]
        /\ txn \in [Requests -> Transaction]
    BY <1>1 DEF Init, Steps
  <2>. QED  BY <1>2, <2>1, <2>2, <2>3, <2>4, <2>5, <2>6 DEF TypeOK, Time
<1>5. \A r \in Requests : OpAt(r)
  BY DEF Init, OpAt, At, NoReq, NoTxn
<1>. QED
  BY <1>4, <1>5 DEF Base

LEMMA BaseStep ==
  ASSUME Base, [Next]_vars
  PROVE  Base'
<1>1. CASE UNCHANGED vars
  BY <1>1 DEF vars, Base, TypeOK, OpAt, At
<1>2. CASE Tick
  BY <1>2 DEF Tick, keys, clients, Base, TypeOK, OpAt, At, Time
<1>3. ASSUME NEW r \in Requests, Step(r) PROVE Base'
  BY <1>3, TypesStep, PlaceStep DEF Base
<1>. QED
  BY <1>1, <1>2, <1>3 DEF Next

(* TypeOK (SessionLifetime): the row, the keys, the tokens and the requests have  *)
(* their types, whatever the limits and lifetimes.                               *)
THEOREM LifetimeTypes ==
  Spec => []TypeOK
<1>1. Base => TypeOK
  BY DEF Base
<1>. QED
  BY <1>1, InitBase, BaseStep, PTL DEF Spec

-------------------------------------------------------------------------------
(* Who writes the row and the time of the last service.                          *)
LEMMA RowStep ==
  ASSUME Base, NEW r \in Requests, Step(r)
  PROVE  /\ now' = now /\ row'.expires = row.expires
         /\ row'.last # row.last => Commit(r) /\ row'.last = txn[r].at
         /\ used' # used => (Load(r) \/ Reload(r)) /\ used' = now
<1>0. row \in Row
  BY DEF Base, TypeOK
<1>1. CASE Commit(r)
  BY <1>0, <1>1 DEF Commit, Row
<1>2. CASE Expire(r)
  BY <1>0, <1>2 DEF Expire, Row
<1>3. CASE Load(r) \/ Reload(r)
  BY <1>3 DEF Load, Reload
<1>. QED
  BY <1>1, <1>2, <1>3 DEF Step, BeginAuth, CheckFlag, LoadEnded, ExpireFlag, CheckTouch, FlushTouch,
      SetTouch, Blacklist, FlushEnd, Flag, BeginRefresh, VerifyRefresh, Burn, ReloadEnded,
      FlushBind, Replay, Respond, Abort, Reject

LEMMA LimitStep ==
  ASSUME Base, LimitOK, [Next]_vars
  PROVE  LimitOK'
<1>0. /\ now \in Nat /\ used \in Nat /\ row.last \in Nat
      /\ \A r \in Requests : txn[r].at \in Nat /\ txn'[r].at \in Nat
  BY BaseStep DEF Base, TypeOK, Row, Time, Transaction
<1>1. CASE UNCHANGED vars
  BY <1>1 DEF vars, LimitOK
<1>2. CASE Tick
  BY <1>0, <1>2 DEF Tick, LimitOK
<1>3. ASSUME NEW r \in Requests, Step(r) PROVE LimitOK'
  <2>1. used \in Nat /\ used' \in Nat /\ used <= used' /\ used' <= now'
    BY <1>0, <1>3, RowStep DEF LimitOK
  <2>2. row'.last <= used'
    <3>1. CASE row'.last = row.last
      BY <1>0, <2>1, <3>1 DEF LimitOK
    <3>2. CASE row'.last # row.last
      <4>1. row'.last = txn[r].at /\ pc[r] = "commit"
        BY <1>3, <3>2, RowStep DEF Commit, At
      <4>. QED  BY <1>0, <2>1, <4>1 DEF LimitOK
    <3>. QED  BY <3>1, <3>2
  <2>3. ASSUME NEW q \in Requests \ {r} PROVE pc'[q] \notin {"expire", "expire_flag"} => txn'[q].at <= used'
    BY <1>0, <1>3, <2>1, Others DEF Base, LimitOK
  <2>4. pc'[r] \notin {"expire", "expire_flag"} => txn'[r].at <= used'
    <3>1. CASE BeginAuth(r) \/ BeginRefresh(r)
      BY <2>1, <3>1, BeginAuthLocal, BeginRefreshLocal DEF NoTxn
    <3>2. CASE Load(r) \/ Reload(r)
      <4>1. CASE Load(r)
        <5>1. txn'[r].at = now /\ (pc'[r] = "expire" \/ used' = now)
          BY <4>1, LoadLocal
        <5>. QED  BY <1>0, <5>1
      <4>2. CASE Reload(r)
        <5>1. txn'[r].at = now /\ used' = now
          BY <4>2, ReloadLocal DEF Reload
        <5>. QED  BY <1>0, <5>1
      <4>. QED  BY <3>2, <4>1, <4>2
    <3>3. CASE FlushTouch(r) \/ FlushEnd(r) \/ FlushBind(r)
      <4>1. pc[r] \notin {"expire", "expire_flag"} /\ used' = used
        BY <3>3 DEF FlushTouch, FlushEnd, FlushBind, At
      <4>. QED  BY <3>3, <4>1, DirtyLocal DEF LimitOK
    <3>4. CASE Burn(r)
      <4>1. used' = used
        BY <3>4 DEF Burn
      <4>. QED  BY <3>4, <4>1, BurnLocal DEF LimitOK
    <3>5. CASE Replay(r)
      <4>1. pc[r] = "replay"
        BY <3>5 DEF Replay, At
      <4>2. CASE txn'[r] = NoTxn
        BY <2>1, <4>2 DEF NoTxn
      <4>3. CASE txn'[r].at = txn[r].at
        BY <1>0, <2>1, <4>1, <4>3 DEF LimitOK
      <4>. QED  BY <3>5, <4>2, <4>3, ReplayLocal, FinishTypes DEF Base
    <3>6. CASE Moves(r)
      <4>1. pc[r] \in {"expire", "expire_flag"} => pc'[r] \in {"expire", "expire_flag"}
        BY <3>6 DEF Moves, Expire, CheckTouch, SetTouch, Blacklist, Flag, VerifyRefresh, Respond,
          CheckFlag, Reject, At, Goto, Base, TypeOK
      <4>. QED  BY <1>0, <2>1, <3>6, <4>1, MovesLocal DEF LimitOK
    <3>7. CASE Ends(r)
      BY <2>1, <3>7, EndsLocal DEF NoTxn
    <3>. QED  BY <1>3, <3>1, <3>2, <3>3, <3>4, <3>5, <3>6, <3>7, StepKinds
  <2>. QED  BY <2>1, <2>2, <2>3, <2>4 DEF LimitOK
<1>. QED
  BY <1>1, <1>2, <1>3 DEF Next

(* LimitsEnforced (validate_and_touch): an access token is only honoured within   *)
(* the idle limit of the last request served and within the absolute limit.       *)
THEOREM LimitsHold ==
  Spec => LimitsEnforced
<1>1. Init => LimitOK
  BY Times DEF Init, LimitOK, NoTxn
<1>2. ASSUME Base, LimitOK, [Next]_vars, NEW r \in Requests, At(r, "load"), pc'[r] = "throttle"
      PROVE  ~PastLimit
  <2>1. Load(r)
    <3>1. PICK q \in Requests : Step(q)
      BY <1>2 DEF Next, Tick, vars, At
    <3>2. q = r
      BY <1>2, <3>1, Others DEF Base, At
    <3>. QED
      BY <1>2, <3>1, <3>2, FinishTypes DEF Base, At, Step, BeginAuth, CheckFlag, LoadEnded, Expire,
        ExpireFlag, CheckTouch, FlushTouch, SetTouch, Blacklist, FlushEnd, Flag, BeginRefresh,
        VerifyRefresh, Burn, Reload, ReloadEnded, FlushBind, Replay, Respond, Commit, Abort, Reject
  <2>2. ~Lapsed
    BY <1>2, <2>1, LoadLocal
  <2>3. now \in Nat /\ used \in Nat /\ row.last \in Nat /\ row.expires \in Nat
    BY <1>2 DEF Base, TypeOK, Row, Time
  <2>. QED  BY <1>2, <2>2, <2>3, Times DEF Lapsed, PastLimit, LimitOK
<1>3. Base /\ LimitOK /\ [Next]_vars => [\A r \in Requests : At(r, "load") /\ pc'[r] = "throttle" => ~PastLimit]_vars
  BY <1>2
<1>. QED
  BY <1>1, <1>3, InitBase, BaseStep, LimitStep, PTL DEF Spec, LimitsEnforced

-------------------------------------------------------------------------------
(* Who sets the flag and tells of an end.                                        *)
LEMMA FlagStep ==
  ASSUME Base, NEW r \in Requests, Step(r)
  PROVE  /\ revoked' # revoked => revoked' = now + Absolute
         /\ Flag(r) => revoked' = now + Absolute
         /\ acked => acked'
         /\ acked' => acked \/ (At(r, "respond") /\ "active" \in txn[r].dirty)
<1>1. CASE Flag(r) \/ ExpireFlag(r)
  BY <1>1 DEF Flag, ExpireFlag, ClearCache, clients, At
<1>2. CASE Respond(r)
  <2>1. revoked' = revoked /\ ~Flag(r) /\ At(r, "respond")
    BY <1>2 DEF Respond, keys, Flag, At
  <2>2. acked' = (acked \/ "active" \in txn[r].dirty) \/ acked' = acked
    BY <1>2 DEF Respond, clients
  <2>3. (acked => acked') /\ (acked' => acked \/ "active" \in txn[r].dirty)
    <3>1. acked = TRUE \/ acked = FALSE
      BY DEF Base, TypeOK
    <3>2. CASE acked = TRUE
      BY <2>2, <3>2
    <3>3. CASE acked = FALSE
      BY <2>2, <3>3
    <3>. QED  BY <3>1, <3>2, <3>3
  <2>. QED  BY <2>1, <2>3
<1>. QED
  BY <1>1, <1>2 DEF Step, BeginAuth, CheckFlag, Load, LoadEnded, Expire, CheckTouch, FlushTouch,
      SetTouch, Blacklist, FlushEnd, BeginRefresh, VerifyRefresh, Burn, Reload, ReloadEnded,
      FlushBind, Replay, Commit, Abort, Reject, keys, clients

(* The request itself: it answers an end after the flag, and passes the flag      *)
(* check after an end only when the row is past its absolute limit.              *)
LEMMA EndLocal ==
  ASSUME Base, EndOK, NEW r \in Requests, Step(r)
  PROVE  /\ "active" \in txn'[r].dirty => pc'[r] \in {"flag", "respond", "commit"}
         /\ pc'[r] \in {"respond", "commit"} /\ "active" \in txn'[r].dirty => revoked' # 0
         /\ req'[r].acked => acked'
         /\ req'[r].acked /\ At(r, "load")' => row'.expires <= now'
<1>0. /\ TypeOK /\ now \in Nat /\ revoked \in Nat /\ revoked' \in Nat /\ now + Absolute # 0
      /\ row.expires \in Nat /\ row'.expires = row.expires /\ now' = now
  BY Times, BaseStep, RowStep DEF Base, TypeOK, Time, Row, Next
<1>1. revoked # 0 => revoked' # 0
  BY <1>0, FlagStep
<1>2. CASE BeginAuth(r) \/ BeginRefresh(r)
  <2>1. /\ txn'[r].dirty = {} /\ pc'[r] \in {"check", "verify"} /\ req'[r].acked = acked
        /\ acked => acked'
    BY <1>2, BeginAuthLocal, BeginRefreshLocal, FlagStep DEF NoTxn
  <2>. QED  BY <2>1 DEF At
<1>3. CASE Load(r) \/ Reload(r)
  <2>1. /\ pc'[r] \in {"expire", "throttle", "flush_bind"} /\ txn'[r].dirty = txn[r].dirty
        /\ pc[r] \in {"load", "reload"} /\ req' = req
    BY <1>3, LoadLocal, ReloadLocal DEF Load, Reload, At
  <2>. QED  BY <2>1, FlagStep DEF EndOK, At
<1>4. CASE FlushTouch(r) \/ FlushEnd(r) \/ FlushBind(r)
  <2>1. req' = req /\ (FlushTouch(r) => pc[r] = "flush_touch")
    BY <1>4 DEF FlushTouch, FlushEnd, FlushBind, At
  <2>. QED  BY <1>4, <2>1, DirtyLocal, FlagStep DEF EndOK, At
<1>5. CASE Burn(r)
  <2>1. req' = req /\ pc'[r] = "reload" /\ pc[r] = "burn" /\ txn'[r].dirty = txn[r].dirty
    BY <1>5, BurnLocal DEF Burn
  <2>. QED  BY <2>1, FlagStep DEF EndOK, At
<1>6. CASE Replay(r)
  <2>1. \/ pc'[r] = "idle" /\ req'[r] = NoReq /\ txn'[r] = NoTxn
        \/ pc'[r] = "blacklist" /\ req' = req /\ txn'[r].dirty = txn[r].dirty /\ pc[r] = "replay"
    BY <1>0, <1>6, ReplayLocal, FinishTypes DEF Replay, At
  <2>. QED  BY <2>1, FlagStep DEF EndOK, At, NoReq, NoTxn
<1>7. CASE Moves(r)
  <2>0. req' = req /\ txn' = txn
    BY <1>7, MovesLocal
  <2>1. CASE Expire(r) \/ CheckTouch(r) \/ SetTouch(r) \/ Blacklist(r) \/ VerifyRefresh(r)
    <3>1. pc[r] \notin {"flag", "respond", "commit", "check"} /\ pc'[r] # "load"
      BY <2>1, <1>0 DEF Expire, CheckTouch, SetTouch, Blacklist, VerifyRefresh, At, Goto, Body, TypeOK
    <3>. QED  BY <2>0, <3>1, FlagStep DEF EndOK, At
  <2>2. CASE Flag(r)
    <3>1. pc'[r] \in {"respond", "commit"} /\ revoked' = now + Absolute
      BY <2>2, <1>0, FlagStep DEF Flag, Goto, TypeOK
    <3>. QED  BY <1>0, <2>0, <3>1, FlagStep DEF EndOK, At
  <2>3. CASE Respond(r)
    <3>1. pc[r] = "respond" /\ pc'[r] = "commit"
      BY <2>3, <1>0 DEF Respond, At, Goto, TypeOK
    <3>. QED  BY <1>1, <2>0, <3>1, FlagStep DEF EndOK, At
  <2>4. CASE CheckFlag(r) /\ ~Finish(r)
    <3>1. pc[r] = "check" /\ pc'[r] = "load" /\ ~(now < revoked)
      BY <2>4, <1>0 DEF CheckFlag, Reject, At, Goto, TypeOK
    <3>. QED  BY <1>0, <2>0, <3>1, FlagStep DEF EndOK, At
  <2>. QED  BY <1>7, <2>1, <2>2, <2>3, <2>4 DEF Moves
<1>8. CASE Ends(r)
  <2>1. pc'[r] = "idle" /\ req'[r] = NoReq /\ txn'[r] = NoTxn
    BY <1>8, EndsLocal
  <2>. QED  BY <2>1 DEF At, NoReq, NoTxn
<1>. QED
  BY <1>2, <1>3, <1>4, <1>5, <1>6, <1>7, <1>8, StepKinds

LEMMA EndStep ==
  ASSUME Base, EndOK, [Next]_vars
  PROVE  EndOK'
<1>0. /\ now \in Nat /\ revoked \in Nat /\ row.expires \in Nat
  BY DEF Base, TypeOK, Time, Row
<1>1. CASE UNCHANGED vars
  BY <1>1 DEF vars, keys, clients, EndOK, At
<1>2. CASE Tick
  BY <1>0, <1>2, Times DEF Tick, keys, clients, EndOK, At
<1>3. ASSUME NEW r \in Requests, Step(r) PROVE EndOK'
  <2>1. /\ row'.expires = row.expires /\ now' = now
        /\ row.expires <= now + Absolute /\ (revoked # 0 => row.expires <= revoked)
    BY <1>3, RowStep DEF EndOK
  <2>2. revoked' # 0 => row'.expires <= revoked'
    BY <1>0, <1>3, <2>1, FlagStep
  <2>3. revoked # 0 => revoked' # 0
    BY <1>0, <1>3, Times, FlagStep
  <2>4. acked' => revoked' # 0
    BY <1>3, <2>3, FlagStep DEF EndOK, At
  <2>5. ASSUME NEW q \in Requests \ {r}
        PROVE  /\ "active" \in txn'[q].dirty => pc'[q] \in {"flag", "respond", "commit"}
               /\ pc'[q] \in {"respond", "commit"} /\ "active" \in txn'[q].dirty => revoked' # 0
               /\ req'[q].acked => acked'
               /\ req'[q].acked /\ At(q, "load")' => row'.expires <= now'
    <3>1. pc'[q] = pc[q] /\ req'[q] = req[q] /\ txn'[q] = txn[q]
      BY <1>3, Others DEF Base
    <3>. QED  BY <1>3, <2>1, <2>3, <3>1, FlagStep DEF EndOK, At
  <2>. QED  BY <1>3, <2>1, <2>2, <2>4, <2>5, EndLocal DEF EndOK, At
<1>. QED
  BY <1>1, <1>2, <1>3 DEF Next

LEMMA AnnouncedStep ==
  ASSUME Base, EndOK, AnnouncedEndIsForever, [Next]_vars
  PROVE  AnnouncedEndIsForever'
<1> DEFINE Stopped(r) == req[r].acked /\ req[r].op # "refresh" =>
                           pc[r] \in {"check", "load", "expire", "expire_flag"}
<1>0. TypeOK /\ \A r \in Requests : Stopped(r)
  BY DEF AnnouncedEndIsForever, Base
<1>1. CASE UNCHANGED vars
  BY <1>1 DEF vars, AnnouncedEndIsForever
<1>2. CASE Tick
  BY <1>2 DEF Tick, AnnouncedEndIsForever
<1>3. ASSUME NEW r \in Requests, Step(r) PROVE AnnouncedEndIsForever'
  <2>1. ASSUME NEW q \in Requests \ {r} PROVE Stopped(q)'
    <3>1. pc'[q] = pc[q] /\ req'[q] = req[q]
      BY <1>0, <1>3, Others
    <3>. QED  BY <1>0, <3>1
  <2>2. Stopped(r)'
    <3>1. CASE BeginAuth(r) \/ BeginRefresh(r)
      BY <3>1, BeginAuthLocal, BeginRefreshLocal
    <3>2. CASE Load(r)
      <4>1. req' = req /\ pc[r] = "load"
        BY <3>2 DEF Load, At
      <4>2. req[r].acked => Lapsed
        <5>1. now \in Nat /\ row.expires \in Nat
          BY <1>0 DEF TypeOK, Time, Row
        <5>. QED  BY <4>1, <5>1 DEF EndOK, At, Lapsed
      <4>. QED  BY <3>2, <4>1, <4>2, LoadLocal
    <3>3. CASE Reload(r) \/ FlushTouch(r) \/ FlushEnd(r) \/ FlushBind(r) \/ Burn(r)
      <4>1. req' = req /\ pc[r] \in {"reload", "flush_touch", "flush_end", "flush_bind", "burn"}
        BY <3>3 DEF Reload, FlushTouch, FlushEnd, FlushBind, Burn, At
      <4>. QED  BY <1>0, <4>1
    <3>4. CASE Replay(r)
      <4>1. pc[r] = "replay" /\ (req'[r] = NoReq \/ req' = req)
        BY <1>0, <3>4, ReplayLocal, FinishTypes DEF Replay, At
      <4>. QED  BY <1>0, <4>1 DEF NoReq
    <3>5. CASE Moves(r)
      <4>1. req' = req
        BY <3>5, MovesLocal
      <4>2. \/ pc[r] \notin {"check", "load", "expire", "expire_flag"}
            \/ pc'[r] \in {"load", "expire_flag"}
        BY <3>5, <1>0 DEF Moves, Expire, CheckTouch, SetTouch, Blacklist, Flag, VerifyRefresh, Respond,
          CheckFlag, Reject, At, Goto, TypeOK
      <4>. QED  BY <1>0, <4>1, <4>2
    <3>6. CASE Ends(r)
      BY <3>6, EndsLocal DEF NoReq
    <3>. QED  BY <1>3, <3>1, <3>2, <3>3, <3>4, <3>5, <3>6, StepKinds
  <2>. QED  BY <2>1, <2>2 DEF AnnouncedEndIsForever
<1>. QED
  BY <1>1, <1>2, <1>3 DEF Next

(* AnnouncedEndIsForever (_clear_cache, is_revoked): once a client was told of    *)
(* the end, no access token of the session is honoured, even if the end was never *)
(* committed and after the revoked flag has expired.                             *)
THEOREM AnnouncedEndsLast ==
  Spec => []AnnouncedEndIsForever
<1>1. Init => EndOK /\ AnnouncedEndIsForever
  <2>. SUFFICES ASSUME Init PROVE EndOK /\ AnnouncedEndIsForever
    OBVIOUS
  <2>1. now \in Nat /\ row.expires <= now + Absolute
    BY Times DEF Init, Expiry, Earlier
  <2>. QED  BY <2>1 DEF Init, EndOK, AnnouncedEndIsForever, At, NoReq, NoTxn
<1>. QED
  BY <1>1, InitBase, BaseStep, EndStep, AnnouncedStep, PTL DEF Spec
-------------------------------------------------------------------------------
(* Who mints, hands out and burns refresh tokens.                                *)
LEMMA MintStep ==
  ASSUME Base, NEW r \in Requests, Step(r)
  PROVE  /\ exp' # exp \/ rotated' # rotated => Burn(r)
         /\ burnt' # burnt => Burn(r) \/ Blacklist(r)
         /\ held' = held \/ (At(r, "respond") /\ held' = held \cup ({req[r].new} \ {NoJti}))
<1>1. CASE Burn(r)
  BY <1>1 DEF Burn, clients
<1>2. CASE Blacklist(r)
  BY <1>2 DEF Blacklist, clients
<1>3. CASE Respond(r)
  BY <1>3 DEF Respond, keys, clients
<1>. QED
  BY <1>1, <1>2, <1>3 DEF Step, BeginAuth, CheckFlag, Load, LoadEnded, Expire, ExpireFlag,
      CheckTouch, FlushTouch, SetTouch, FlushEnd, Flag, BeginRefresh, VerifyRefresh, Reload,
      ReloadEnded, FlushBind, Replay, Commit, Abort, Reject, keys, clients

Minting(r) == req[r].op = "refresh" =>
  /\ pc[r] \in {"verify", "burn"} => exp[req[r].new] = 0
  /\ pc[r] \in {"reload", "flush_bind", "respond"} => exp[req[r].new] # 0

LEMMA MintLocal ==
  ASSUME Base, MintOK, NEW r \in Requests, Step(r)
  PROVE  /\ Minting(r)'
         /\ req'[r].new \in {req[r].new, NoJti} \cup FreshJtis
<1>0. TypeOK /\ Minting(r)
  BY DEF Base, MintOK, Minting
<1>1. CASE BeginAuth(r)
  BY <1>1, BeginAuthLocal DEF Minting
<1>2. CASE BeginRefresh(r)
  <2>1. exp' = exp /\ pc'[r] = "verify" /\ req'[r].new \in FreshJtis
    BY <1>2, BeginRefreshLocal DEF BeginRefresh
  <2>. QED  BY <2>1 DEF Minting, FreshJtis
<1>3. CASE Load(r) \/ Reload(r)
  <2>1. exp' = exp /\ req' = req /\ pc'[r] \in {"expire", "throttle", "flush_bind"}
        /\ (pc'[r] = "flush_bind" => pc[r] = "reload")
    BY <1>3, LoadLocal, ReloadLocal DEF Load, Reload, At
  <2>. QED  BY <1>0, <2>1 DEF Minting
<1>4. CASE FlushTouch(r) \/ FlushEnd(r) \/ FlushBind(r)
  <2>1. exp' = exp /\ req' = req /\ pc'[r] \in {"set_touch", "flag", "respond"}
        /\ (pc'[r] = "respond" => pc[r] = "flush_bind")
    BY <1>4, DirtyLocal DEF FlushTouch, FlushEnd, FlushBind, At
  <2>. QED  BY <1>0, <2>1 DEF Minting
<1>5. CASE Burn(r)
  <2>1. req' = req /\ pc'[r] = "reload" /\ exp'[req[r].new] # 0
    BY <1>5, <1>0, BurnLocal DEF Burn, TypeOK
  <2>. QED  BY <2>1 DEF Minting
<1>6. CASE Replay(r)
  <2>1. \/ pc'[r] = "idle" /\ req'[r] = NoReq
        \/ pc'[r] = "blacklist" /\ req' = req
    BY <1>0, <1>6, ReplayLocal, FinishTypes
  <2>. QED  BY <2>1 DEF Minting, NoReq
<1>7. CASE Moves(r)
  <2>1. req' = req /\ exp' = exp
    BY <1>7, MovesLocal, MintStep DEF Moves, Burn, Expire, CheckTouch, SetTouch, Blacklist, Flag,
      VerifyRefresh, Respond, CheckFlag, Reject
  <2>2. /\ pc'[r] \in {"verify", "burn"} => pc[r] \in {"verify", "burn"}
        /\ pc'[r] \in {"reload", "flush_bind"} => FALSE
        /\ pc'[r] = "respond" => req[r].op # "refresh"
    BY <1>7, <1>0 DEF Moves, Expire, CheckTouch, SetTouch, Blacklist, Flag, VerifyRefresh, Respond,
      CheckFlag, Reject, Body, At, Goto, TypeOK, Base, OpAt
  <2>. QED  BY <1>0, <2>1, <2>2 DEF Minting
<1>8. CASE Ends(r)
  BY <1>8, EndsLocal DEF Minting, NoReq
<1>. QED
  BY <1>1, <1>2, <1>3, <1>4, <1>5, <1>6, <1>7, <1>8, StepKinds

LEMMA MintOKStep ==
  ASSUME Base, MintOK, [Next]_vars
  PROVE  MintOK'
<1>0. now \in Nat /\ exp \in [Jtis -> Nat] /\ RememberLife \in Nat /\ held \subseteq Jtis
  BY Times DEF Base, TypeOK, Time
<1>1. CASE UNCHANGED vars
  BY <1>1 DEF vars, clients, MintOK
<1>2. CASE Tick
  BY <1>0, <1>2 DEF Tick, clients, MintOK
<1>3. ASSUME NEW r \in Requests, Step(r) PROVE MintOK'
  <2>0. now' = now
    BY <1>3, RowStep
  <2>1. exp' = exp \/ (Burn(r) /\ exp' = [exp EXCEPT ![req[r].new] = Seconds(now + RefreshLife)])
    BY <1>3, MintStep, BurnLocal
  <2>2. ASSUME NEW j \in Jtis PROVE exp'[j] <= now' + RememberLife /\ (exp[j] # 0 => exp'[j] # 0)
    BY <1>0, <2>0, <2>1, BurnLocal DEF MintOK
  <2>3. ASSUME NEW j \in held' PROVE exp'[j] # 0
    <3>1. CASE j \in held
      BY <1>0, <2>2, <3>1 DEF MintOK
    <3>2. CASE j \notin held
      <4>1. At(r, "respond") /\ j = req[r].new /\ j # NoJti
        BY <1>3, <3>2, MintStep
      <4>2. req[r].op = "refresh" /\ j \in Jtis
        BY <4>1 DEF Base, OpAt
      <4>. QED  BY <2>2, <4>1, <4>2 DEF MintOK, At
    <3>. QED  BY <3>1, <3>2
  <2>4. ASSUME NEW q \in Requests \ {r} PROVE Minting(q)'
    <3>1. pc'[q] = pc[q] /\ req'[q] = req[q]
      BY <1>3, Others DEF Base
    <3>2. req[q].op = "refresh" => req[q].new \in Jtis
      BY DEF Base, OpAt
    <3>3. ASSUME req[q].op = "refresh"
          PROVE  exp'[req[q].new] = exp[req[q].new] \/ req[q].new = req[r].new
      <4>1. CASE exp' = exp
        BY <4>1
      <4>2. CASE exp' = [exp EXCEPT ![req[r].new] = Seconds(now + RefreshLife)]
        BY <1>0, <3>2, <3>3, <4>2
      <4>. QED  BY <2>1, <4>1, <4>2
    <3>4. req[q].new = req[r].new => req[q].new = NoJti
      BY DEF MintOK
    <3>. QED  BY <3>1, <3>2, <3>3, <3>4, JtiAssumption DEF MintOK, Minting
  <2>5. ASSUME NEW p \in Requests, NEW q \in Requests, p # q, req'[p].new = req'[q].new
        PROVE  req'[p].new = NoJti
    <3>1. \A s \in Requests \ {r} : req'[s] = req[s]
      BY <1>3, Others DEF Base
    <3>2. req'[r].new \in {req[r].new, NoJti} \cup FreshJtis
      BY <1>3, MintLocal
    <3>3. CASE p # r /\ q # r
      BY <2>5, <3>1, <3>3 DEF MintOK
    <3>4. CASE p = r \/ q = r
      <4>1. PICK s \in Requests \ {r} : req[s].new = req'[r].new /\ req'[p].new = req[s].new
        BY <2>5, <3>1, <3>4
      <4>2. req[s].new \notin FreshJtis
        BY DEF FreshJtis
      <4>. QED  BY <3>2, <4>1, <4>2 DEF MintOK
    <3>. QED  BY <3>3, <3>4
  <2>6. Minting(r)'
    BY <1>3, MintLocal
  <2>. QED  BY <2>2, <2>3, <2>4, <2>5, <2>6 DEF MintOK, Minting
<1>. QED
  BY <1>1, <1>2, <1>3 DEF Next

LEMMA BurntStep ==
  ASSUME Base, MintOK, BurntOK, [Next]_vars
  PROVE  BurntOK'
<1>0. /\ now \in Nat /\ exp \in [Jtis -> Nat] /\ burnt \in [Jtis -> Nat] /\ held \subseteq Jtis
      /\ Second \in Nat \ {0} /\ RememberLife \in Nat
  BY Times DEF Base, TypeOK, Time
<1>1. CASE UNCHANGED vars
  BY <1>1 DEF vars, keys, clients, BurntOK
<1>2. CASE Tick
  BY <1>0, <1>2 DEF Tick, keys, clients, BurntOK
<1>3. ASSUME NEW r \in Requests, Burn(r) PROVE BurntOK'
  <2> DEFINE tok == req[r].tok  ttl == Seconds(exp[tok] - now)
  <2>1. /\ tok \in held /\ req[r].new \in Jtis /\ now' = now /\ held' = held
        /\ rotated' = rotated \cup {tok} /\ exp[req[r].new] = 0
        /\ exp' = [exp EXCEPT ![req[r].new] = Seconds(now + RefreshLife)]
    BY <1>3, BurnLocal DEF Burn, clients, MintOK
  <2>2. \A j \in held : j # req[r].new /\ exp'[j] = exp[j]
    BY <1>0, <2>1 DEF MintOK
  <2>3. burnt' = IF ttl > 0 THEN [burnt EXCEPT ![tok] = now + ttl] ELSE burnt
    BY <1>3 DEF Burn
  <2>4. \A j \in held \ {tok} : burnt'[j] = burnt[j]
    BY <1>0, <2>3
  <2>5. exp[tok] - Second < burnt'[tok] \/ exp[tok] - Second < now
    <3>1. CASE exp[tok] < now
      BY <1>0, <2>1, <3>1
    <3>2. CASE exp[tok] >= now
      <4>1. exp[tok] - now \in Nat
        BY <1>0, <2>1, <3>2
      <4>2. ttl \in Nat /\ exp[tok] - now - Second < ttl
        BY <4>1, WholeSeconds
      <4> HIDE DEF ttl
      <4>3. CASE ttl > 0
        <5>1. burnt'[tok] = now + ttl
          BY <1>0, <2>1, <2>3, <4>3
        <5>. QED  BY <1>0, <2>1, <4>2, <5>1
      <4>4. CASE ttl = 0
        BY <1>0, <2>1, <4>2, <4>4
      <4>. QED  BY <4>2, <4>3, <4>4
    <3>. QED  BY <1>0, <2>1, <3>1, <3>2
  <2> HIDE DEF tok, ttl
  <2>. QED  BY <2>1, <2>2, <2>4, <2>5 DEF BurntOK
<1>4. ASSUME NEW r \in Requests, Step(r), ~Burn(r) PROVE BurntOK'
  <2>1. exp' = exp /\ rotated' = rotated /\ now' = now /\ held \subseteq held'
    BY <1>4, MintStep, RowStep
  <2>2. \A j \in Jtis : burnt'[j] = burnt[j] \/ burnt'[j] = now + RememberLife
    BY <1>0, <1>4, MintStep DEF Blacklist
  <2>3. \A j \in Jtis : exp[j] <= now + RememberLife
    BY DEF MintOK
  <2>. QED  BY <1>0, <2>1, <2>2, <2>3 DEF BurntOK
<1>. QED
  BY <1>1, <1>2, <1>3, <1>4 DEF Next

(* RotatedStaysBurnt (rotate, revoke): a rotated refresh token is blacklisted     *)
(* until the last second before it expires, whatever else writes that key.       *)
THEOREM RotatedStayBurnt ==
  Spec => []RotatedStaysBurnt
<1>1. Init => MintOK /\ BurntOK
  <2>. SUFFICES ASSUME Init PROVE MintOK /\ BurntOK
    OBVIOUS
  <2>1. now \in Nat /\ now + RefreshLife \in Nat
    BY Times DEF Init
  <2>2. Seconds(now + RefreshLife) # 0 /\ Seconds(now + RefreshLife) <= now + RememberLife
    BY <2>1, WholeSeconds, Times
  <2>3. \A j \in Jtis : exp[j] <= now + RememberLife
    BY <2>1, <2>2, Times DEF Init
  <2>4. \A j \in held : exp[j] # 0
    BY <2>2, JtiAssumption DEF Init
  <2>. QED  BY <2>3, <2>4 DEF Init, MintOK, BurntOK, NoReq
<1>2. Base /\ BurntOK => RotatedStaysBurnt
  <2>. SUFFICES ASSUME Base, BurntOK, NEW j \in rotated, now <= exp[j] - Second PROVE now < burnt[j]
    BY DEF RotatedStaysBurnt
  <2>1. now \in Nat /\ exp[j] \in Nat /\ burnt[j] \in Nat /\ Second \in Nat
    BY Times DEF Base, TypeOK, Time
  <2>. QED  BY <2>1 DEF BurntOK
<1>. QED
  BY <1>1, <1>2, InitBase, BaseStep, MintOKStep, BurntStep, PTL DEF Spec
==============================================================================
