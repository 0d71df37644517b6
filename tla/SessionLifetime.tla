---------------------------- MODULE SessionLifetime ----------------------------
(* The clock of one session: idle and absolute limit of the row, expiry of its *)
(* access and refresh tokens, lifetimes of its Redis keys. Requests run as in  *)
(* SessionService; time passes between them, and within one while it waits for *)
(* the row's lock or for its commit. The session has just been opened; further *)
(* sessions and the logout route are SessionService's.                         *)
EXTENDS Integers, FiniteSets

CONSTANTS
  Requests, NoRequest,
  Jtis, NoJti,
  FirstJti,     \* the refresh token of the login
  Idle,         \* SESSION_IDLE_TIMEOUT_MINUTES
  Absolute,     \* SESSION_ABSOLUTE_EXPIRE_HOURS
  Throttle,     \* SESSION_ACTIVITY_THROTTLE_SECONDS
  AccessLife,   \* ACCESS_TOKEN_EXPIRE_MINUTES
  RefreshLife,  \* REFRESH_TOKEN_EXPIRE_DAYS, or the next one for a remembered login
  RememberLife, \* REFRESH_TOKEN_REMEMBER_ME_DAYS
  Second,       \* ticks of the clock in a second
  Horizon       \* bound: the last tick

ASSUME JtiAssumption == FirstJti \in Jtis /\ NoJti \notin Jtis
ASSUME RequestAssumption == NoRequest \notin Requests
ASSUME TimeAssumption ==
  /\ {Idle, Absolute, Throttle, AccessLife, RefreshLife, RememberLife, Second, Horizon}
       \subseteq Nat \ {0}
  /\ Second <= RefreshLife /\ RefreshLife <= RememberLife

VARIABLES
  now,
  row,          \* committed: [active, last (last_activity_at), expires, jti]
  lock,         \* the transaction that has an uncommitted UPDATE of the row
  revoked,      \* when the session_revoked key expires
  touched,      \* when the session_touch key expires
  access,       \* when the newest access token a client has expires
  exp,          \* when each refresh token expires; 0: not minted yet
  burnt,        \* when the blacklist key of each refresh token expires
  held,         \* refresh tokens some client has received
  rotated,      \* refresh tokens that have been exchanged
  used,         \* when the session last served a request
  acked,        \* some client has been told that the session ended
  pc, req, txn

keys == <<revoked, touched, burnt>>
clients == <<access, held, acked>>
vars == <<now, row, lock, revoked, touched, access, exp, burnt, held, rotated, used, acked,
          pc, req, txn>>

Ops == {"call", "logout", "refresh"}
Steps == {"idle", "check", "load", "expire", "expire_flag", "throttle", "flush_touch", "set_touch",
  "verify", "burn", "reload", "flush_bind", "replay", "blacklist", "flush_end", "flag",
  "respond", "commit"}
Time == Nat
Row == [active : BOOLEAN, last : Time, expires : Time, jti : Jtis]

(* On arrival, had a client been told of the end, was the session past a limit? *)
Request == [op : Ops, tok : Jtis \cup {NoJti}, new : Jtis \cup {NoJti}, acked : BOOLEAN, late : BOOLEAN]

(* at: _now() as the handler read it; jti: refresh_token_id as it loaded it;    *)
(* dirty: the columns it has changed; access: when its new access token expires. *)
Transaction == [at : Time, jti : Jtis \cup {NoJti}, dirty : SUBSET {"last", "jti", "active"},
                access : Time]

NoReq == [op |-> "call", tok |-> NoJti, new |-> NoJti, acked |-> FALSE, late |-> FALSE]
NoTxn == [at |-> 0, jti |-> NoJti, dirty |-> {}, access |-> 0]

Earlier(s, t) == IF s < t THEN s ELSE t
Seconds(t) == t - (t % Second)      \* int() of a time or of a duration in seconds
Expiry(t) == t + Earlier(RefreshLife, Absolute)
PastLimit == now > used + Idle \/ now >= row.expires

Init ==
  /\ now \in 0 .. Second - 1
  /\ row = [active |-> TRUE, last |-> now, expires |-> Expiry(now), jti |-> FirstJti]
  /\ lock = NoRequest
  /\ revoked = 0 /\ touched = 0
  /\ access = Seconds(now + AccessLife)
  /\ exp = [j \in Jtis |-> IF j = FirstJti THEN Seconds(now + RefreshLife) ELSE 0]
  /\ burnt = [j \in Jtis |-> 0]
  /\ held = {FirstJti} /\ rotated = {} /\ used = now /\ acked = FALSE
  /\ pc = [r \in Requests |-> "idle"]
  /\ req = [r \in Requests |-> NoReq]
  /\ txn = [r \in Requests |-> NoTxn]

-------------------------------------------------------------------------------
At(r, step) == pc[r] = step
Goto(r, step) == pc' = [pc EXCEPT ![r] = step]
LockRow(r) == lock \in {NoRequest, r} /\ lock' = r
FreshJtis == {j \in Jtis : exp[j] = 0 /\ \A r \in Requests : req[r].new # j}

Finish(r) ==
  /\ Goto(r, "idle")
  /\ lock' = IF lock = r THEN NoRequest ELSE lock
  /\ req' = [req EXCEPT ![r] = NoReq]
  /\ txn' = [txn EXCEPT ![r] = NoTxn]
Reject(r) == Finish(r) /\ UNCHANGED <<now, row, keys, clients, exp, rotated, used>>

(* Bound: between the other steps a request takes milliseconds, here no time.   *)
Waits == {"idle", "expire", "flush_touch", "flush_end", "flush_bind", "commit"}
Tick ==
  /\ now < Horizon /\ \A r \in Requests : pc[r] \in Waits
  /\ now' = now + 1
  /\ UNCHANGED <<row, lock, keys, clients, exp, rotated, used, pc, req, txn>>

-------------------------------------------------------------------------------
(* A request with an access token that has not expired.                        *)
BeginAuth(r) ==
  /\ At(r, "idle") /\ now < access
  /\ \E op \in {"call", "logout"} :
       req' = [req EXCEPT ![r] = [NoReq EXCEPT !.op = op, !.acked = acked, !.late = PastLimit]]
  /\ Goto(r, "check")
  /\ UNCHANGED <<now, row, lock, keys, clients, exp, rotated, used, txn>>

CheckFlag(r) ==
  /\ At(r, "check")
  /\ IF now < revoked
       THEN Reject(r)
       ELSE Goto(r, "load") /\ UNCHANGED <<now, row, lock, keys, clients, exp, rotated, used, req, txn>>

(* Mutant of Lapsed: the idle limit counts from the expiry of the touch key.   *)
LapsedLate == now >= row.expires \/ now > row.last + Throttle + Idle

Lapsed == now >= row.expires \/ now > row.last + Idle

(* The row as validate_and_touch finds it, right before _now().                *)
Load(r) ==
  /\ At(r, "load") /\ row.active
  /\ txn' = [txn EXCEPT ![r].at = now, ![r].jti = row.jti]
  /\ IF Lapsed
       THEN Goto(r, "expire") /\ UNCHANGED used
       ELSE Goto(r, "throttle") /\ used' = now
  /\ UNCHANGED <<now, row, lock, keys, clients, exp, rotated, req>>
LoadEnded(r) == At(r, "load") /\ ~row.active /\ Reject(r)

Expire(r) ==
  /\ At(r, "expire") /\ lock = NoRequest
  /\ row' = [row EXCEPT !.active = FALSE]
  /\ Goto(r, "expire_flag")
  /\ UNCHANGED <<now, lock, keys, clients, exp, rotated, used, req, txn>>

(* _clear_cache(revoke=True)                                                   *)
ClearCache == touched' = 0 /\ revoked' = now + Absolute
ExpireFlag(r) ==
  /\ At(r, "expire_flag") /\ ClearCache
  /\ Finish(r)
  /\ UNCHANGED <<now, row, burnt, clients, exp, rotated, used>>

(* _touch: the key is looked up, the row flushed, the key set. The handler of   *)
(* the route follows.                                                          *)
Body(r) == IF req[r].op = "logout" THEN "blacklist" ELSE "respond"
CheckTouch(r) ==
  /\ At(r, "throttle")
  /\ Goto(r, IF now < touched THEN Body(r) ELSE "flush_touch")
  /\ UNCHANGED <<now, row, lock, keys, clients, exp, rotated, used, req, txn>>

FlushTouch(r) ==
  /\ At(r, "flush_touch") /\ LockRow(r)
  /\ txn' = [txn EXCEPT ![r].dirty = @ \cup {"last"}]
  /\ Goto(r, "set_touch")
  /\ UNCHANGED <<now, row, keys, clients, exp, rotated, used, req>>

SetTouch(r) ==
  /\ At(r, "set_touch")
  /\ touched' = now + Throttle
  /\ Goto(r, Body(r))
  /\ UNCHANGED <<now, row, lock, revoked, burnt, clients, exp, rotated, used, req, txn>>

-------------------------------------------------------------------------------
(* SessionService.revoke                                                       *)
Blacklist(r) ==
  /\ At(r, "blacklist")
  /\ burnt' = [burnt EXCEPT ![txn[r].jti] = now + RememberLife]
  /\ Goto(r, "flush_end")
  /\ UNCHANGED <<now, row, lock, revoked, touched, clients, exp, rotated, used, req, txn>>

FlushEnd(r) ==
  /\ At(r, "flush_end") /\ LockRow(r)
  /\ txn' = [txn EXCEPT ![r].dirty = @ \cup {"active"}]
  /\ Goto(r, "flag")
  /\ UNCHANGED <<now, row, keys, clients, exp, rotated, used, req>>

(* Mutant of Flag: the revoked flag lives as long as the touch key.            *)
FlagBriefly(r) ==
  /\ At(r, "flag")
  /\ touched' = 0 /\ revoked' = now + Throttle
  /\ Goto(r, IF req[r].op = "refresh" THEN "commit" ELSE "respond")
  /\ UNCHANGED <<now, row, lock, burnt, clients, exp, rotated, used, req, txn>>

(* A replay is committed before it is answered.                                *)
Flag(r) ==
  /\ At(r, "flag") /\ ClearCache
  /\ Goto(r, IF req[r].op = "refresh" THEN "commit" ELSE "respond")
  /\ UNCHANGED <<now, row, lock, burnt, clients, exp, rotated, used, req, txn>>

-------------------------------------------------------------------------------
(* A request with a refresh token that has not expired.                        *)
BeginRefresh(r) ==
  /\ At(r, "idle")
  /\ \E j \in held, k \in FreshJtis :
       /\ now < exp[j]
       /\ req' = [req EXCEPT ![r] = [op |-> "refresh", tok |-> j, new |-> k, acked |-> acked,
                                    late |-> PastLimit]]
  /\ Goto(r, "verify")
  /\ UNCHANGED <<now, row, lock, keys, clients, exp, rotated, used, txn>>

VerifyRefresh(r) ==
  /\ At(r, "verify")
  /\ Goto(r, IF now < burnt[req[r].tok] THEN "replay" ELSE "burn")
  /\ UNCHANGED <<now, row, lock, keys, clients, exp, rotated, used, req, txn>>

(* Mutant of Burn: the blacklist entry lives a second too short.               *)
BurnBriefly(r) ==
  LET ttl == Seconds(exp[req[r].tok] - now) - Second IN
  /\ At(r, "burn")
  /\ burnt' = IF ttl > 0 THEN [burnt EXCEPT ![req[r].tok] = now + ttl] ELSE burnt
  /\ exp' = [exp EXCEPT ![req[r].new] = Seconds(now + RefreshLife)]
  /\ txn' = [txn EXCEPT ![r].access = Seconds(now + AccessLife)]
  /\ rotated' = rotated \cup {req[r].tok}
  /\ Goto(r, "reload")
  /\ UNCHANGED <<now, row, lock, revoked, touched, clients, used, req>>

(* rotate: the old token is blacklisted for the whole seconds it has left, and *)
(* a new pair is minted.                                                       *)
Burn(r) ==
  LET ttl == Seconds(exp[req[r].tok] - now) IN
  /\ At(r, "burn")
  /\ burnt' = IF ttl > 0 THEN [burnt EXCEPT ![req[r].tok] = now + ttl] ELSE burnt
  /\ exp' = [exp EXCEPT ![req[r].new] = Seconds(now + RefreshLife)]
  /\ txn' = [txn EXCEPT ![r].access = Seconds(now + AccessLife)]
  /\ rotated' = rotated \cup {req[r].tok}
  /\ Goto(r, "reload")
  /\ UNCHANGED <<now, row, lock, revoked, touched, clients, used, req>>

(* rebind_refresh                                                              *)
Reload(r) ==
  /\ At(r, "reload") /\ row.active
  /\ txn' = [txn EXCEPT ![r].at = now]
  /\ used' = now
  /\ Goto(r, "flush_bind")
  /\ UNCHANGED <<now, row, lock, keys, clients, exp, rotated, req>>
ReloadEnded(r) == At(r, "reload") /\ ~row.active /\ Reject(r)

FlushBind(r) ==
  /\ At(r, "flush_bind") /\ LockRow(r)
  /\ txn' = [txn EXCEPT ![r].dirty = {"last", "jti"}]
  /\ Goto(r, "respond")
  /\ UNCHANGED <<now, row, keys, clients, exp, rotated, used, req>>

(* _handle_refresh_replay                                                      *)
Replay(r) ==
  /\ At(r, "replay")
  /\ IF row.active
       THEN /\ txn' = [txn EXCEPT ![r].jti = row.jti]
            /\ Goto(r, "blacklist")
            /\ UNCHANGED <<now, row, lock, keys, clients, exp, rotated, used, req>>
       ELSE Reject(r)

-------------------------------------------------------------------------------
(* Mutant of Respond: an answer without tokens still stores a token.           *)
RespondAlways(r) ==
  /\ At(r, "respond")
  /\ held' = held \cup {req[r].new}
  /\ access' = txn[r].access
  /\ acked' = (acked \/ "active" \in txn[r].dirty)
  /\ Goto(r, "commit")
  /\ UNCHANGED <<now, row, lock, keys, exp, rotated, used, req, txn>>

(* The response leaves before the commit, and may be lost.                     *)
Respond(r) ==
  /\ At(r, "respond")
  /\ \/ /\ held' = held \cup ({req[r].new} \ {NoJti})
        /\ access' = IF txn[r].access > access THEN txn[r].access ELSE access
        /\ acked' = (acked \/ "active" \in txn[r].dirty)
     \/ UNCHANGED clients
  /\ Goto(r, "commit")
  /\ UNCHANGED <<now, row, lock, keys, exp, rotated, used, req, txn>>

(* UPDATE writes the dirty columns only.                                       *)
Commit(r) ==
  /\ At(r, "commit")
  /\ row' = [row EXCEPT
       !.active = @ /\ "active" \notin txn[r].dirty,
       !.last = IF "last" \in txn[r].dirty THEN txn[r].at ELSE @,
       !.jti = IF "jti" \in txn[r].dirty THEN req[r].new ELSE @]
  /\ Finish(r)
  /\ UNCHANGED <<now, keys, clients, exp, rotated, used>>

Abort(r) == ~At(r, "idle") /\ Reject(r)

Step(r) ==
  \/ BeginAuth(r) \/ CheckFlag(r) \/ Load(r) \/ LoadEnded(r)
  \/ Expire(r) \/ ExpireFlag(r)
  \/ CheckTouch(r) \/ FlushTouch(r) \/ SetTouch(r)
  \/ Blacklist(r) \/ FlushEnd(r) \/ Flag(r)
  \/ BeginRefresh(r) \/ VerifyRefresh(r) \/ Burn(r)
  \/ Reload(r) \/ ReloadEnded(r) \/ FlushBind(r) \/ Replay(r)
  \/ Respond(r) \/ Commit(r) \/ Abort(r)

Next == Tick \/ \E r \in Requests : Step(r)
Spec == Init /\ [][Next]_vars

-------------------------------------------------------------------------------
(* Type invariant of the session's times and keys.                             *)
TypeOK ==
  /\ now \in Time /\ row \in Row /\ lock \in Requests \cup {NoRequest}
  /\ {revoked, touched, access, used} \subseteq Time
  /\ exp \in [Jtis -> Time] /\ burnt \in [Jtis -> Time]
  /\ held \subseteq Jtis /\ rotated \subseteq Jtis /\ acked \in BOOLEAN
  /\ pc \in [Requests -> Steps] /\ req \in [Requests -> Request] /\ txn \in [Requests -> Transaction]

(* An access token is only honoured within the idle limit of the last request  *)
(* the session really served, although last_activity_at is throttled, written  *)
(* late and rolled back with failed requests, and never past the absolute limit. *)
LimitsEnforced ==
  [][\A r \in Requests : At(r, "load") /\ pc'[r] = "throttle" => ~PastLimit]_vars

(* The revoked flag outlives what it has to stop: when the key expires, a       *)
(* session whose end was announced but never committed has passed its absolute  *)
(* limit, and no access token of it is honoured.                                *)
AnnouncedEndIsForever ==
  \A r \in Requests : req[r].acked /\ req[r].op # "refresh" =>
    pc[r] \in {"check", "load", "expire", "expire_flag"}

(* A rotated refresh token stays in the blacklist until the last second before  *)
(* it expires.                                                                  *)
RotatedStaysBurnt == \A j \in rotated : now <= exp[j] - Second => now < burnt[j]

-------------------------------------------------------------------------------
(* What the repository says and the code does not keep.                         *)

(* A session past its idle or absolute limit is not continued by a refresh.     *)
LimitsBindRefresh ==
  \A r \in Requests : req[r].op = "refresh" /\ req[r].late => ~At(r, "respond")
===============================================================================
