------------------------------ MODULE RateLimiter ------------------------------
(* Rate limits and lockout of the password login, for one client address and    *)
(* one account: the middleware's window, the route's window, the lock check, the *)
(* password check and the bookkeeping after it. Each Redis call is a step. The   *)
(* lock check, the failure count and their clearing are also what verify_totp    *)
(* and consume_recovery_code do, under an identifier of their own.               *)
(*                                                                              *)
(* Keys carry the time they have left. Counters stop one above their limit: the  *)
(* code never tells larger values apart.                                         *)
EXTENDS Integers, FiniteSets

CONSTANTS
  Requests,         \* the logins the server handles at one time
  Limit,            \* RATE_LIMIT_PER_MINUTE, AUTH_RATE_LIMIT_PER_MINUTE
  Window,           \* the length of a window, in ticks
  MaxFailures,      \* MAX_FAILED_LOGINS
  Lockout,          \* LOCKOUT_SECONDS, in ticks
  MaxErrors         \* bound: Redis calls that fail and requests that are cut short

Windows == {"global", "auth"}
Counters == Windows \cup {"fail"}

ASSUME RequestsAssumption == IsFiniteSet(Requests)
ASSUME LimitAssumption == Limit \in [Windows -> Nat \ {0}]
ASSUME TimesAssumption == Window \in Nat \ {0} /\ Lockout \in Nat \ {0}
ASSUME MaxAssumption == MaxFailures \in Nat \ {0} /\ MaxErrors \in Nat

VARIABLES
  count,            \* Redis: the counters, 0 when there is no key
  ttl,              \* the time a counter has left, or Forever
  lock,             \* Redis: the time the lockout key has left, 0 when there is none
  pc, at,           \* per request: the next step, and the window it is about
  aged,             \* requests that were running at the last tick
  errors,           \* Redis calls that have failed, requests that were cut short
  admitted,         \* requests let through since the auth window opened
  wrong,            \* wrong guesses since counting last started anew
  endless           \* windows that were opened and whose own EXPIRE was lost

keys == <<count, ttl, lock>>
ghosts == <<admitted, wrong, endless>>
vars == <<keys, pc, at, aged, errors, ghosts>>

Forever == -1
Steps == {"idle", "hit", "hit_expire", "check", "verify",
          "fail", "fail_expire", "fail_lock", "fail_reset", "clear", "clear_lock"}
Top(k) == (IF k = "fail" THEN MaxFailures ELSE Limit[k]) + 1

Init ==
  /\ count = [k \in Counters |-> 0] /\ ttl = [k \in Counters |-> Forever] /\ lock = 0
  /\ pc = [r \in Requests |-> "idle"] /\ at = [r \in Requests |-> "global"]
  /\ aged = {} /\ errors = 0 /\ admitted = 0 /\ wrong = 0 /\ endless = {}

-------------------------------------------------------------------------------
At(r, step) == pc[r] = step
Goto(r, step) == pc' = [pc EXCEPT ![r] = step]
Counted(k) == IF count[k] < Top(k) THEN count[k] + 1 ELSE count[k]

(* INCR makes the key without an expiry; EXPIRE is a call of its own.           *)
Incr(k) == count' = [count EXCEPT ![k] = Counted(k)]

Expire(k, t) == ttl' = IF count[k] > 0 THEN [ttl EXCEPT ![k] = t] ELSE ttl

Delete(k) == count' = [count EXCEPT ![k] = 0] /\ ttl' = [ttl EXCEPT ![k] = Forever]

Finish(r) ==
  /\ pc' = [pc EXCEPT ![r] = "idle"]
  /\ at' = [at EXCEPT ![r] = "global"]
  /\ aged' = aged \ {r}

Begin(r) ==
  /\ At(r, "idle")
  /\ Goto(r, "hit")
  /\ UNCHANGED <<keys, at, aged, errors, ghosts>>

(* Behind the middleware comes the route's own limit, then authenticate.         *)
AfterWindow(k) == IF k = "global" THEN "hit" ELSE "check"

(* Mutant of Decide: the counter as it was before the INCR decides.             *)
DecideLate(r, n) ==
  LET k == at[r] IN
  IF count[k] > Limit[k] THEN Finish(r) /\ UNCHANGED admitted
  ELSE /\ Goto(r, AfterWindow(k))
       /\ at' = [at EXCEPT ![r] = "auth"]
       /\ admitted' = IF k = "auth" THEN admitted + 1 ELSE admitted
       /\ UNCHANGED aged

(* The end of hit: refuse over the limit, or go on to the next gate.            *)
Decide(r, n) ==
  LET k == at[r] IN
  IF n > Limit[k] THEN Finish(r) /\ UNCHANGED admitted
  ELSE /\ Goto(r, AfterWindow(k))
       /\ at' = [at EXCEPT ![r] = "auth"]
       /\ admitted' = IF k = "auth" THEN admitted + 1 ELSE admitted
       /\ UNCHANGED aged

HitIncr(r) ==
  /\ At(r, "hit")
  /\ Incr(at[r])
  /\ IF Counted(at[r]) = 1
       THEN Goto(r, "hit_expire") /\ UNCHANGED <<at, aged, admitted>>
       ELSE Decide(r, Counted(at[r]))
  /\ UNCHANGED <<ttl, lock, errors, wrong, endless>>

(* Mutant of HitExpire: the window gets no end.                                 *)
HitNoExpire(r) ==
  /\ At(r, "hit_expire")
  /\ Decide(r, 1)
  /\ UNCHANGED <<keys, errors, wrong, endless>>

HitExpire(r) ==
  /\ At(r, "hit_expire")
  /\ Expire(at[r], Window)
  /\ Decide(r, 1)
  /\ UNCHANGED <<count, lock, errors, wrong, endless>>

(* A failure changes no key, but a request that fails between INCR and EXPIRE   *)
(* leaves a window without an end.                                              *)
Failure(r) ==
  /\ errors < MaxErrors /\ errors' = errors + 1
  /\ endless' = IF At(r, "hit_expire") THEN endless \cup {at[r]} ELSE endless
  /\ UNCHANGED <<keys, admitted, wrong>>

(* Redis is down: the middleware lets the request through to the route.          *)
HitError(r) ==
  /\ pc[r] \in {"hit", "hit_expire"} /\ at[r] = "global"
  /\ Goto(r, "hit") /\ at' = [at EXCEPT ![r] = "auth"]
  /\ Failure(r) /\ UNCHANGED aged

-------------------------------------------------------------------------------
(* Mutant of EnsureNotLocked: a locked account is still guessed at.             *)
EnsureNothing(r) ==
  /\ At(r, "check")
  /\ Goto(r, "verify")
  /\ UNCHANGED <<keys, at, aged, errors, ghosts>>

EnsureNotLocked(r) ==
  /\ At(r, "check")
  /\ IF lock > 0 THEN Finish(r) ELSE Goto(r, "verify") /\ UNCHANGED <<at, aged>>
  /\ UNCHANGED <<keys, errors, ghosts>>

(* The password, in a worker thread: wrong, right, or right for an account that *)
(* is disabled.                                                                 *)
Verify(r) ==
  /\ At(r, "verify")
  /\ \/ Goto(r, "fail") /\ wrong' = wrong + 1 /\ UNCHANGED <<at, aged>>
     \/ Goto(r, "clear") /\ UNCHANGED <<at, aged, wrong>>
     \/ Finish(r) /\ UNCHANGED wrong
  /\ UNCHANGED <<keys, errors, admitted, endless>>

(* Mutant of RecordFailure: the count that locks is one too high.               *)
RecordFailureLate(r) ==
  /\ At(r, "fail")
  /\ Incr("fail")
  /\ IF Counted("fail") = 1 THEN Goto(r, "fail_expire") /\ UNCHANGED <<at, aged>>
     ELSE IF count["fail"] >= MaxFailures THEN Goto(r, "fail_lock") /\ UNCHANGED <<at, aged>>
     ELSE Finish(r)
  /\ UNCHANGED <<ttl, lock, errors, ghosts>>

RecordFailure(r) ==
  /\ At(r, "fail")
  /\ Incr("fail")
  /\ IF Counted("fail") = 1 THEN Goto(r, "fail_expire") /\ UNCHANGED <<at, aged>>
     ELSE IF Counted("fail") >= MaxFailures THEN Goto(r, "fail_lock") /\ UNCHANGED <<at, aged>>
     ELSE Finish(r)
  /\ UNCHANGED <<ttl, lock, errors, ghosts>>

FailExpire(r) ==
  /\ At(r, "fail_expire")
  /\ Expire("fail", Lockout)
  /\ IF MaxFailures = 1 THEN Goto(r, "fail_lock") /\ UNCHANGED <<at, aged>> ELSE Finish(r)
  /\ UNCHANGED <<count, lock, errors, ghosts>>

(* Mutant of FailLock: the lockout key is set without its expiry.               *)
FailLockNoEnd(r) ==
  /\ At(r, "fail_lock")
  /\ lock' = Forever
  /\ Goto(r, "fail_reset")
  /\ UNCHANGED <<count, ttl, at, aged, errors, ghosts>>

FailLock(r) ==
  /\ At(r, "fail_lock")
  /\ lock' = Lockout
  /\ Goto(r, "fail_reset")
  /\ UNCHANGED <<count, ttl, at, aged, errors, ghosts>>

FailReset(r) ==
  /\ At(r, "fail_reset")
  /\ Delete("fail") /\ wrong' = 0
  /\ Finish(r)
  /\ UNCHANGED <<lock, errors, admitted, endless>>

(* clear_failures: two DELETEs. The login goes on in SessionService.            *)
ClearCount(r) ==
  /\ At(r, "clear")
  /\ Delete("fail") /\ wrong' = 0
  /\ Goto(r, "clear_lock")
  /\ UNCHANGED <<lock, at, aged, errors, admitted, endless>>

ClearLock(r) ==
  /\ At(r, "clear_lock")
  /\ lock' = 0 /\ wrong' = 0
  /\ Finish(r)
  /\ UNCHANGED <<count, ttl, errors, admitted, endless>>

(* The route's limit and ensure_not_locked fail closed; the bookkeeping after   *)
(* the decision swallows the error and leaves the rest of its calls undone. A    *)
(* worker that is cancelled or crashes does no more calls either, at any step.   *)
Abort(r) == ~At(r, "idle") /\ Finish(r) /\ Failure(r)

(* Redis drops the keys whose time is over. A request lives through one tick at *)
(* most: it is short against a window and a lockout.                            *)
Tick ==
  LET left(k) == IF ttl[k] = Forever THEN Forever ELSE ttl[k] - 1
      gone == {k \in Counters : left(k) = 0}
  IN
  /\ aged = {}
  /\ aged' = {r \in Requests : ~At(r, "idle")}
  /\ ttl' = [k \in Counters |-> IF k \in gone THEN Forever ELSE left(k)]
  /\ count' = [k \in Counters |-> IF k \in gone THEN 0 ELSE count[k]]
  /\ lock' = IF lock > 0 THEN lock - 1 ELSE 0
  /\ admitted' = IF "auth" \in gone THEN 0 ELSE admitted
  /\ wrong' = IF "fail" \in gone \/ lock = 1 THEN 0 ELSE wrong
  /\ UNCHANGED <<pc, at, errors, endless>>

Step(r) ==
  \/ HitIncr(r) \/ HitExpire(r) \/ HitError(r)
  \/ EnsureNotLocked(r) \/ Verify(r)
  \/ RecordFailure(r) \/ FailExpire(r) \/ FailLock(r) \/ FailReset(r)
  \/ ClearCount(r) \/ ClearLock(r) \/ Abort(r)

Next == Tick \/ \E r \in Requests : Begin(r) \/ Step(r)
Spec == Init /\ [][Next]_vars

(* Time passes, and a request that has begun goes on.                           *)
FairSpec == Spec /\ WF_vars(Tick) /\ \A r \in Requests : WF_vars(Step(r))

-------------------------------------------------------------------------------
(* Type invariant of the limiter's keys and of the logins under way.            *)
TypeOK ==
  /\ count \in [Counters -> Nat] /\ \A k \in Counters : count[k] <= Top(k)
  /\ ttl \in [Counters -> {Forever} \cup 1..(Window + Lockout)] /\ lock \in 0..Lockout
  /\ \A k \in Counters : count[k] = 0 => ttl[k] = Forever
  /\ pc \in [Requests -> Steps] /\ at \in [Requests -> Windows]
  /\ aged \subseteq Requests /\ errors \in 0..MaxErrors
  /\ admitted \in Nat /\ wrong \in Nat /\ endless \subseteq Windows

(* hit: between the creation and the expiry of the route's counter no more      *)
(* requests get to a password check than the limit, however they overlap and    *)
(* whichever Redis calls fail.                                                  *)
AdmittedPerWindow == admitted <= Limit["auth"]

(* The lock check and the count are calls of their own, so an account takes     *)
(* more wrong guesses than MAX_FAILED_LOGINS: one for each other request that   *)
(* had passed the check, and one for each Redis call that failed or request that *)
(* was cut short before its guess was counted, not more.                        *)
GuessesBounded == wrong <= MaxFailures + Cardinality(Requests) - 1 + errors

(* A lockout ends: requests that keep coming while the account is locked do not *)
(* renew it.                                                                    *)
LockEnds == lock > 0 ~> lock = 0

(* A client over its limit is let in again when the window has passed, whatever  *)
(* else fails: requests that keep coming do not renew the window, and only a     *)
(* window whose own EXPIRE was lost stays closed.                                *)
WindowReopens ==
  \A k \in Windows : count[k] > Limit[k] ~> (count[k] <= Limit[k] \/ k \in endless)
===============================================================================
