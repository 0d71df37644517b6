-------------------------- MODULE RateLimiterProofs --------------------------
(* What holds of RateLimiter for any number of logins, any limits and times and  *)
(* any number of failing Redis calls.                                            *)
EXTENDS RateLimiter, FiniteSetTheorems, TLAPS

(* A window is being opened: its counter is there, its expiry is still to be set. *)
Opening(r, k) == At(r, "hit_expire") /\ at[r] = k
Opened == \E r \in Requests : Opening(r, "auth")
WindowsOK ==
  /\ \A r \in Requests, k \in Windows : Opening(r, k) => count[k] > 0 /\ ttl[k] = Forever
  /\ \A r, q \in Requests, k \in Windows : Opening(r, k) /\ Opening(q, k) => r = q
  /\ admitted <= count["auth"] /\ admitted <= Limit["auth"]
  /\ Opened => admitted < count["auth"] /\ admitted < Limit["auth"]

(* Requests whose wrong guess is not in the counter, or is the one that locks.    *)
Guessing ==
  {"fail", "fail_lock", "fail_reset"} \cup (IF MaxFailures = 1 THEN {"fail_expire"} ELSE {})
Uncounted == {r \in Requests : pc[r] \in Guessing}
Counting == IF count["fail"] < MaxFailures THEN count["fail"] ELSE MaxFailures - 1
GuessesOK == wrong <= Counting + Cardinality(Uncounted) + errors

USE LimitAssumption, TimesAssumption, MaxAssumption, RequestsAssumption

-------------------------------------------------------------------------------
(* The steps that a request may take and where they leave it.                    *)
LEMMA Counts ==
  ASSUME TypeOK, NEW k \in Counters
  PROVE  /\ count[k] \in Nat /\ Top(k) \in Nat /\ Top(k) >= 2 /\ count[k] <= Top(k)
         /\ Counted(k) \in 1 .. Top(k)
         /\ count[k] < Top(k) => Counted(k) = count[k] + 1
         /\ count[k] = Top(k) => Counted(k) = count[k]
  BY DEF TypeOK, Counted, Top, Counters, Windows

LEMMA FinishTypes ==
  ASSUME TypeOK, NEW r \in Requests, Finish(r)
  PROVE  /\ pc' \in [Requests -> Steps] /\ at' \in [Requests -> Windows]
         /\ aged' \subseteq Requests
  BY DEF TypeOK, Finish, Steps, Windows

LEMMA DecideTypes ==
  ASSUME TypeOK, NEW r \in Requests, NEW n, Decide(r, n)
  PROVE  /\ pc' \in [Requests -> Steps] /\ at' \in [Requests -> Windows]
         /\ aged' \subseteq Requests /\ admitted' \in Nat
  BY FinishTypes DEF TypeOK, Decide, AfterWindow, Goto, Steps, Windows

LEMMA IncrTypes ==
  ASSUME TypeOK, NEW k \in Counters, Incr(k), ttl' = ttl
  PROVE  /\ count' \in [Counters -> Nat] /\ \A c \in Counters : count'[c] <= Top(c)
         /\ \A c \in Counters : count'[c] = 0 => ttl'[c] = Forever
  BY Counts DEF TypeOK, Incr

LEMMA ExpireTypes ==
  ASSUME TypeOK, NEW k \in Counters, NEW t \in {Window, Lockout}, Expire(k, t), count' = count
  PROVE  /\ ttl' \in [Counters -> {Forever} \cup 1 .. (Window + Lockout)]
         /\ \A c \in Counters : count'[c] = 0 => ttl'[c] = Forever
  BY DEF TypeOK, Expire

LEMMA DeleteTypes ==
  ASSUME TypeOK, NEW k \in Counters, Delete(k)
  PROVE  /\ count' \in [Counters -> Nat] /\ \A c \in Counters : count'[c] <= Top(c)
         /\ ttl' \in [Counters -> {Forever} \cup 1 .. (Window + Lockout)]
         /\ \A c \in Counters : count'[c] = 0 => ttl'[c] = Forever
  BY Counts DEF TypeOK, Delete

LEMMA StepTypes ==
  ASSUME TypeOK, NEW r \in Requests, Begin(r) \/ Step(r)
  PROVE  TypeOK'
<1>. at[r] \in Counters /\ "fail" \in Counters
  BY DEF TypeOK, Counters
<1>1. CASE Begin(r)
  BY <1>1 DEF Begin, TypeOK, keys, ghosts, Goto, Steps, Top
<1>2. CASE HitIncr(r)
  <2>1. CASE Counted(at[r]) = 1
    BY <1>2, <2>1, IncrTypes DEF HitIncr, TypeOK, Goto, Steps, Top
  <2>2. CASE Counted(at[r]) # 1
    BY <1>2, <2>2, IncrTypes, DecideTypes DEF HitIncr, TypeOK, Top
  <2>. QED  BY <2>1, <2>2
<1>3. CASE HitExpire(r)
  BY <1>3, ExpireTypes, DecideTypes DEF HitExpire, TypeOK, Top
<1>4. CASE HitError(r)
  BY <1>4, FinishTypes DEF HitError, Failure, TypeOK, Goto, keys, ghosts, Steps, Windows, Top
<1>5. CASE EnsureNotLocked(r)
  BY <1>5, FinishTypes DEF EnsureNotLocked, TypeOK, Goto, keys, ghosts, Steps, Top
<1>6. CASE Verify(r)
  BY <1>6, FinishTypes DEF Verify, TypeOK, Goto, keys, Steps, Top
<1>7. CASE RecordFailure(r)
  BY <1>7, FinishTypes, IncrTypes DEF RecordFailure, TypeOK, Goto, ghosts, Steps, Top
<1>8. CASE FailExpire(r)
  BY <1>8, FinishTypes, ExpireTypes DEF FailExpire, TypeOK, Goto, ghosts, Steps, Top
<1>9. CASE FailLock(r)
  BY <1>9 DEF FailLock, TypeOK, Goto, ghosts, Steps, Top
<1>10. CASE FailReset(r)
  BY <1>10, FinishTypes, DeleteTypes DEF FailReset, TypeOK, Top
<1>11. CASE ClearCount(r)
  BY <1>11, DeleteTypes DEF ClearCount, TypeOK, Goto, Steps, Top
<1>12. CASE ClearLock(r)
  BY <1>12, FinishTypes DEF ClearLock, TypeOK, Top
<1>13. CASE Abort(r)
  BY <1>13, FinishTypes DEF Abort, Failure, TypeOK, keys, Top
<1>. QED
  BY <1>1, <1>2, <1>3, <1>4, <1>5, <1>6, <1>7, <1>8, <1>9, <1>10, <1>11, <1>12, <1>13 DEF Step

LEMMA TickTypes ==
  ASSUME TypeOK, Tick
  PROVE  TypeOK'
<1>1. \A k \in Counters :
        /\ ttl'[k] = IF ttl[k] \in {Forever, 1} THEN Forever ELSE ttl[k] - 1
        /\ count'[k] = IF ttl[k] = 1 THEN 0 ELSE count[k]
  BY DEF TypeOK, Tick, Forever
<1>2. ttl' \in [Counters -> {Forever} \cup 1 .. (Window + Lockout)]
  <2>1. \A k \in Counters : ttl'[k] \in {Forever} \cup 1 .. (Window + Lockout)
    BY <1>1 DEF TypeOK, Forever
  <2>. QED  BY <2>1 DEF Tick
<1>3. count' \in [Counters -> Nat] /\ \A k \in Counters : count'[k] <= Top(k)
  <2>1. \A k \in Counters : count'[k] \in Nat /\ count'[k] <= Top(k)
    BY <1>1, Counts DEF TypeOK
  <2>. QED  BY <2>1 DEF Tick
<1>4. \A k \in Counters : count'[k] = 0 => ttl'[k] = Forever
  BY <1>1 DEF TypeOK
<1>5. /\ lock' \in 0 .. Lockout /\ aged' \subseteq Requests /\ admitted' \in Nat
      /\ wrong' \in Nat /\ endless' \subseteq Windows
  BY DEF TypeOK, Tick
<1>. QED
  BY <1>2, <1>3, <1>4, <1>5 DEF TypeOK, Tick, Top

(* TypeOK (RateLimiter): keys, counters and requests have their types, a counter  *)
(* that is gone has no expiry, for any limits, times and number of requests.      *)
THEOREM LimiterTypes ==
  Spec => []TypeOK
<1>1. Init => TypeOK
  BY DEF Init, TypeOK, Forever, Top, Steps, Counters, Windows
<1>2. TypeOK /\ [Next]_vars => TypeOK'
  <2>. SUFFICES ASSUME TypeOK, [Next]_vars PROVE TypeOK'
    OBVIOUS
  <2>1. CASE UNCHANGED vars
    BY <2>1 DEF vars, keys, ghosts, TypeOK, Top
  <2>2. CASE Next
    BY <2>2, StepTypes, TickTypes DEF Next
  <2>. QED  BY <2>1, <2>2
<1>. QED
  BY <1>1, <1>2, PTL DEF Spec
-------------------------------------------------------------------------------
(* A request's step leaves the place of the others alone.                         *)
LEMMA Others ==
  ASSUME TypeOK, NEW r \in Requests, Begin(r) \/ Step(r), NEW q \in Requests \ {r}
  PROVE  pc'[q] = pc[q] /\ at'[q] = at[q]
  BY DEF Begin, Step, HitIncr, HitExpire, HitError, EnsureNotLocked, Verify, RecordFailure,
         FailExpire, FailLock, FailReset, ClearCount, ClearLock, Abort, Decide, Finish,
         Goto, TypeOK

(* Only hit writes the windows and admits.                                        *)
LEMMA WindowsKept ==
  ASSUME TypeOK, NEW r \in Requests, Begin(r) \/ Step(r), ~HitIncr(r), ~HitExpire(r)
  PROVE  /\ admitted' = admitted
         /\ \A k \in Windows : count'[k] = count[k] /\ ttl'[k] = ttl[k]
         /\ pc'[r] # "hit_expire"
<1>1. "fail" \in Counters /\ "fail" \notin Windows /\ Windows \subseteq Counters
  BY DEF Counters, Windows
<1>2. CASE Begin(r) \/ HitError(r) \/ EnsureNotLocked(r) \/ Verify(r) \/ Abort(r)
  BY <1>2 DEF Begin, HitError, EnsureNotLocked, Verify, Abort, Failure, Finish, Goto, keys,
              ghosts, TypeOK
<1>3. CASE RecordFailure(r) \/ FailExpire(r)
  BY <1>1, <1>3 DEF RecordFailure, FailExpire, Incr, Expire, Finish, Goto, ghosts, TypeOK
<1>4. CASE FailLock(r) \/ FailReset(r) \/ ClearCount(r) \/ ClearLock(r)
  BY <1>1, <1>4 DEF FailLock, FailReset, ClearCount, ClearLock, Delete, Finish, Goto, ghosts, TypeOK
<1>. QED
  BY <1>2, <1>3, <1>4 DEF Step

(* hit's INCR: it opens the window, or the count decides.                         *)
LEMMA HitIncrWindows ==
  ASSUME TypeOK, WindowsOK, NEW r \in Requests, HitIncr(r)
  PROVE  WindowsOK'
<1> DEFINE k == at[r]
<1>1. k \in Windows /\ k \in Counters /\ "auth" \in Counters /\ k # "fail"
  BY DEF TypeOK, Counters, Windows
<1>2. Limit[k] \in Nat \ {0} /\ Limit["auth"] \in Nat \ {0} /\ Top(k) = Limit[k] + 1
  BY <1>1 DEF Windows, Top
<1>3. count'[k] = Counted(k) /\ \A c \in Counters \ {k} : count'[c] = count[c]
  BY <1>1 DEF HitIncr, Incr, TypeOK
<1>4. ttl' = ttl /\ ~Opening(r, "auth") /\ \A c \in Windows : ~Opening(r, c)
  BY DEF HitIncr, Opening, At
<1>5. \A q \in Requests \ {r}, c \in Windows : Opening(q, c)' <=> Opening(q, c)
  BY Others DEF Step, Opening, At
<1>6. count[k] \in Nat /\ Counted(k) >= count[k] /\ Counted(k) \in Nat \ {0}
      /\ admitted \in Nat /\ count["auth"] \in Nat
  BY <1>1, Counts DEF TypeOK
<1>7. CASE Counted(k) = 1
  <2>1. count[k] = 0
    BY <1>1, <1>2, <1>7, Counts
  <2>2. pc'[r] = "hit_expire" /\ at' = at /\ admitted' = admitted
    BY <1>7 DEF HitIncr, Goto, TypeOK
  <2>3. \A q \in Requests : ~Opening(q, k)
    BY <1>1, <2>1 DEF WindowsOK
  <2>4. \A c \in Windows : Opening(r, c)' <=> c = k
    BY <2>2 DEF Opening, At
  <2>5. ttl[k] = Forever
    BY <1>1, <2>1 DEF TypeOK
  <2>6. \A q \in Requests, c \in Windows : Opening(q, c)' => count'[c] > 0 /\ ttl'[c] = Forever
    BY <1>1, <1>3, <1>4, <1>5, <1>7, <2>4, <2>5 DEF WindowsOK, Counters
  <2>7. \A q, p \in Requests, c \in Windows : Opening(q, c)' /\ Opening(p, c)' => q = p
    BY <1>5, <2>3, <2>4 DEF WindowsOK
  <2>8. CASE k = "auth"
    <3>1. admitted = 0
      BY <1>6, <2>1, <2>8 DEF WindowsOK
    <3>. QED  BY <1>2, <1>3, <1>7, <2>2, <2>6, <2>7, <2>8, <3>1 DEF WindowsOK
  <2>9. CASE k # "auth"
    <3>1. Opened' <=> Opened
      BY <1>4, <1>5, <2>4, <2>9 DEF Opened, Windows
    <3>. QED  BY <1>1, <1>3, <2>2, <2>6, <2>7, <2>9, <3>1 DEF WindowsOK
  <2>. QED  BY <2>8, <2>9
<1>8. CASE Counted(k) # 1
  <2>1. pc'[r] # "hit_expire"
    BY <1>8 DEF HitIncr, Decide, Finish, Goto, AfterWindow, TypeOK
  <2>2. \A q \in Requests, c \in Windows : Opening(q, c)' <=> Opening(q, c)
    BY <1>4, <1>5, <2>1 DEF Opening, At
  <2>3. Opened' <=> Opened
    BY <2>2 DEF Opened, Windows
  <2>4. \A q \in Requests, c \in Windows : Opening(q, c)' => count'[c] > 0 /\ ttl'[c] = Forever
    BY <1>1, <1>3, <1>4, <1>6, <2>2 DEF WindowsOK, Counters
  <2>5. \A q, p \in Requests, c \in Windows : Opening(q, c)' /\ Opening(p, c)' => q = p
    BY <2>2 DEF WindowsOK
  <2>6. CASE k = "auth" /\ Counted(k) <= Limit[k]
    <3>1. admitted' = admitted + 1
      BY <1>8, <2>6, <1>2, <1>6 DEF HitIncr, Decide
    <3>2. Counted(k) = count[k] + 1
      BY <1>1, <1>2, <2>6, Counts
    <3>. QED  BY <1>2, <1>3, <1>6, <2>3, <2>4, <2>5, <2>6, <3>1, <3>2 DEF WindowsOK
  <2>7. CASE ~(k = "auth" /\ Counted(k) <= Limit[k])
    <3>1. admitted' = admitted
      BY <1>8, <2>7, <1>2, <1>6 DEF HitIncr, Decide
    <3>2. count'["auth"] \in Nat /\ count'["auth"] >= count["auth"]
      BY <1>1, <1>3, <1>6
    <3>. QED  BY <1>2, <1>6, <2>3, <2>4, <2>5, <3>1, <3>2 DEF WindowsOK
  <2>. QED  BY <2>6, <2>7
<1>. QED
  BY <1>7, <1>8

(* hit's EXPIRE: the window is open, and its first request goes on.               *)
LEMMA HitExpireWindows ==
  ASSUME TypeOK, WindowsOK, NEW r \in Requests, HitExpire(r)
  PROVE  WindowsOK'
<1> DEFINE k == at[r]
<1>1. k \in Windows /\ k \in Counters /\ "auth" \in Windows /\ Opening(r, k)
  BY DEF HitExpire, TypeOK, Counters, Windows, Opening
<1>2. Limit[k] \in Nat \ {0} /\ Limit["auth"] \in Nat \ {0}
  BY <1>1
<1>3. count' = count /\ \A c \in Counters \ {k} : ttl'[c] = ttl[c]
  BY DEF HitExpire, Expire, TypeOK
<1>4. pc'[r] # "hit_expire"
  BY DEF HitExpire, Decide, Finish, Goto, AfterWindow, TypeOK
<1>5. \A q \in Requests \ {r}, c \in Windows : Opening(q, c)' <=> Opening(q, c)
  BY Others DEF Step, Opening, At
<1>6. \A q \in Requests, c \in Windows : Opening(q, c)' => q # r /\ Opening(q, c) /\ c # k
  BY <1>1, <1>4, <1>5 DEF WindowsOK, Opening, At
<1>7. \A q \in Requests, c \in Windows : Opening(q, c)' => count'[c] > 0 /\ ttl'[c] = Forever
  BY <1>3, <1>6 DEF WindowsOK, Counters
<1>8. \A q, p \in Requests, c \in Windows : Opening(q, c)' /\ Opening(p, c)' => q = p
  BY <1>6 DEF WindowsOK
<1>9. admitted' = IF k = "auth" THEN admitted + 1 ELSE admitted
  BY <1>2 DEF HitExpire, Decide
<1>10. CASE k = "auth"
  <2>1. ~Opened'
    BY <1>1, <1>6, <1>10 DEF Opened
  <2>2. admitted < count["auth"] /\ admitted < Limit["auth"]
    BY <1>1, <1>10 DEF WindowsOK, Opened
  <2>3. admitted \in Nat /\ count["auth"] \in Nat
    BY <1>1, <1>10 DEF TypeOK
  <2>. QED  BY <1>2, <1>3, <1>7, <1>8, <1>9, <1>10, <2>1, <2>2, <2>3 DEF WindowsOK
<1>11. CASE k # "auth"
  <2>1. Opened' => Opened
    BY <1>1, <1>6 DEF Opened
  <2>. QED  BY <1>3, <1>7, <1>8, <1>9, <1>11, <2>1 DEF WindowsOK
<1>. QED
  BY <1>10, <1>11

(* A window that is being opened has no expiry yet: time does not close it.       *)
LEMMA TickWindows ==
  ASSUME TypeOK, WindowsOK, Tick
  PROVE  WindowsOK'
<1>1. \A k \in Counters :
        /\ ttl'[k] = IF ttl[k] \in {Forever, 1} THEN Forever ELSE ttl[k] - 1
        /\ count'[k] = IF ttl[k] = 1 THEN 0 ELSE count[k]
  BY DEF TypeOK, Tick, Forever
<1>2. \A q \in Requests, c \in Windows : Opening(q, c)' <=> Opening(q, c)
  BY DEF Tick, Opening, At
<1>3. Opened' <=> Opened
  BY <1>2 DEF Opened, Windows
<1>4. "auth" \in Counters /\ "auth" \in Windows /\ Windows \subseteq Counters /\ Forever # 1
  BY DEF Counters, Windows, Forever
<1>5. \A q \in Requests, c \in Windows : Opening(q, c)' => count'[c] > 0 /\ ttl'[c] = Forever
  BY <1>1, <1>2, <1>4 DEF WindowsOK
<1>6. \A q, p \in Requests, c \in Windows : Opening(q, c)' /\ Opening(p, c)' => q = p
  BY <1>2 DEF WindowsOK
<1>7. admitted' = IF ttl["auth"] = 1 THEN 0 ELSE admitted
  BY <1>4 DEF Tick, TypeOK, Forever
<1>8. Opened => ttl["auth"] = Forever
  BY <1>4 DEF Opened, WindowsOK
<1>9. Limit["auth"] \in Nat \ {0} /\ count["auth"] \in Nat /\ admitted \in Nat
  BY <1>4 DEF TypeOK
<1>10. CASE ttl["auth"] = 1
  BY <1>1, <1>3, <1>4, <1>5, <1>6, <1>7, <1>8, <1>9, <1>10 DEF WindowsOK
<1>11. CASE ttl["auth"] # 1
  BY <1>1, <1>3, <1>4, <1>5, <1>6, <1>7, <1>11 DEF WindowsOK
<1>. QED
  BY <1>10, <1>11

LEMMA WindowsStep ==
  ASSUME TypeOK, WindowsOK, [Next]_vars
  PROVE  WindowsOK'
<1>1. CASE UNCHANGED vars
  BY <1>1 DEF vars, keys, ghosts, WindowsOK, Opened, Opening, At
<1>2. ASSUME NEW r \in Requests, Begin(r) \/ Step(r), ~HitIncr(r), ~HitExpire(r)
      PROVE  WindowsOK'
  <2>1. /\ admitted' = admitted /\ pc'[r] # "hit_expire"
        /\ \A k \in Windows : count'[k] = count[k] /\ ttl'[k] = ttl[k]
    BY <1>2, WindowsKept
  <2>2. \A q \in Requests, c \in Windows : Opening(q, c)' => Opening(q, c)
    BY <1>2, <2>1, Others DEF Opening, At
  <2>3. Opened' => Opened
    BY <2>2 DEF Opened, Windows
  <2>. QED  BY <2>1, <2>2, <2>3 DEF WindowsOK, Windows
<1>. QED
  BY <1>1, <1>2, HitIncrWindows, HitExpireWindows, TickWindows DEF Next

(* AdmittedPerWindow (hit): from the creation of the route's counter to its       *)
(* expiry no more requests get to a password check than the limit.                *)
THEOREM WindowsBoundLogins ==
  Spec => []AdmittedPerWindow
<1>1. Init => WindowsOK
  BY DEF Init, WindowsOK, Opened, Opening, At, Counters, Windows
<1>2. WindowsOK => AdmittedPerWindow
  BY DEF WindowsOK, AdmittedPerWindow
<1>. QED
  BY <1>1, <1>2, WindowsStep, LimiterTypes, PTL DEF Spec
-------------------------------------------------------------------------------
LEMMA WithAndWithout ==
  ASSUME NEW S \in SUBSET Requests, NEW r \in Requests
  PROVE  /\ IsFiniteSet(S) /\ Cardinality(S) \in Nat /\ Cardinality(S \ {r}) \in Nat
         /\ Cardinality(S) = Cardinality(S \ {r}) + (IF r \in S THEN 1 ELSE 0)
<1>1. IsFiniteSet(S) /\ IsFiniteSet(S \ {r})
  BY FS_Subset
<1>2. Cardinality(S) \in Nat /\ Cardinality(S \ {r}) \in Nat
  BY <1>1, FS_CardinalityType
<1>3. Cardinality(S \ {r}) = IF r \in S THEN Cardinality(S) - 1 ELSE Cardinality(S)
  BY <1>1, FS_RemoveElement
<1>. QED
  BY <1>1, <1>2, <1>3

(* A request's step moves no other one into or out of Uncounted.                  *)
LEMMA UncountedStep ==
  ASSUME TypeOK, NEW r \in Requests, Begin(r) \/ Step(r)
  PROVE  /\ Cardinality(Uncounted) \in Nat /\ Cardinality(Uncounted') \in Nat
         /\ (pc[r] \in Guessing <=> pc'[r] \in Guessing) =>
              Cardinality(Uncounted') = Cardinality(Uncounted)
         /\ pc[r] \in Guessing /\ pc'[r] \notin Guessing =>
              Cardinality(Uncounted') = Cardinality(Uncounted) - 1
         /\ pc[r] \notin Guessing /\ pc'[r] \in Guessing =>
              Cardinality(Uncounted') = Cardinality(Uncounted) + 1
<1>1. Uncounted' \ {r} = Uncounted \ {r}
  BY Others DEF Uncounted, Guessing
<1>2. Uncounted \in SUBSET Requests /\ Uncounted' \in SUBSET Requests
  BY DEF Uncounted
<1>3. (r \in Uncounted <=> pc[r] \in Guessing) /\ (r \in Uncounted' <=> pc'[r] \in Guessing)
  BY DEF Uncounted, Guessing
<1>4. /\ Cardinality(Uncounted) \in Nat /\ Cardinality(Uncounted \ {r}) \in Nat
      /\ Cardinality(Uncounted) = Cardinality(Uncounted \ {r}) + (IF r \in Uncounted THEN 1 ELSE 0)
  BY <1>2, WithAndWithout
<1>5. /\ Cardinality(Uncounted') \in Nat
      /\ Cardinality(Uncounted') = Cardinality(Uncounted' \ {r}) + (IF r \in Uncounted' THEN 1 ELSE 0)
  BY <1>2, WithAndWithout
<1>. QED
  BY <1>1, <1>3, <1>4, <1>5

(* Every wrong guess is in the counter, on its way there, or lost to a Redis call *)
(* that failed; the guess that reaches the limit stays with the request that      *)
(* locks.                                                                         *)
LEMMA GuessesStep ==
  ASSUME TypeOK, GuessesOK, [Next]_vars
  PROVE  GuessesOK'
<1>0. /\ wrong \in Nat /\ errors \in Nat /\ count["fail"] \in Nat /\ MaxFailures \in Nat \ {0}
      /\ Counting \in Nat
  BY DEF TypeOK, Counters, Counting
<1>1. CASE UNCHANGED vars
  BY <1>1 DEF vars, keys, ghosts, GuessesOK, Counting, Uncounted, Guessing
<1>2. CASE Tick
  <2>1. Uncounted' = Uncounted /\ errors' = errors
    BY <1>2 DEF Tick, Uncounted, Guessing
  <2>2. Cardinality(Uncounted) \in Nat
    BY WithAndWithout, FS_Subset, FS_CardinalityType DEF Uncounted
  <2>3. wrong' = 0 \/ (wrong' = wrong /\ count'["fail"] = count["fail"])
    BY <1>2 DEF Tick, Counters
  <2>4. count'["fail"] \in Nat
    BY <1>2, <1>0 DEF Tick, Counters
  <2>5. CASE wrong' = 0
    BY <1>0, <2>1, <2>2, <2>4, <2>5 DEF GuessesOK, Counting
  <2>6. CASE wrong' = wrong /\ count'["fail"] = count["fail"]
    BY <1>0, <2>1, <2>6 DEF GuessesOK, Counting
  <2>. QED  BY <2>3, <2>5, <2>6
<1>3. ASSUME NEW r \in Requests, Begin(r) \/ Step(r)
      PROVE  GuessesOK'
  <2>0. Cardinality(Uncounted) \in Nat /\ Cardinality(Uncounted') \in Nat
    BY <1>3, UncountedStep
  <2>w. at[r] \in Windows /\ "fail" \notin Windows /\ "fail" \in Counters
    BY DEF TypeOK, Windows, Counters
  <2>1. CASE \/ Begin(r) \/ HitIncr(r) \/ HitExpire(r) \/ EnsureNotLocked(r)
    <3>1. wrong' = wrong /\ errors' = errors /\ count'["fail"] = count["fail"]
      BY <2>1, <2>w DEF Begin, HitIncr, HitExpire, EnsureNotLocked, Incr, keys, ghosts, TypeOK
    <3>2. pc[r] \notin Guessing /\ pc'[r] \notin Guessing
      BY <2>1 DEF Begin, HitIncr, HitExpire, EnsureNotLocked, Decide, AfterWindow, Finish, Goto,
                  At, Guessing, TypeOK
    <3>3. Cardinality(Uncounted') = Cardinality(Uncounted)
      BY <1>3, <3>2, UncountedStep
    <3>. QED  BY <3>1, <3>3 DEF GuessesOK, Counting
  <2>2. CASE HitError(r) \/ Abort(r)
    <3>1. wrong' = wrong /\ errors' = errors + 1 /\ count'["fail"] = count["fail"]
      BY <2>2 DEF HitError, Abort, Failure, keys
    <3>2. pc'[r] \notin Guessing
      BY <2>2 DEF HitError, Abort, Finish, Goto, Guessing, TypeOK
    <3>3. Cardinality(Uncounted') >= Cardinality(Uncounted) - 1
      BY <1>3, <2>0, <3>2, UncountedStep
    <3>. QED  BY <1>0, <2>0, <3>1, <3>3 DEF GuessesOK, Counting
  <2>3. CASE Verify(r)
    <3>1. errors' = errors /\ count'["fail"] = count["fail"] /\ pc[r] \notin Guessing
      BY <2>3 DEF Verify, keys, At, Guessing
    <3>2. CASE wrong' = wrong + 1 /\ pc'[r] = "fail"
      <4>1. Cardinality(Uncounted') = Cardinality(Uncounted) + 1
        BY <1>3, <3>1, <3>2, UncountedStep DEF Guessing
      <4>. QED  BY <1>0, <2>0, <3>1, <3>2, <4>1 DEF GuessesOK, Counting
    <3>3. CASE wrong' = wrong /\ pc'[r] \in {"clear", "idle"}
      <4>1. Cardinality(Uncounted') = Cardinality(Uncounted)
        BY <1>3, <3>1, <3>3, UncountedStep DEF Guessing
      <4>. QED  BY <3>1, <3>3, <4>1 DEF GuessesOK, Counting
    <3>. QED  BY <2>3, <3>2, <3>3 DEF Verify, Goto, Finish, TypeOK
  <2>4. CASE RecordFailure(r)
    <3>1. /\ wrong' = wrong /\ errors' = errors /\ pc[r] \in Guessing
          /\ count'["fail"] = Counted("fail") /\ Top("fail") = MaxFailures + 1
      BY <2>4, <2>w DEF RecordFailure, Incr, ghosts, At, Guessing, TypeOK, Top
    <3>2. CASE Counted("fail") >= MaxFailures
      <4>1. pc'[r] \in Guessing
        BY <2>4, <3>2, <1>0 DEF RecordFailure, Goto, Guessing, TypeOK
      <4>2. Cardinality(Uncounted') = Cardinality(Uncounted)
        BY <1>3, <3>1, <4>1, UncountedStep
      <4>3. Counting <= Counting' /\ Counting' \in Nat
        <5>1. count'["fail"] \in Nat /\ ~(count'["fail"] < MaxFailures)
          BY <1>0, <2>w, <3>1, <3>2, Counts
        <5>. QED  BY <1>0, <5>1 DEF Counting
      <4>. QED  BY <1>0, <2>0, <3>1, <4>2, <4>3 DEF GuessesOK
    <3>3. CASE Counted("fail") < MaxFailures
      <4>1. Counted("fail") = count["fail"] + 1
        BY <1>0, <2>w, <3>1, <3>3, Counts
      <4>2. Cardinality(Uncounted') >= Cardinality(Uncounted) - 1
        BY <1>3, <2>0, <3>1, UncountedStep
      <4>. QED  BY <1>0, <2>0, <3>1, <3>3, <4>1, <4>2 DEF GuessesOK, Counting
    <3>. QED  BY <1>0, <2>w, <3>2, <3>3, Counts
  <2>5. CASE FailExpire(r) \/ FailLock(r)
    <3>1. wrong' = wrong /\ errors' = errors /\ count' = count
      BY <2>5 DEF FailExpire, FailLock, ghosts
    <3>2. pc[r] \in Guessing <=> pc'[r] \in Guessing
      BY <2>5 DEF FailExpire, FailLock, Finish, Goto, At, Guessing, TypeOK
    <3>3. Cardinality(Uncounted') = Cardinality(Uncounted)
      BY <1>3, <3>2, UncountedStep
    <3>. QED  BY <3>1, <3>3 DEF GuessesOK, Counting
  <2>6. CASE FailReset(r) \/ ClearCount(r) \/ ClearLock(r)
    <3>1. wrong' = 0 /\ errors' = errors /\ count'["fail"] \in {0, count["fail"]}
      BY <2>6 DEF FailReset, ClearCount, ClearLock, Delete, TypeOK, Counters
    <3>2. Counting' \in Nat
      BY <1>0, <3>1 DEF Counting
    <3>. QED  BY <1>0, <2>0, <3>1, <3>2 DEF GuessesOK, Counting
  <2>. QED
    BY <1>3, <2>1, <2>2, <2>3, <2>4, <2>5, <2>6 DEF Step
<1>. QED
  BY <1>1, <1>2, <1>3 DEF Next

(* GuessesBounded (ensure_not_locked, record_failure, clear_failures): an account *)
(* takes no more wrong guesses than the limit, one for each other request and one *)
(* for each Redis call that failed or request that was cut short.                 *)
THEOREM LockoutBoundsGuesses ==
  Spec => []GuessesBounded
<1>1. Init => GuessesOK
  <2>. SUFFICES ASSUME Init PROVE GuessesOK
    OBVIOUS
  <2>1. Uncounted = {}
    BY DEF Init, Uncounted, Guessing
  <2>2. Cardinality(Uncounted) = 0
    BY <2>1, FS_EmptySet
  <2>. QED  BY <2>2 DEF Init, GuessesOK, Counting, Counters
<1>2. TypeOK /\ GuessesOK => GuessesBounded
  <2>. SUFFICES ASSUME TypeOK, GuessesOK PROVE GuessesBounded
    OBVIOUS
  <2>1. /\ Cardinality(Uncounted) \in Nat /\ Cardinality(Requests) \in Nat
        /\ Cardinality(Uncounted) <= Cardinality(Requests)
    BY FS_Subset, FS_CardinalityType DEF Uncounted
  <2>2. /\ wrong \in Nat /\ errors \in Nat /\ count["fail"] \in Nat
        /\ Counting <= MaxFailures - 1 /\ Counting \in Int
    BY DEF TypeOK, Counters, Counting
  <2>. QED  BY <2>1, <2>2 DEF GuessesOK, GuessesBounded
<1>. QED
  BY <1>1, <1>2, GuessesStep, LimiterTypes, PTL DEF Spec
==============================================================================
