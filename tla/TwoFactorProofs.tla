---------------------------- MODULE TwoFactorProofs ----------------------------
(* What holds of TwoFactor for any number of requests, secrets and recovery      *)
(* codes, any window and any workload.                                           *)
EXTENDS TwoFactor, TLAPS

Past == [accepted : SUBSET OTP, unused : SUBSET Codes, spent : SUBSET Codes,
         gated : Secrets \cup {None}]
Typed == TypeOK /\ before \in [Requests -> Past]

(* Which operation is at which step, and what it has in hand there.              *)
OpAt(r) ==
  /\ At(r, "gate") => Op(r) = "login"
  /\ pc[r] \in {"list", "use"} => Op(r) = "login_code"
  /\ pc[r] \in {"record", "write"} => Op(r) \in OtpOps \cup {"setup", "confirm"}
  /\ pc[r] \in {"otp", "mark"} => Op(r) \in OtpOps
  /\ pc[r] \in {"count", "insert"} => Op(r) \in {"generate", "regenerate"}
  /\ pc[r] \in {"scan", "sweep"} => Op(r) \in {"regenerate", "disable"}
  /\ pc[r] \in {"reread", "delete"} => Op(r) = "disable"
InHand(r) ==
  /\ At(r, "idle") => txn[r] = NoTxn
  /\ At(r, "mark") => req[r].otp \in OTP
  /\ At(r, "write") /\ Op(r) = "confirm" => req[r].record # NoRow
  /\ txn[r].write = "delete" => Op(r) = "disable"
Control(r) == OpAt(r) /\ InHand(r)

(* What a transaction has written to the row fits the row that is there, and a   *)
(* row's id has been minted for it.                                              *)
RowWrite(r) ==
  /\ txn[r].write = "insert" => row = NoRow /\ txn[r].secret \in minted
  /\ txn[r].write = "secret" => row # NoRow /\ txn[r].secret \in Secrets
  /\ txn[r].write = "enable" => row # NoRow
RowOK == row # NoRow => row.id \in minted

(* New codes are nobody else's, and what is used, deleted or in hand is not new. *)
CodeWrite(r) ==
  /\ txn[r].added \subseteq With("fresh")
  /\ With("fresh") \cap (txn[r].spent \cup txn[r].gone \cup req[r].codes) = {}
Added(r, q) == r # q => txn[r].added \cap txn[q].added = {}

Base ==
  /\ Typed /\ RowOK
  /\ \A r \in Requests : Control(r) /\ RowWrite(r) /\ CodeWrite(r)
  /\ \A r, q \in Requests : Added(r, q)

(* The key of an OTP that has been let pass lives as long as the OTP is valid.   *)
KeyCovers(o) == used[o] >= o.step + ValidWindow - now + 1
Otps(r) ==
  /\ \A o \in before[r].accepted : KeyCovers(o)
  /\ At(r, "mark") => /\ req[r].otp.step - now <= ValidWindow
                      /\ req[r].otp \notin before[r].accepted
OtpsOK == (\A o \in accepted : KeyCovers(o)) /\ \A r \in Requests : Otps(r)

(* Codes that were used up when a login came are still used up or deleted, and   *)
(* it has none of them in hand.                                                  *)
Over == With("used") \cup With("deleted")
Spent(r) ==
  /\ before[r].spent \subseteq Over
  /\ pc[r] \in {"use", "commit"} /\ Op(r) = "login_code" => req[r].codes \cap before[r].spent = {}

(* What was usable when a regeneration or a disable came is in its DELETE, or    *)
(* over.                                                                         *)
Cleared(r) ==
  /\ before[r].unused \cap With("fresh") = {}
  /\ At(r, "sweep") => before[r].unused \subseteq req[r].codes \cup Over
  /\ pc[r] \in {"insert", "commit"} /\ Op(r) \in {"regenerate", "disable"} =>
       before[r].unused \subseteq txn[r].gone \cup Over
CodesOK == \A r \in Requests : Spent(r) /\ Cleared(r)

(* The row that was enabled when a login came stays enabled, or is gone for      *)
(* good: no setup that is under way brings its id back.                          *)
Inserts(r, i) == txn[r].write = "insert" /\ txn[r].secret = i
Kept(i) == /\ i \in minted
           /\ row.id = i => row.enabled
           /\ \A q \in Requests : ~Inserts(q, i)
Gated(r) == before[r].gated # None =>
  /\ Kept(before[r].gated)
  /\ At(r, "commit") /\ Op(r) = "login" => row.id # before[r].gated
GateOK == \A r \in Requests : Gated(r)

-------------------------------------------------------------------------------
(* A request that ends holds nothing.                                           *)
LEMMA FinishLocal ==
  ASSUME Base, NEW r \in Requests, Finish(r)
  PROVE  pc'[r] = "idle" /\ req'[r] = NoReq /\ txn'[r] = NoTxn /\ before'[r] = NoPast
  BY DEF Finish, Base, Typed, TypeOK

LEMMA FinishType ==
  ASSUME Base, NEW r \in Requests, Finish(r)
  PROVE  /\ pc' \in [Requests -> Steps] /\ req' \in [Requests -> Request]
         /\ txn' \in [Requests -> Transaction] /\ before' \in [Requests -> Past]
<1>1. NoReq \in Request /\ NoTxn \in Transaction /\ NoPast \in Past
  BY DEF NoReq, Request, Row, NoTxn, Transaction, NoPast, Past
<1>. QED
  BY <1>1 DEF Finish, Base, Typed, TypeOK, Steps

(* Write changes the write and the secret of a transaction, and no other of     *)
(* its fields.                                                                  *)
LEMMA WriteLocal ==
  ASSUME Base, NEW r \in Requests, NEW kind, NEW s, Write(r, kind, s)
  PROVE  /\ pc'[r] = "commit" /\ txn'[r].write = kind /\ txn'[r].secret = s
         /\ txn'[r].added = txn[r].added /\ txn'[r].spent = txn[r].spent
         /\ txn'[r].gone = txn[r].gone
  BY DEF Base, Typed, TypeOK, Transaction, Write, Goto

(* A request's step leaves the other requests' control, data and transactions   *)
(* alone.                                                                       *)
LEMMA Frame ==
  ASSUME Base, NEW r \in Requests, NEW q \in Requests \ {r}, Step(r)
  PROVE  pc'[q] = pc[q] /\ req'[q] = req[q] /\ txn'[q] = txn[q] /\ before'[q] = before[q]
<1>1. CASE (\E o \in Ops : Begin(r, o)) \/ Gate(r) \/ LoadRecord(r)
           \/ (\E o \in OTP : CheckOtp(r, o)) \/ MarkUsed(r) \/ CountUnused(r)
  BY <1>1
  DEF Begin, Gate, LoadRecord, CheckOtp, MarkUsed, CountUnused, Base, Typed, TypeOK, Goto,
      Write, Reject, Finish
<1>2. CASE Enable(r) \/ (\E s \in Secrets : SetupInsert(r, s))
           \/ (\E s \in Secrets : SetupOverwrite(r, s))
  BY <1>2
  DEF Enable, SetupInsert, SetupOverwrite, Base, Typed, TypeOK, Goto, Write, Reject, Finish
<1>3. CASE DeleteScan(r) \/ DeleteRows(r) \/ (\E new \in SUBSET Codes : InsertCodes(r, new))
  BY <1>3
  DEF DeleteScan, DeleteRows, InsertCodes, Base, Typed, TypeOK, Goto, Write, Reject, Finish
<1>4. CASE (\E c \in Codes : ListUnused(r, c)) \/ UseCode(r) \/ Reread(r) \/ DeleteRow(r)
  BY <1>4
  DEF ListUnused, UseCode, Reread, DeleteRow, Base, Typed, TypeOK, Goto, Write, Reject,
      Finish
<1>5. CASE Commit(r) \/ Abort(r)
  BY <1>5 DEF Commit, Abort, Base, Typed, TypeOK, Goto, Write, Reject, Finish
<1>. QED
  BY <1>1, <1>2, <1>3, <1>4, <1>5 DEF Step

(* The types of what each request holds.                                        *)
LEMMA PcType ==
  ASSUME Base, NEW r \in Requests, Step(r)
  PROVE  pc' \in [Requests -> Steps]
<1>1. CASE (\E o \in Ops : Begin(r, o)) \/ Gate(r) \/ LoadRecord(r)
           \/ (\E o \in OTP : CheckOtp(r, o)) \/ MarkUsed(r) \/ CountUnused(r)
  BY <1>1, FinishType
  DEF Begin, Gate, LoadRecord, CheckOtp, MarkUsed, CountUnused, Base, Typed, TypeOK, Goto,
      Write, Reject, Entry, AfterOtp, Steps
<1>2. CASE Enable(r) \/ (\E s \in Secrets : SetupInsert(r, s))
           \/ (\E s \in Secrets : SetupOverwrite(r, s))
  BY <1>2, FinishType
  DEF Enable, SetupInsert, SetupOverwrite, Base, Typed, TypeOK, Goto, Write, Reject, Entry,
      AfterOtp, Steps
<1>3. CASE DeleteScan(r) \/ DeleteRows(r) \/ (\E new \in SUBSET Codes : InsertCodes(r, new))
  BY <1>3, FinishType
  DEF DeleteScan, DeleteRows, InsertCodes, Base, Typed, TypeOK, Goto, Write, Reject, Entry,
      AfterOtp, Steps
<1>4. CASE (\E c \in Codes : ListUnused(r, c)) \/ UseCode(r) \/ Reread(r) \/ DeleteRow(r)
  BY <1>4, FinishType
  DEF ListUnused, UseCode, Reread, DeleteRow, Base, Typed, TypeOK, Goto, Write, Reject,
      Entry, AfterOtp, Steps
<1>5. CASE Commit(r) \/ Abort(r)
  BY <1>5, FinishType
  DEF Commit, Abort, Base, Typed, TypeOK, Goto, Write, Reject, Entry, AfterOtp, Steps
<1>. QED
  BY <1>1, <1>2, <1>3, <1>4, <1>5 DEF Step

LEMMA ReqType ==
  ASSUME Base, NEW r \in Requests, Step(r)
  PROVE  req' \in [Requests -> Request]
<1>1. CASE (\E o \in Ops : Begin(r, o)) \/ Gate(r) \/ LoadRecord(r)
           \/ (\E o \in OTP : CheckOtp(r, o)) \/ MarkUsed(r) \/ CountUnused(r)
  BY <1>1, FinishType
  DEF Begin, Gate, LoadRecord, CheckOtp, MarkUsed, CountUnused, Base, Typed, TypeOK, Write,
      Reject, Request, With
<1>2. CASE Enable(r) \/ (\E s \in Secrets : SetupInsert(r, s))
           \/ (\E s \in Secrets : SetupOverwrite(r, s))
  BY <1>2, FinishType
  DEF Enable, SetupInsert, SetupOverwrite, Base, Typed, TypeOK, Write, Reject, Request, With
<1>3. CASE DeleteScan(r)
  BY <1>3, FinishType DEF DeleteScan, Base, Typed, TypeOK, Write, Reject, Request, With
<1>4. CASE DeleteRows(r)
  BY <1>4, FinishType DEF DeleteRows, Base, Typed, TypeOK, Write, Reject, Request, With
<1>5. ASSUME NEW new \in SUBSET Codes, InsertCodes(r, new)
      PROVE  req' \in [Requests -> Request]
  BY <1>5, FinishType DEF InsertCodes, Base, Typed, TypeOK, Write, Reject, Request, With
<1>6. ASSUME NEW c \in Codes, ListUnused(r, c) PROVE req' \in [Requests -> Request]
  BY <1>6, FinishType DEF ListUnused, Base, Typed, TypeOK, Write, Reject, Request, With
<1>7. CASE UseCode(r)
  BY <1>7, FinishType DEF UseCode, Base, Typed, TypeOK, Write, Reject, Request, With
<1>8. CASE Reread(r)
  BY <1>8, FinishType DEF Reread, Base, Typed, TypeOK, Write, Reject, Request, With
<1>9. CASE DeleteRow(r)
  BY <1>9, FinishType DEF DeleteRow, Base, Typed, TypeOK, Write, Reject, Request, With
<1>10. CASE Commit(r) \/ Abort(r)
  BY <1>10, FinishType DEF Commit, Abort, Base, Typed, TypeOK, Write, Reject, Request, With
<1>. QED
  BY <1>1, <1>2, <1>3, <1>4, <1>5, <1>6, <1>7, <1>8, <1>9, <1>10 DEF Step

LEMMA TxnUpdate ==
  ASSUME NEW t \in Transaction, NEW s \in Secrets \cup {None}, NEW cs \in SUBSET Codes,
         NEW w \in {"none", "insert", "secret", "enable", "delete"}
  PROVE  /\ [t EXCEPT !.write = w, !.secret = s] \in Transaction
         /\ [t EXCEPT !.write = w] \in Transaction
         /\ [t EXCEPT !.added = cs] \in Transaction
         /\ [t EXCEPT !.spent = cs] \in Transaction
         /\ [t EXCEPT !.gone = cs] \in Transaction
  BY DEF Transaction

LEMMA TxnType ==
  ASSUME Base, NEW r \in Requests, Step(r)
  PROVE  txn' \in [Requests -> Transaction]
<1>1. CASE (\E o \in Ops : Begin(r, o)) \/ Gate(r) \/ LoadRecord(r)
           \/ (\E o \in OTP : CheckOtp(r, o)) \/ MarkUsed(r) \/ CountUnused(r)
  BY <1>1, FinishType
  DEF Begin, Gate, LoadRecord, CheckOtp, MarkUsed, CountUnused, Base, Typed, TypeOK, Write,
      Reject
<1>2. CASE Enable(r)
  <2>1. txn[r] \in Transaction /\ txn \in [Requests -> Transaction]
    BY DEF Base, Typed, TypeOK
  <2>2. [txn[r] EXCEPT !.write = "enable", !.secret = None] \in Transaction
    BY <2>1, TxnUpdate
  <2>. QED
    BY <1>2, <2>1, <2>2, FinishType DEF Enable, Write, Reject
<1>3. ASSUME NEW s \in Secrets, SetupInsert(r, s) PROVE txn' \in [Requests -> Transaction]
  <2>1. txn[r] \in Transaction /\ txn \in [Requests -> Transaction]
    BY DEF Base, Typed, TypeOK
  <2>2. [txn[r] EXCEPT !.write = "insert", !.secret = s] \in Transaction
    BY <2>1, TxnUpdate
  <2>. QED
    BY <1>3, <2>1, <2>2, FinishType DEF SetupInsert, Write, Reject
<1>4. ASSUME NEW s \in Secrets, SetupOverwrite(r, s)
      PROVE  txn' \in [Requests -> Transaction]
  <2>1. txn[r] \in Transaction /\ txn \in [Requests -> Transaction]
    BY DEF Base, Typed, TypeOK
  <2>2. [txn[r] EXCEPT !.write = "secret", !.secret = s] \in Transaction
    BY <2>1, TxnUpdate
  <2>. QED
    BY <1>4, <2>1, <2>2, FinishType DEF SetupOverwrite, Write, Reject
<1>5. CASE DeleteScan(r)
  BY <1>5, FinishType DEF DeleteScan, Base, Typed, TypeOK, Write, Reject
<1>6. CASE DeleteRows(r)
  <2>1. txn[r] \in Transaction /\ txn \in [Requests -> Transaction]
    BY DEF Base, Typed, TypeOK
  <2>3. req[r].codes \in SUBSET Codes
    BY DEF Base, Typed, TypeOK, Request
  <2>2. [txn[r] EXCEPT !.gone = req[r].codes \ With("deleted")] \in Transaction
    BY <2>1, <2>3, TxnUpdate
  <2>. QED
    BY <1>6, <2>1, <2>2, FinishType DEF DeleteRows
<1>7. ASSUME NEW new \in SUBSET Codes, InsertCodes(r, new)
      PROVE  txn' \in [Requests -> Transaction]
  <2>1. txn[r] \in Transaction /\ txn \in [Requests -> Transaction]
    BY DEF Base, Typed, TypeOK
  <2>2. [txn[r] EXCEPT !.added = new] \in Transaction
    BY <2>1, TxnUpdate
  <2>. QED
    BY <1>7, <2>1, <2>2, FinishType DEF InsertCodes
<1>8. CASE (\E c \in Codes : ListUnused(r, c)) \/ Reread(r)
  BY <1>8, FinishType DEF ListUnused, Reread, Base, Typed, TypeOK, Write, Reject
<1>9. CASE UseCode(r)
  <2>1. txn[r] \in Transaction /\ txn \in [Requests -> Transaction]
    BY DEF Base, Typed, TypeOK
  <2>3. req[r].codes \in SUBSET Codes
    BY DEF Base, Typed, TypeOK, Request
  <2>2. [txn[r] EXCEPT !.spent = req[r].codes] \in Transaction
    BY <2>1, <2>3, TxnUpdate
  <2>. QED
    BY <1>9, <2>1, <2>2, FinishType DEF UseCode, Reject
<1>10. CASE DeleteRow(r)
  <2>1. txn[r] \in Transaction /\ txn \in [Requests -> Transaction]
    BY DEF Base, Typed, TypeOK
  <2>2. [txn[r] EXCEPT !.write = IF row.id = req[r].record.id THEN "delete" ELSE "none"]
          \in Transaction
    BY <2>1, TxnUpdate
  <2>. QED
    BY <1>10, <2>1, <2>2, FinishType DEF DeleteRow
<1>11. CASE Commit(r) \/ Abort(r)
  BY <1>11, FinishType DEF Commit, Abort, Base, Typed, TypeOK, Write, Reject
<1>. QED
  BY <1>1, <1>2, <1>3, <1>4, <1>5, <1>6, <1>7, <1>8, <1>9, <1>10, <1>11 DEF Step

LEMMA PastType ==
  ASSUME Base, NEW r \in Requests, Step(r)
  PROVE  before' \in [Requests -> Past]
<1>1. CASE (\E o \in Ops : Begin(r, o)) \/ Gate(r) \/ LoadRecord(r)
           \/ (\E o \in OTP : CheckOtp(r, o)) \/ MarkUsed(r) \/ CountUnused(r)
  BY <1>1, FinishType, NoneAssumption
  DEF Begin, Gate, LoadRecord, CheckOtp, MarkUsed, CountUnused, Base, Typed, TypeOK, Write,
      Reject, Past, Row, NoRow, With
<1>2. CASE Enable(r) \/ (\E s \in Secrets : SetupInsert(r, s))
           \/ (\E s \in Secrets : SetupOverwrite(r, s))
  BY <1>2, FinishType, NoneAssumption
  DEF Enable, SetupInsert, SetupOverwrite, Base, Typed, TypeOK, Write, Reject, Past, Row,
      NoRow, With
<1>3. CASE DeleteScan(r) \/ DeleteRows(r) \/ (\E new \in SUBSET Codes : InsertCodes(r, new))
  BY <1>3, FinishType, NoneAssumption
  DEF DeleteScan, DeleteRows, InsertCodes, Base, Typed, TypeOK, Write, Reject, Past, Row,
      NoRow, With
<1>4. CASE (\E c \in Codes : ListUnused(r, c)) \/ UseCode(r) \/ Reread(r) \/ DeleteRow(r)
  BY <1>4, FinishType, NoneAssumption
  DEF ListUnused, UseCode, Reread, DeleteRow, Base, Typed, TypeOK, Write, Reject, Past, Row,
      NoRow, With
<1>5. CASE Commit(r) \/ Abort(r)
  BY <1>5, FinishType, NoneAssumption
  DEF Commit, Abort, Base, Typed, TypeOK, Write, Reject, Past, Row, NoRow, With
<1>. QED
  BY <1>1, <1>2, <1>3, <1>4, <1>5 DEF Step

(* The types of the rows, the keys and the rest.                                *)
LEMMA RowType ==
  ASSUME Base, NEW r \in Requests, Step(r)
  PROVE  row' \in Row
<1>1. CASE (\E o \in Ops : Begin(r, o)) \/ Gate(r) \/ LoadRecord(r)
           \/ (\E o \in OTP : CheckOtp(r, o)) \/ MarkUsed(r) \/ CountUnused(r)
  BY <1>1
  DEF Begin, Gate, LoadRecord, CheckOtp, MarkUsed, CountUnused, Base, Typed, TypeOK, Write,
      Reject, rows, RowWrite
<1>2. CASE Enable(r) \/ (\E s \in Secrets : SetupInsert(r, s))
           \/ (\E s \in Secrets : SetupOverwrite(r, s))
  BY <1>2
  DEF Enable, SetupInsert, SetupOverwrite, Base, Typed, TypeOK, Write, Reject, rows,
      RowWrite
<1>3. CASE DeleteScan(r) \/ DeleteRows(r) \/ (\E new \in SUBSET Codes : InsertCodes(r, new))
  BY <1>3
  DEF DeleteScan, DeleteRows, InsertCodes, Base, Typed, TypeOK, Write, Reject, rows,
      RowWrite
<1>4. CASE (\E c \in Codes : ListUnused(r, c)) \/ UseCode(r) \/ Reread(r) \/ DeleteRow(r)
  BY <1>4
  DEF ListUnused, UseCode, Reread, DeleteRow, Base, Typed, TypeOK, Write, Reject, rows,
      RowWrite
<1>5. CASE Abort(r)
  BY <1>5 DEF Abort, Base, Typed, TypeOK, Write, Reject, rows, RowWrite
<1>6. CASE Commit(r)
  <2>1. row \in Row /\ txn[r] \in Transaction /\ RowWrite(r)
    BY DEF Base, Typed, TypeOK
  <2>. QED
    BY <1>6, <2>1 DEF Commit, Written, RowWrite, Row, NoRow, Transaction
<1>. QED
  BY <1>1, <1>2, <1>3, <1>4, <1>5, <1>6 DEF Step

LEMMA OtherTypes ==
  ASSUME Base, NEW r \in Requests, Step(r)
  PROVE  /\ codes' \in [Codes -> CodeStatus] /\ minted' \subseteq Secrets
         /\ used' \in [OTP -> 0..KeyLife] /\ now' = now
         /\ proven' \subseteq Secrets /\ accepted' \subseteq OTP
<1>. DEFINE G == /\ codes' \in [Codes -> CodeStatus] /\ minted' \subseteq Secrets
                /\ used' \in [OTP -> 0..KeyLife] /\ now' = now
                /\ proven' \subseteq Secrets /\ accepted' \subseteq OTP
<1>1. CASE (\E o \in Ops : Begin(r, o)) \/ Gate(r) \/ LoadRecord(r)
           \/ (\E o \in OTP : CheckOtp(r, o)) \/ CountUnused(r)
  BY <1>1
  DEF Begin, Gate, LoadRecord, CheckOtp, CountUnused, Base, Typed, TypeOK, Write, Reject,
      rows, ghosts
<1>2. CASE MarkUsed(r)
  <2>1. At(r, "mark") /\ Control(r)
    BY <1>2 DEF MarkUsed, Base
  <2>2. req[r].otp \in OTP /\ KeyLife \in 0..KeyLife
    BY <2>1, WindowAssumption DEF Control, InHand, KeyLife
  <2>. QED
    BY <1>2, <2>2 DEF MarkUsed, rows, Base, Typed, TypeOK
<1>3. CASE (\E s \in Secrets : SetupInsert(r, s))
           \/ (\E s \in Secrets : SetupOverwrite(r, s))
  BY <1>3 DEF SetupInsert, SetupOverwrite, Base, Typed, TypeOK, Write, Reject, rows, ghosts
<1>4. CASE Enable(r)
  <2>1. At(r, "write") /\ Op(r) = "confirm" /\ Control(r) /\ req[r] \in Request
    BY <1>4 DEF Enable, Base, Typed, TypeOK
  <2>2. Op(r) = "confirm" /\ At(r, "write") => req[r].record.secret \in Secrets
    BY <2>1, NoneAssumption DEF Control, InHand, Request, Row
  <2>. QED
    BY <1>4, <2>1, <2>2 DEF Enable, Write, Reject, rows, ghosts, Base, Typed, TypeOK
<1>5. CASE DeleteScan(r) \/ DeleteRows(r) \/ (\E new \in SUBSET Codes : InsertCodes(r, new))
  BY <1>5
  DEF DeleteScan, DeleteRows, InsertCodes, Base, Typed, TypeOK, Write, Reject, rows, ghosts
<1>6. CASE (\E c \in Codes : ListUnused(r, c)) \/ UseCode(r) \/ Reread(r) \/ DeleteRow(r)
  BY <1>6
  DEF ListUnused, UseCode, Reread, DeleteRow, Base, Typed, TypeOK, Write, Reject, rows,
      ghosts
<1>7. CASE Abort(r)
  BY <1>7 DEF Abort, Base, Typed, TypeOK, Write, Reject, rows, ghosts
<1>8. CASE Commit(r)
  BY <1>8 DEF Commit, ghosts, Base, Typed, TypeOK, CodeStatus
<1>. QED
  BY <1>1, <1>2, <1>3, <1>4, <1>5, <1>6, <1>7, <1>8 DEF Step

-------------------------------------------------------------------------------
(* Row locks: a step takes a row that no other transaction holds, or none.      *)
LEMMA FinishHolder ==
  ASSUME Base, NEW r \in Requests, NEW q \in Requests \ {r}, Finish(r)
  PROVE  OneHolder(r, q)' /\ OneHolder(q, r)'
  BY DEF Base, Typed, TypeOK, Finish, NoTxn, OneHolder

LEMMA WriteHolder ==
  ASSUME Base, NEW r \in Requests, NEW q \in Requests \ {r}, RowFree(r), 
         NEW kind \in {"insert", "secret", "enable"}, NEW s \in Secrets \cup {None}, Write(r, kind, s)
  PROVE  OneHolder(r, q)' /\ OneHolder(q, r)'
<1>1. /\ txn'[q] = txn[q] /\ txn'[r].spent = txn[r].spent /\ txn'[r].gone = txn[r].gone
      /\ OneHolder(r, q) /\ OneHolder(q, r)
  BY DEF Base, Typed, TypeOK, Write, Transaction
<1>. QED
  BY <1>1 DEF RowFree, OneHolder

LEMMA HolderStep ==
  ASSUME Base, NEW r \in Requests, NEW q \in Requests \ {r}, Step(r)
  PROVE  OneHolder(r, q)' /\ OneHolder(q, r)'
<1>f. txn'[q] = txn[q] /\ OneHolder(r, q) /\ OneHolder(q, r)
  BY Frame DEF Base, Typed, TypeOK
<1>1. CASE (\E o \in Ops : Begin(r, o)) \/ Gate(r) \/ LoadRecord(r)
           \/ (\E o \in OTP : CheckOtp(r, o)) \/ MarkUsed(r) \/ CountUnused(r)
  BY <1>1, <1>f
  DEF Begin, Gate, LoadRecord, CheckOtp, MarkUsed, CountUnused, Base, Typed, TypeOK, Write,
      Reject, Finish, NoTxn, OneHolder, RowFree, CodesFree
<1>2. CASE Enable(r)
  BY <1>f, <1>2, FinishHolder, WriteHolder DEF Enable, Reject
<1>3. ASSUME NEW s \in Secrets, SetupInsert(r, s) PROVE OneHolder(r, q)' /\ OneHolder(q, r)'
  BY <1>f, <1>3, FinishHolder, WriteHolder DEF SetupInsert, Reject
<1>4. ASSUME NEW s \in Secrets, SetupOverwrite(r, s)
      PROVE  OneHolder(r, q)' /\ OneHolder(q, r)'
  BY <1>f, <1>4, FinishHolder, WriteHolder DEF SetupOverwrite, Reject
<1>5. CASE DeleteScan(r)
  BY <1>5, <1>f
  DEF DeleteScan, Base, Typed, TypeOK, Write, Reject, Finish, NoTxn, OneHolder, RowFree,
      CodesFree
<1>6. CASE DeleteRows(r)
  BY <1>6, <1>f
  DEF DeleteRows, Base, Typed, TypeOK, Write, Reject, Finish, NoTxn, OneHolder, RowFree,
      CodesFree
<1>7. ASSUME NEW new \in SUBSET Codes, InsertCodes(r, new)
      PROVE  OneHolder(r, q)' /\ OneHolder(q, r)'
  BY <1>7, <1>f
  DEF InsertCodes, Base, Typed, TypeOK, Write, Reject, Finish, NoTxn, OneHolder, RowFree,
      CodesFree
<1>8. ASSUME NEW c \in Codes, ListUnused(r, c) PROVE OneHolder(r, q)' /\ OneHolder(q, r)'
  BY <1>8, <1>f
  DEF ListUnused, Base, Typed, TypeOK, Write, Reject, Finish, NoTxn, OneHolder, RowFree,
      CodesFree
<1>9. CASE UseCode(r)
  <2>1. CASE Finish(r)
    BY <2>1, FinishHolder
  <2>2. ASSUME CodesFree(r, req[r].codes), txn' = [txn EXCEPT ![r].spent = req[r].codes]
        PROVE  OneHolder(r, q)' /\ OneHolder(q, r)'
    BY <2>2, <1>f DEF Base, Typed, TypeOK, OneHolder, CodesFree
  <2>. QED
    BY <1>9, <2>1, <2>2 DEF UseCode, Reject
<1>10. CASE Reread(r)
  BY <1>10, <1>f
  DEF Reread, Base, Typed, TypeOK, Write, Reject, Finish, NoTxn, OneHolder, RowFree,
      CodesFree
<1>11. CASE DeleteRow(r)
  BY <1>11, <1>f
  DEF DeleteRow, Base, Typed, TypeOK, Write, Reject, Finish, NoTxn, OneHolder, RowFree,
      CodesFree
<1>12. CASE Commit(r) \/ Abort(r)
  BY <1>12, <1>f
  DEF Commit, Abort, Base, Typed, TypeOK, Write, Reject, Finish, NoTxn, OneHolder, RowFree,
      CodesFree
<1>. QED
  BY <1>1, <1>2, <1>3, <1>4, <1>5, <1>6, <1>7, <1>8, <1>9, <1>10, <1>11, <1>12 DEF Step

-------------------------------------------------------------------------------
(* A request that ends, or writes, is consistent with its step.                 *)
LEMMA FinishControl ==
  ASSUME Base, NEW r \in Requests, Finish(r)
  PROVE  Control(r)' /\ RowWrite(r)' /\ CodeWrite(r)'
<1>1. Control(r)'
  BY FinishLocal DEF Control, OpAt, InHand, NoTxn, NoReq, At, Op
<1>2. RowWrite(r)'
  BY FinishLocal DEF RowWrite, NoTxn
<1>3. CodeWrite(r)'
  BY FinishLocal DEF CodeWrite, NoTxn, NoReq
<1>. QED
  BY <1>1, <1>2, <1>3

(* Which operation comes to which step, and with what.                          *)
LEMMA OpAtStep ==
  ASSUME Base, NEW r \in Requests, Step(r)
  PROVE  OpAt(r)'
<1>0. /\ pc[r] \in Steps /\ req[r] \in Request /\ req \in [Requests -> Request]
      /\ pc \in [Requests -> Steps] /\ txn \in [Requests -> Transaction] /\ OpAt(r)
  BY DEF Base, Typed, TypeOK, Control
<1>1. CASE Gate(r) \/ (\E o \in OTP : CheckOtp(r, o)) \/ MarkUsed(r) \/ CountUnused(r)
  BY <1>1, <1>0, FinishControl
  DEF Gate, CheckOtp, MarkUsed, CountUnused, At, Op, Goto, Write, Reject, Control, OpAt,
      OtpOps, AfterOtp, Wants, Request, Transaction
<1>2. ASSUME NEW o \in Ops, Begin(r, o) PROVE OpAt(r)'
  <2>1. pc'[r] = Entry(o) /\ req'[r].op = o
    BY <1>2, <1>0 DEF Begin, Goto, Request
  <2>2. /\ pc'[r] \in {"gate", "list", "record"}
        /\ (pc'[r] = "gate" => o = "login") /\ (pc'[r] = "list" => o = "login_code")
        /\ (pc'[r] = "record" => o \in OtpOps \cup {"setup", "confirm"})
    BY <2>1 DEF Entry, Ops
  <2>. QED
    BY <2>1, <2>2 DEF OpAt, At, Op
<1>3. CASE LoadRecord(r)
  <2>1. CASE Reject(r)
    BY <2>1, FinishControl DEF Reject, Control
  <2>2. CASE ~Reject(r)
    BY <1>3, <2>2, <1>0 DEF LoadRecord, Goto, Request, Op, OpAt, At, OtpOps
  <2>. QED
    BY <2>1, <2>2
<1>4. CASE Enable(r)
  BY <1>0, <1>4, FinishControl, WriteLocal DEF Enable, Reject, Control, OpAt, InHand, At, Op
<1>5. ASSUME NEW s \in Secrets, SetupInsert(r, s) PROVE OpAt(r)'
  BY <1>0, <1>5, FinishControl, WriteLocal
  DEF SetupInsert, Reject, Control, OpAt, InHand, At, Op
<1>6. ASSUME NEW s \in Secrets, SetupOverwrite(r, s) PROVE OpAt(r)'
  BY <1>0, <1>6, FinishControl, WriteLocal
  DEF SetupOverwrite, Reject, Control, OpAt, InHand, At, Op
<1>7. CASE DeleteScan(r) \/ DeleteRows(r) \/ (\E new \in SUBSET Codes : InsertCodes(r, new))
  BY <1>7, <1>0, FinishControl
  DEF DeleteScan, DeleteRows, InsertCodes, At, Op, Goto, Write, Reject, Control, OpAt,
      OtpOps, AfterOtp, Wants, Request, Transaction
<1>8. CASE (\E c \in Codes : ListUnused(r, c)) \/ UseCode(r) \/ Reread(r) \/ DeleteRow(r)
  BY <1>8, <1>0, FinishControl
  DEF ListUnused, UseCode, Reread, DeleteRow, At, Op, Goto, Write, Reject, Control, OpAt,
      OtpOps, AfterOtp, Wants, Request, Transaction
<1>9. CASE Commit(r) \/ Abort(r)
  BY <1>9, <1>0, FinishControl
  DEF Commit, Abort, At, Op, Goto, Write, Reject, Control, OpAt, OtpOps, AfterOtp, Wants,
      Request, Transaction
<1>. QED
  BY <1>1, <1>2, <1>3, <1>4, <1>5, <1>6, <1>7, <1>8, <1>9 DEF Step

LEMMA InHandStep ==
  ASSUME Base, NEW r \in Requests, Step(r)
  PROVE  InHand(r)'
<1>0. /\ pc[r] \in Steps /\ req[r] \in Request /\ req \in [Requests -> Request]
      /\ pc \in [Requests -> Steps] /\ txn \in [Requests -> Transaction] /\ InHand(r)
      /\ OpAt(r)
  BY DEF Base, Typed, TypeOK, Control
<1>1. CASE Gate(r) \/ (\E o \in OTP : CheckOtp(r, o)) \/ MarkUsed(r) \/ CountUnused(r)
  BY <1>1, <1>0, FinishControl
  DEF Gate, CheckOtp, MarkUsed, CountUnused, At, Op, Goto, Write, Reject, Control, OpAt,
      InHand, AfterOtp, Request, Transaction
<1>2. ASSUME NEW o \in Ops, Begin(r, o) PROVE InHand(r)'
  <2>1. pc'[r] = Entry(o) /\ txn'[r] = NoTxn
    BY <1>2, <1>0 DEF Begin, Goto, Request, InHand
  <2>2. pc'[r] \in {"gate", "list", "record"}
    BY <2>1 DEF Entry
  <2>. QED
    BY <2>1, <2>2 DEF InHand, At, NoTxn
<1>3. CASE LoadRecord(r)
  <2>1. CASE Reject(r)
    BY <2>1, FinishControl DEF Reject, Control
  <2>2. CASE ~Reject(r)
    <3>1. Wants(Op(r)) /\ txn' = txn /\ req' = [req EXCEPT ![r].record = row]
      BY <1>3, <2>2 DEF LoadRecord
    <3>2. /\ req'[r].record = row /\ req'[r].op = Op(r) /\ pc'[r] \in {"otp", "write"}
      BY <1>3, <2>2, <1>0, <3>1 DEF LoadRecord, Goto, Request, Op
    <3>3. Op(r) = "confirm" => row # NoRow
      BY <3>1 DEF Wants, OtpOps
    <3>. QED
      BY <3>1, <3>2, <3>3, <1>0 DEF InHand, At, Op
  <2>. QED
    BY <2>1, <2>2
<1>4. CASE Enable(r)
  BY <1>0, <1>4, FinishControl, WriteLocal DEF Enable, Reject, Control, OpAt, InHand, At, Op
<1>5. ASSUME NEW s \in Secrets, SetupInsert(r, s) PROVE InHand(r)'
  BY <1>0, <1>5, FinishControl, WriteLocal
  DEF SetupInsert, Reject, Control, OpAt, InHand, At, Op
<1>6. ASSUME NEW s \in Secrets, SetupOverwrite(r, s) PROVE InHand(r)'
  BY <1>0, <1>6, FinishControl, WriteLocal
  DEF SetupOverwrite, Reject, Control, OpAt, InHand, At, Op
<1>7. CASE DeleteScan(r) \/ DeleteRows(r) \/ (\E new \in SUBSET Codes : InsertCodes(r, new))
  BY <1>7, <1>0, FinishControl
  DEF DeleteScan, DeleteRows, InsertCodes, At, Op, Goto, Write, Reject, Control, OpAt,
      InHand, AfterOtp, Request, Transaction
<1>8. CASE (\E c \in Codes : ListUnused(r, c)) \/ UseCode(r) \/ Reread(r) \/ DeleteRow(r)
  BY <1>8, <1>0, FinishControl
  DEF ListUnused, UseCode, Reread, DeleteRow, At, Op, Goto, Write, Reject, Control, OpAt,
      InHand, AfterOtp, Request, Transaction
<1>9. CASE Commit(r) \/ Abort(r)
  BY <1>9, <1>0, FinishControl
  DEF Commit, Abort, At, Op, Goto, Write, Reject, Control, OpAt, InHand, AfterOtp, Request,
      Transaction
<1>. QED
  BY <1>1, <1>2, <1>3, <1>4, <1>5, <1>6, <1>7, <1>8, <1>9 DEF Step

-------------------------------------------------------------------------------
(* A row with the id of a row that was there is there.                          *)
LEMMA SameRow ==
  ASSUME NEW x \in Row, NEW y \in Row, x # NoRow, y.id = x.id
  PROVE  y # NoRow
  BY NoneAssumption DEF Row, NoRow

(* What transactions write fits the row: nobody else writes while one does.     *)
LEMMA RowWriteStep ==
  ASSUME Base, NEW r \in Requests, Step(r)
  PROVE  RowWrite(r)'
<1>0. /\ row \in Row /\ req[r] \in Request /\ req \in [Requests -> Request]
      /\ txn \in [Requests -> Transaction] /\ Control(r) /\ RowWrite(r)
  BY DEF Base, Typed, TypeOK
<1>1. CASE (\E o \in Ops : Begin(r, o)) \/ Gate(r) \/ LoadRecord(r)
           \/ (\E o \in OTP : CheckOtp(r, o)) \/ MarkUsed(r) \/ CountUnused(r)
  BY <1>1, <1>0, FinishControl
  DEF Begin, Gate, LoadRecord, CheckOtp, MarkUsed, CountUnused, At, Op, Goto, Write, Reject,
      RowWrite, rows, ghosts, Row, NoRow, Transaction
<1>2. CASE Enable(r)
  <2>1. CASE Finish(r)
    BY <2>1, FinishControl
  <2>2. CASE ~Finish(r)
    <3>1. /\ req[r].record # NoRow /\ req[r].record \in Row /\ row.id = req[r].record.id
          /\ row' = row
      BY <1>0, <1>2, <2>2 DEF Enable, Control, InHand, Request, Reject, rows
    <3>2. row # NoRow
      BY <3>1, <1>0, SameRow
    <3>. QED
      BY <1>2, <2>2, <3>1, <3>2, WriteLocal DEF Enable, Reject, RowWrite
  <2>. QED
    BY <2>1, <2>2
<1>3. ASSUME NEW s \in Secrets, SetupInsert(r, s) PROVE RowWrite(r)'
  BY <1>0, <1>3, FinishControl, WriteLocal
  DEF SetupInsert, Reject, Control, At, Op, Row, NoRow, RowWrite, rows
<1>4. ASSUME NEW s \in Secrets, SetupOverwrite(r, s) PROVE RowWrite(r)'
  <2>1. CASE Finish(r)
    BY <2>1, FinishControl
  <2>2. CASE ~Finish(r)
    <3>1. /\ req[r].record # NoRow /\ req[r].record \in Row /\ row.id = req[r].record.id
          /\ row' = row
      BY <1>0, <1>4, <2>2 DEF SetupOverwrite, Control, InHand, Request, Reject, rows
    <3>2. row # NoRow
      BY <3>1, <1>0, SameRow
    <3>. QED
      BY <1>4, <2>2, <3>1, <3>2, WriteLocal DEF SetupOverwrite, Reject, RowWrite
  <2>. QED
    BY <2>1, <2>2
<1>5. CASE DeleteScan(r) \/ DeleteRows(r) \/ (\E new \in SUBSET Codes : InsertCodes(r, new))
  BY <1>5, <1>0, FinishControl
  DEF DeleteScan, DeleteRows, InsertCodes, At, Op, Goto, Write, Reject, RowWrite, rows,
      ghosts, Row, NoRow, Transaction
<1>6. CASE (\E c \in Codes : ListUnused(r, c)) \/ UseCode(r) \/ Reread(r) \/ DeleteRow(r)
  BY <1>6, <1>0, FinishControl
  DEF ListUnused, UseCode, Reread, DeleteRow, At, Op, Goto, Write, Reject, RowWrite, rows,
      ghosts, Row, NoRow, Transaction
<1>7. CASE Commit(r) \/ Abort(r)
  BY <1>7, <1>0, FinishControl
  DEF Commit, Abort, At, Op, Goto, Write, Reject, RowWrite, rows, ghosts, Row, NoRow,
      Transaction
<1>. QED
  BY <1>1, <1>2, <1>3, <1>4, <1>5, <1>6, <1>7 DEF Step

LEMMA RowWriteOther ==
  ASSUME Base, NEW r \in Requests, NEW q \in Requests \ {r}, Step(r)
  PROVE  RowWrite(q)'
<1>0. txn'[q] = txn[q] /\ RowWrite(q)
  BY Frame DEF Base
<1>1. CASE (\E o \in Ops : Begin(r, o)) \/ Gate(r) \/ LoadRecord(r)
           \/ (\E o \in OTP : CheckOtp(r, o)) \/ MarkUsed(r) \/ CountUnused(r)
  BY <1>1, <1>0
  DEF Begin, Gate, LoadRecord, CheckOtp, MarkUsed, CountUnused, Reject, Finish, RowWrite,
      rows, ghosts
<1>2. CASE Enable(r) \/ (\E s \in Secrets : SetupInsert(r, s))
           \/ (\E s \in Secrets : SetupOverwrite(r, s))
  BY <1>2, <1>0
  DEF Enable, SetupInsert, SetupOverwrite, Reject, Finish, RowWrite, rows, ghosts
<1>3. CASE DeleteScan(r) \/ DeleteRows(r) \/ (\E new \in SUBSET Codes : InsertCodes(r, new))
  BY <1>3, <1>0
  DEF DeleteScan, DeleteRows, InsertCodes, Reject, Finish, RowWrite, rows, ghosts
<1>4. CASE (\E c \in Codes : ListUnused(r, c)) \/ UseCode(r) \/ Reread(r) \/ DeleteRow(r)
  BY <1>4, <1>0
  DEF ListUnused, UseCode, Reread, DeleteRow, Reject, Finish, RowWrite, rows, ghosts
<1>5. CASE Abort(r)
  BY <1>5, <1>0 DEF Abort, Reject, Finish, RowWrite, rows, ghosts
<1>6. CASE Commit(r)
  BY <1>6, <1>0 DEF Commit, Written, OneHolder, RowWrite, Base, Typed, TypeOK, Transaction
<1>. QED
  BY <1>1, <1>2, <1>3, <1>4, <1>5, <1>6 DEF Step

LEMMA RowOKStep ==
  ASSUME Base, NEW r \in Requests, Step(r)
  PROVE  RowOK'
<1>1. CASE (\E o \in Ops : Begin(r, o)) \/ Gate(r) \/ LoadRecord(r)
           \/ (\E o \in OTP : CheckOtp(r, o)) \/ MarkUsed(r) \/ CountUnused(r)
  BY <1>1
  DEF Begin, Gate, LoadRecord, CheckOtp, MarkUsed, CountUnused, Base, Reject, RowOK, rows,
      ghosts
<1>2. CASE Enable(r) \/ (\E s \in Secrets : SetupInsert(r, s))
           \/ (\E s \in Secrets : SetupOverwrite(r, s))
  BY <1>2 DEF Enable, SetupInsert, SetupOverwrite, Base, Reject, RowOK, rows, ghosts
<1>3. CASE DeleteScan(r) \/ DeleteRows(r) \/ (\E new \in SUBSET Codes : InsertCodes(r, new))
  BY <1>3 DEF DeleteScan, DeleteRows, InsertCodes, Base, Reject, RowOK, rows, ghosts
<1>4. CASE (\E c \in Codes : ListUnused(r, c)) \/ UseCode(r) \/ Reread(r) \/ DeleteRow(r)
  BY <1>4 DEF ListUnused, UseCode, Reread, DeleteRow, Base, Reject, RowOK, rows, ghosts
<1>5. CASE Abort(r)
  BY <1>5 DEF Abort, Base, Reject, RowOK, rows, ghosts
<1>6. CASE Commit(r)
  <2>1. RowOK /\ RowWrite(r) /\ row \in Row
    BY DEF Base, Typed, TypeOK
  <2>. QED
    BY <1>6, <2>1 DEF Commit, Written, RowOK, RowWrite, Row
<1>. QED
  BY <1>1, <1>2, <1>3, <1>4, <1>5, <1>6 DEF Step

(* New codes stay new until the transaction that adds them commits.             *)
LEMMA CodeWriteStep ==
  ASSUME Base, NEW r \in Requests, Step(r)
  PROVE  CodeWrite(r)'
<1>0. /\ codes \in [Codes -> CodeStatus] /\ req[r] \in Request
      /\ req \in [Requests -> Request] /\ txn \in [Requests -> Transaction] /\ CodeWrite(r)
  BY DEF Base, Typed, TypeOK
<1>1. CASE (\E o \in Ops : Begin(r, o)) \/ Gate(r) \/ LoadRecord(r)
           \/ (\E o \in OTP : CheckOtp(r, o)) \/ MarkUsed(r) \/ CountUnused(r)
  BY <1>1, <1>0, FinishControl
  DEF Begin, Gate, LoadRecord, CheckOtp, MarkUsed, CountUnused, At, Op, Goto, Write, Reject,
      CodeWrite, With, rows, ghosts, Request, Transaction
<1>2. CASE Enable(r)
  BY <1>0, <1>2, FinishControl, WriteLocal DEF Enable, Reject, CodeWrite, With, rows
<1>3. ASSUME NEW s \in Secrets, SetupInsert(r, s) PROVE CodeWrite(r)'
  BY <1>0, <1>3, FinishControl, WriteLocal DEF SetupInsert, Reject, CodeWrite, With, rows
<1>4. ASSUME NEW s \in Secrets, SetupOverwrite(r, s) PROVE CodeWrite(r)'
  BY <1>0, <1>4, FinishControl, WriteLocal DEF SetupOverwrite, Reject, CodeWrite, With, rows
<1>5. CASE DeleteScan(r)
  BY <1>5, <1>0, FinishControl
  DEF DeleteScan, At, Op, Goto, Write, Reject, CodeWrite, With, rows, ghosts, Request,
      Transaction
<1>6. CASE DeleteRows(r)
  BY <1>6, <1>0, FinishControl
  DEF DeleteRows, At, Op, Goto, Write, Reject, CodeWrite, With, rows, ghosts, Request,
      Transaction
<1>7. ASSUME NEW new \in SUBSET Codes, InsertCodes(r, new) PROVE CodeWrite(r)'
  BY <1>7, <1>0, FinishControl
  DEF InsertCodes, At, Op, Goto, Write, Reject, CodeWrite, With, rows, ghosts, Request,
      Transaction
<1>8. ASSUME NEW c \in Codes, ListUnused(r, c) PROVE CodeWrite(r)'
  BY <1>8, <1>0, FinishControl
  DEF ListUnused, At, Op, Goto, Write, Reject, CodeWrite, With, rows, ghosts, Request,
      Transaction
<1>9. CASE UseCode(r)
  BY <1>9, <1>0, FinishControl
  DEF UseCode, At, Op, Goto, Write, Reject, CodeWrite, With, rows, ghosts, Request,
      Transaction
<1>10. CASE Reread(r)
  BY <1>10, <1>0, FinishControl
  DEF Reread, At, Op, Goto, Write, Reject, CodeWrite, With, rows, ghosts, Request,
      Transaction
<1>11. CASE DeleteRow(r)
  BY <1>11, <1>0, FinishControl
  DEF DeleteRow, At, Op, Goto, Write, Reject, CodeWrite, With, rows, ghosts, Request,
      Transaction
<1>12. CASE Commit(r) \/ Abort(r)
  BY <1>12, <1>0, FinishControl
  DEF Commit, Abort, At, Op, Goto, Write, Reject, CodeWrite, With, rows, ghosts, Request,
      Transaction
<1>. QED
  BY <1>1, <1>2, <1>3, <1>4, <1>5, <1>6, <1>7, <1>8, <1>9, <1>10, <1>11, <1>12 DEF Step

LEMMA CodeWriteOther ==
  ASSUME Base, NEW r \in Requests, NEW q \in Requests \ {r}, Step(r)
  PROVE  CodeWrite(q)'
<1>0. txn'[q] = txn[q] /\ req'[q] = req[q] /\ CodeWrite(q)
  BY Frame DEF Base
<1>1. CASE (\E o \in Ops : Begin(r, o)) \/ Gate(r) \/ LoadRecord(r)
           \/ (\E o \in OTP : CheckOtp(r, o)) \/ MarkUsed(r) \/ CountUnused(r)
  BY <1>1, <1>0
  DEF Begin, Gate, LoadRecord, CheckOtp, MarkUsed, CountUnused, Reject, Finish, CodeWrite,
      With, rows, ghosts
<1>2. CASE Enable(r) \/ (\E s \in Secrets : SetupInsert(r, s))
           \/ (\E s \in Secrets : SetupOverwrite(r, s))
  BY <1>2, <1>0
  DEF Enable, SetupInsert, SetupOverwrite, Reject, Finish, CodeWrite, With, rows, ghosts
<1>3. CASE DeleteScan(r) \/ DeleteRows(r) \/ (\E new \in SUBSET Codes : InsertCodes(r, new))
  BY <1>3, <1>0
  DEF DeleteScan, DeleteRows, InsertCodes, Reject, Finish, CodeWrite, With, rows, ghosts
<1>4. CASE (\E c \in Codes : ListUnused(r, c)) \/ UseCode(r) \/ Reread(r) \/ DeleteRow(r)
  BY <1>4, <1>0
  DEF ListUnused, UseCode, Reread, DeleteRow, Reject, Finish, CodeWrite, With, rows, ghosts
<1>5. CASE Abort(r)
  BY <1>5, <1>0 DEF Abort, Reject, Finish, CodeWrite, With, rows, ghosts
<1>6. CASE Commit(r)
  <2>1. /\ codes \in [Codes -> CodeStatus] /\ CodeWrite(r) /\ Added(r, q)
        /\ txn[q] \in Transaction /\ req[q] \in Request
    BY DEF Base, Typed, TypeOK
  <2>2. With("fresh")' = With("fresh") \ (txn[r].gone \cup txn[r].spent \cup txn[r].added)
    BY <1>6, <2>1 DEF Commit, With
  <2>. QED
    BY <1>0, <2>1, <2>2 DEF CodeWrite, Added
<1>. QED
  BY <1>1, <1>2, <1>3, <1>4, <1>5, <1>6 DEF Step

LEMMA AddedStep ==
  ASSUME Base, NEW r \in Requests, NEW q \in Requests \ {r}, Step(r)
  PROVE  Added(r, q)' /\ Added(q, r)'
<1>0. /\ txn'[q] = txn[q] /\ Added(r, q) /\ Added(q, r) /\ txn[r] \in Transaction
      /\ txn[q] \in Transaction
  BY Frame DEF Base, Typed, TypeOK
<1>1. CASE (\E o \in Ops : Begin(r, o)) \/ Gate(r) \/ LoadRecord(r)
           \/ (\E o \in OTP : CheckOtp(r, o)) \/ MarkUsed(r) \/ CountUnused(r)
  BY <1>1, <1>0
  DEF Begin, Gate, LoadRecord, CheckOtp, MarkUsed, CountUnused, Base, Typed, TypeOK, Write,
      Reject, Finish, NoTxn, Added, Transaction
<1>2. CASE Enable(r) \/ (\E s \in Secrets : SetupInsert(r, s))
           \/ (\E s \in Secrets : SetupOverwrite(r, s))
  BY <1>2, <1>0
  DEF Enable, SetupInsert, SetupOverwrite, Base, Typed, TypeOK, Write, Reject, Finish,
      NoTxn, Added, Transaction
<1>3. CASE DeleteScan(r) \/ DeleteRows(r) \/ (\E new \in SUBSET Codes : InsertCodes(r, new))
  BY <1>3, <1>0
  DEF DeleteScan, DeleteRows, InsertCodes, Base, Typed, TypeOK, Write, Reject, Finish,
      NoTxn, Added, Transaction
<1>4. CASE (\E c \in Codes : ListUnused(r, c)) \/ UseCode(r) \/ Reread(r) \/ DeleteRow(r)
  BY <1>4, <1>0
  DEF ListUnused, UseCode, Reread, DeleteRow, Base, Typed, TypeOK, Write, Reject, Finish,
      NoTxn, Added, Transaction
<1>5. CASE Commit(r) \/ Abort(r)
  BY <1>5, <1>0
  DEF Commit, Abort, Base, Typed, TypeOK, Write, Reject, Finish, NoTxn, Added, Transaction
<1>. QED
  BY <1>1, <1>2, <1>3, <1>4, <1>5 DEF Step

(* The times and steps that are compared are numbers.                           *)
LEMMA KeyNat ==
  ASSUME Base
  PROVE  KeyLife \in Nat /\ \A o \in OTP : o.step \in Nat /\ used[o] \in 0..KeyLife
<1>1. KeyLife \in Nat
  BY WindowAssumption DEF KeyLife
<1>2. \A o \in OTP : o.step \in OtpSteps
  BY DEF OTP
<1>. QED
  BY <1>1, <1>2, WindowAssumption DEF Base, Typed, TypeOK

-------------------------------------------------------------------------------
(* The invariant that the other ones stand on.                                  *)
LEMMA BaseStep ==
  Base /\ [Next]_vars => Base'
<1>. SUFFICES ASSUME Base, [Next]_vars PROVE Base'
  OBVIOUS
<1>0. load' = load
  BY DEF Next, vars
<1>1. ASSUME NEW r \in Requests, Step(r) PROVE Base'
  <2>1. ASSUME NEW p \in Requests, NEW q \in Requests, p # q
        PROVE  OneHolder(p, q)' /\ Added(p, q)'
    <3>1. CASE p = r
      BY <1>1, <2>1, <3>1, HolderStep, AddedStep
    <3>2. CASE q = r
      BY <1>1, <2>1, <3>2, HolderStep, AddedStep
    <3>3. CASE p # r /\ q # r
      BY <1>1, <2>1, <3>3, Frame DEF Base, Typed, TypeOK, OneHolder, Added
    <3>. QED
      BY <3>1, <3>2, <3>3
  <2>2. Typed'
    BY <1>0, <1>1, <2>1, PcType, ReqType, TxnType, PastType, RowType, OtherTypes
    DEF Base, Typed, TypeOK
  <2>3. ASSUME NEW q \in Requests PROVE Control(q)' /\ RowWrite(q)' /\ CodeWrite(q)'
    <3>1. CASE q = r
      BY <1>1, <3>1, OpAtStep, InHandStep, RowWriteStep, CodeWriteStep DEF Control
    <3>2. CASE q # r
      <4>1. Control(q)'
        BY <1>1, <3>2, Frame DEF Base, Control, OpAt, InHand, At, Op
      <4>. QED
        BY <1>1, <3>2, <4>1, RowWriteOther, CodeWriteOther
    <3>. QED
      BY <3>1, <3>2
  <2>4. \A p, q \in Requests : Added(p, q)'
    BY <2>1 DEF Added
  <2>. QED
    BY <1>1, <2>2, <2>3, <2>4, RowOKStep DEF Base
<1>2. CASE Tick
  <2>1. /\ UNCHANGED <<row, codes, minted, pc, req, txn, proven, before>>
        /\ now' \in 0..load.until /\ accepted' \subseteq accepted
    BY <1>2, WorkloadsAssumption DEF Tick, rows, Base, Typed, TypeOK, Workload
  <2>2. used' \in [OTP -> 0..KeyLife]
    BY <1>2, KeyNat DEF Tick
  <2>3. Typed'
    BY <1>0, <2>1, <2>2 DEF Base, Typed, TypeOK, OneHolder
  <2>. QED
    BY <2>1, <2>3
    DEF Base, Typed, RowOK, Control, OpAt, InHand, At, Op, RowWrite, CodeWrite, Added, With
<1>3. CASE UNCHANGED vars
  BY <1>3
  DEF vars, rows, ghosts, Base, Typed, TypeOK, OneHolder, RowOK, Control, OpAt, InHand, At,
      Op, RowWrite, CodeWrite, Added, With
<1>. QED
  BY <1>1, <1>2, <1>3 DEF Next

LEMMA InitBase ==
  Init => Base
<1>. SUFFICES ASSUME Init PROVE Base
  OBVIOUS
<1>1. NoReq \in Request /\ NoTxn \in Transaction /\ NoPast \in Past
  BY DEF NoReq, Request, Row, NoTxn, Transaction, NoPast, Past
<1>2. TypeOK
  <2>1. KeyLife \in Nat /\ load.until \in Nat
    BY WindowAssumption, WorkloadsAssumption DEF Init, KeyLife, Workload
  <2>2. \A r, q \in Requests : OneHolder(r, q)
    BY DEF Init, OneHolder, NoTxn
  <2>. QED
    BY <1>1, <2>1, <2>2 DEF Init, TypeOK, Row, CodeStatus, Steps
<1>3. \A r \in Requests : Control(r) /\ RowWrite(r) /\ CodeWrite(r)
  BY DEF Init, Control, OpAt, InHand, At, Op, RowWrite, CodeWrite, NoReq, NoTxn
<1>. QED
  BY <1>1, <1>2, <1>3 DEF Init, Base, Typed, RowOK, Added, NoTxn

(* TypeOK (TwoFactor): the rows, the keys and the requests have their types,    *)
(* and a row lock has one holder, whatever the requests, secrets and codes.     *)
THEOREM TwoFactorTypes ==
  Spec => []TypeOK
<1>1. Base => TypeOK
  BY DEF Base, Typed
<1>. QED
  BY <1>1, InitBase, BaseStep, PTL DEF Spec

-------------------------------------------------------------------------------
(* No request shortens the life of a key.                                       *)
LEMMA UsedGrows ==
  ASSUME Base, NEW r \in Requests, Step(r)
  PROVE  now' = now /\ \A x \in OTP : used'[x] >= used[x]
<1>0. used \in [OTP -> 0..KeyLife] /\ KeyLife \in Nat
  BY WindowAssumption DEF Base, Typed, TypeOK, KeyLife
<1>1. CASE (\E o \in Ops : Begin(r, o)) \/ Gate(r) \/ LoadRecord(r)
           \/ (\E o \in OTP : CheckOtp(r, o)) \/ CountUnused(r)
  BY <1>1, <1>0 DEF Begin, Gate, LoadRecord, CheckOtp, CountUnused, Reject, rows, ghosts
<1>2. CASE MarkUsed(r)
  <2>1. used' = [used EXCEPT ![req[r].otp] = KeyLife] /\ now' = now
    BY <1>2 DEF MarkUsed
  <2>. QED
    BY <1>0, <2>1
<1>3. CASE Enable(r) \/ (\E s \in Secrets : SetupInsert(r, s))
           \/ (\E s \in Secrets : SetupOverwrite(r, s))
  BY <1>3, <1>0 DEF Enable, SetupInsert, SetupOverwrite, Reject, rows, ghosts
<1>4. CASE DeleteScan(r) \/ DeleteRows(r) \/ (\E new \in SUBSET Codes : InsertCodes(r, new))
  BY <1>4, <1>0 DEF DeleteScan, DeleteRows, InsertCodes, Reject, rows, ghosts
<1>5. CASE (\E c \in Codes : ListUnused(r, c)) \/ UseCode(r) \/ Reread(r) \/ DeleteRow(r)
  BY <1>5, <1>0 DEF ListUnused, UseCode, Reread, DeleteRow, Reject, rows, ghosts
<1>6. CASE Commit(r) \/ Abort(r)
  BY <1>6, <1>0 DEF Commit, Abort, Reject, rows, ghosts
<1>. QED
  BY <1>1, <1>2, <1>3, <1>4, <1>5, <1>6 DEF Step

(* The key of an OTP outlives the OTP.                                          *)
LEMMA AcceptedStep ==
  ASSUME Base, NEW r \in Requests, OtpsOK, Step(r)
  PROVE  \A x \in accepted' : KeyCovers(x)'
<1>0. /\ accepted \subseteq OTP /\ used \in [OTP -> 0..KeyLife] /\ Otps(r)
      /\ \A x \in accepted : KeyCovers(x)
  BY DEF Base, Typed, TypeOK, Control, OtpsOK
<1>1. CASE (\E o \in Ops : Begin(r, o)) \/ Gate(r) \/ LoadRecord(r)
           \/ (\E o \in OTP : CheckOtp(r, o)) \/ CountUnused(r)
  BY <1>1, <1>0
  DEF Begin, Gate, LoadRecord, CheckOtp, CountUnused, Reject, rows, ghosts, KeyCovers
<1>2. CASE MarkUsed(r)
  <2>1. /\ req[r].otp \in OTP /\ req[r].otp.step - now <= ValidWindow /\ now \in Nat
        /\ used' = [used EXCEPT ![req[r].otp] = KeyLife] /\ now' = now
        /\ accepted' = accepted \cup {req[r].otp}
    BY <1>2 DEF MarkUsed, Base, Typed, TypeOK, Control, InHand, OtpsOK, Otps
  <2>. SUFFICES ASSUME NEW o \in accepted' PROVE KeyCovers(o)'
    OBVIOUS
  <2>2. o \in OTP /\ o.step \in Nat
    BY <1>0, <2>1, WindowAssumption DEF OTP
  <2>3. CASE o = req[r].otp
    BY <1>0, <2>1, <2>2, <2>3, WindowAssumption DEF KeyCovers, KeyLife
  <2>4. CASE o \in accepted
    <3>1. used'[o] >= used[o] /\ used'[o] \in Int /\ used[o] \in Int
      BY <1>0, <2>1, <2>2, UsedGrows, OtherTypes, WindowAssumption DEF KeyLife
    <3>. QED
      BY <3>1, <1>0, <2>1, <2>2, <2>4, WindowAssumption DEF KeyCovers
  <2>. QED
    BY <2>1, <2>3, <2>4
<1>3. CASE Enable(r) \/ (\E s \in Secrets : SetupInsert(r, s))
           \/ (\E s \in Secrets : SetupOverwrite(r, s))
  BY <1>3, <1>0 DEF Enable, SetupInsert, SetupOverwrite, Reject, rows, ghosts, KeyCovers
<1>4. CASE DeleteScan(r) \/ DeleteRows(r) \/ (\E new \in SUBSET Codes : InsertCodes(r, new))
  BY <1>4, <1>0 DEF DeleteScan, DeleteRows, InsertCodes, Reject, rows, ghosts, KeyCovers
<1>5. CASE (\E c \in Codes : ListUnused(r, c)) \/ UseCode(r) \/ Reread(r) \/ DeleteRow(r)
  BY <1>5, <1>0 DEF ListUnused, UseCode, Reread, DeleteRow, Reject, rows, ghosts, KeyCovers
<1>6. CASE Commit(r) \/ Abort(r)
  BY <1>6, <1>0 DEF Commit, Abort, Reject, rows, ghosts, KeyCovers
<1>. QED
  BY <1>1, <1>2, <1>3, <1>4, <1>5, <1>6 DEF Step

LEMMA FinishOtps ==
  ASSUME Base, NEW r \in Requests, Finish(r)
  PROVE  Otps(r)'
  BY FinishLocal DEF Otps, NoPast, At

LEMMA OtpsStep ==
  ASSUME Base, NEW r \in Requests, OtpsOK, Step(r)
  PROVE  Otps(r)'
<1>0. /\ req \in [Requests -> Request] /\ pc \in [Requests -> Steps]
      /\ txn \in [Requests -> Transaction] /\ before \in [Requests -> Past]
      /\ used \in [OTP -> 0..KeyLife] /\ now \in Nat /\ now' = now /\ Otps(r)
      /\ before[r].accepted \subseteq OTP /\ (\A x \in accepted : KeyCovers(x))
      /\ before[r] \in Past
  BY UsedGrows DEF Base, Typed, TypeOK, Control, OtpsOK, Past
<1>1. CASE Gate(r) \/ LoadRecord(r) \/ CountUnused(r)
  BY <1>1, <1>0, FinishOtps
  DEF Gate, LoadRecord, CountUnused, At, Op, Goto, Reject, Write, rows, ghosts, Otps,
      KeyCovers, Past
<1>2. ASSUME NEW o \in Ops, Begin(r, o) PROVE Otps(r)'
  <2>1. /\ before'[r].accepted \subseteq accepted /\ pc'[r] # "mark" /\ used' = used
        /\ now' = now
    BY <1>2, <1>0 DEF Begin, Goto, Entry
  <2>. QED
    BY <2>1, <1>0 DEF Otps, KeyCovers, At
<1>3. ASSUME NEW o \in OTP, CheckOtp(r, o) PROVE Otps(r)'
  <2>1. CASE Reject(r)
    BY <2>1, FinishOtps DEF Reject
  <2>2. CASE ~Reject(r)
    <3>1. /\ used[o] = 0 /\ InWindow(o, now) /\ req'[r].otp = o /\ used' = used
          /\ before' = before
      BY <1>3, <1>0, <2>2 DEF CheckOtp, Request
    <3>2. o.step \in Nat /\ o.step - now <= ValidWindow /\ now - o.step <= ValidWindow
      BY <3>1, <1>0, KeyNat, WindowAssumption DEF InWindow, Abs
    <3>3. ~KeyCovers(o)
      BY <3>1, <3>2, <1>0, WindowAssumption DEF KeyCovers
    <3>. QED
      BY <3>1, <3>2, <3>3, <1>0 DEF Otps, KeyCovers
  <2>. QED
    BY <2>1, <2>2
<1>4. CASE MarkUsed(r)
  <2>1. /\ before'[r] = before[r] /\ pc'[r] # "mark"
        /\ \A x \in before[r].accepted : 
             used'[x] >= used[x] /\ used[x] \in Nat /\ used'[x] \in Nat /\ x.step \in Nat
    BY <1>4, <1>0, KeyNat, UsedGrows, OtherTypes DEF MarkUsed, Goto, AfterOtp
  <2>. QED
    BY <2>1, <1>0, WindowAssumption DEF Otps, KeyCovers, At
<1>5. CASE Enable(r) \/ (\E s \in Secrets : SetupInsert(r, s))
           \/ (\E s \in Secrets : SetupOverwrite(r, s))
  BY <1>5, <1>0, FinishOtps
  DEF Enable, SetupInsert, SetupOverwrite, At, Op, Goto, Reject, Write, rows, ghosts, Otps,
      KeyCovers, Past
<1>6. CASE DeleteScan(r) \/ DeleteRows(r) \/ (\E new \in SUBSET Codes : InsertCodes(r, new))
  BY <1>6, <1>0, FinishOtps
  DEF DeleteScan, DeleteRows, InsertCodes, At, Op, Goto, Reject, Write, rows, ghosts, Otps,
      KeyCovers, Past
<1>7. CASE (\E c \in Codes : ListUnused(r, c)) \/ UseCode(r) \/ Reread(r) \/ DeleteRow(r)
  BY <1>7, <1>0, FinishOtps
  DEF ListUnused, UseCode, Reread, DeleteRow, At, Op, Goto, Reject, Write, rows, ghosts,
      Otps, KeyCovers, Past
<1>8. CASE Commit(r) \/ Abort(r)
  BY <1>8, <1>0, FinishOtps
  DEF Commit, Abort, At, Op, Goto, Reject, Write, rows, ghosts, Otps, KeyCovers, Past
<1>. QED
  BY <1>1, <1>2, <1>3, <1>4, <1>5, <1>6, <1>7, <1>8 DEF Step

LEMMA OtpsOther ==
  ASSUME Base, OtpsOK, NEW r \in Requests, NEW q \in Requests \ {r}, Step(r)
  PROVE  Otps(q)'
<1>1. /\ before'[q] = before[q] /\ pc'[q] = pc[q] /\ req'[q] = req[q] /\ now' = now
      /\ now \in Nat /\ before[q].accepted \subseteq OTP /\ Otps(q)
  BY Frame, UsedGrows DEF Base, Typed, TypeOK, Past, OtpsOK
<1>2. \A o \in OTP : /\ o.step \in Nat /\ used[o] \in Nat
                     /\ used'[o] \in Nat /\ used'[o] >= used[o]
  BY KeyNat, UsedGrows, OtherTypes
<1>. QED
  BY <1>1, <1>2, WindowAssumption DEF Otps, KeyCovers, At

LEMMA OtpsTick ==
  ASSUME Base, OtpsOK, Tick
  PROVE  OtpsOK'
<1>1. /\ now \in Nat /\ now' = now + 1 /\ accepted' \subseteq accepted
      /\ accepted \subseteq OTP
      /\ pc' = pc /\ req' = req /\ before' = before
      /\ \A r \in Requests : before[r].accepted \subseteq OTP
  BY DEF Tick, Base, Typed, TypeOK, Past
<1>2. \A o \in OTP : /\ o.step \in Nat /\ used[o] \in Nat
                     /\ used'[o] = IF used[o] > 0 THEN used[o] - 1 ELSE 0
  BY KeyNat DEF Tick
<1>3. \A o \in OTP : KeyCovers(o) => KeyCovers(o)'
  BY <1>1, <1>2, WindowAssumption DEF KeyCovers
<1>4. ASSUME NEW r \in Requests PROVE Otps(r)'
  <2>1. At(r, "mark") => req[r].otp.step \in Nat
    BY WindowAssumption DEF Base, Control, InHand, OTP
  <2>. QED
    BY <1>1, <1>3, <2>1, WindowAssumption DEF OtpsOK, Otps, At
<1>. QED
  BY <1>1, <1>3, <1>4 DEF OtpsOK

LEMMA OtpsKept ==
  Base /\ OtpsOK /\ [Next]_vars => OtpsOK'
<1>. SUFFICES ASSUME Base, OtpsOK, [Next]_vars PROVE OtpsOK'
  OBVIOUS
<1>1. ASSUME NEW r \in Requests, Step(r) PROVE OtpsOK'
  <2>1. \A q \in Requests : Otps(q)'
    BY <1>1, OtpsStep, OtpsOther DEF OtpsOK
  <2>. QED
    BY <1>1, <2>1, AcceptedStep DEF OtpsOK
<1>2. CASE UNCHANGED vars
  BY <1>2 DEF vars, ghosts, OtpsOK, Otps, KeyCovers, At
<1>. QED
  BY <1>1, <1>2, OtpsTick DEF Next

(* OtpReuseOverlaps (verify_totp): an OTP that has been marked as used is let   *)
(* pass again only for a request that was under way then, for any window and    *)
(* any steps.                                                                   *)
THEOREM OtpsReusedOverlap ==
  Spec => []OtpReuseOverlaps
<1>1. Init => OtpsOK
  BY DEF Init, OtpsOK, Otps, NoPast, At
<1>2. OtpsOK => OtpReuseOverlaps
  BY DEF OtpsOK, Otps, OtpReuseOverlaps
<1>. QED
  BY <1>1, <1>2, InitBase, BaseStep, OtpsKept, PTL DEF Spec

-------------------------------------------------------------------------------
(* What is used or deleted is never usable again, and no code becomes new       *)
(* again.                                                                       *)
LEMMA OverGrows ==
  ASSUME Base, NEW r \in Requests, Step(r)
  PROVE  Over \subseteq Over'
<1>0. codes \in [Codes -> CodeStatus] /\ CodeWrite(r) /\ txn[r] \in Transaction
  BY DEF Base, Typed, TypeOK, Control
<1>1. CASE (\E o \in Ops : Begin(r, o)) \/ Gate(r) \/ LoadRecord(r)
           \/ (\E o \in OTP : CheckOtp(r, o)) \/ MarkUsed(r) \/ CountUnused(r)
  BY <1>1, <1>0
  DEF Begin, Gate, LoadRecord, CheckOtp, MarkUsed, CountUnused, Reject, rows, ghosts, Over,
      With
<1>2. CASE Enable(r) \/ (\E s \in Secrets : SetupInsert(r, s))
           \/ (\E s \in Secrets : SetupOverwrite(r, s))
  BY <1>2, <1>0 DEF Enable, SetupInsert, SetupOverwrite, Reject, rows, ghosts, Over, With
<1>3. CASE DeleteScan(r) \/ DeleteRows(r) \/ (\E new \in SUBSET Codes : InsertCodes(r, new))
  BY <1>3, <1>0 DEF DeleteScan, DeleteRows, InsertCodes, Reject, rows, ghosts, Over, With
<1>4. CASE (\E c \in Codes : ListUnused(r, c)) \/ UseCode(r) \/ Reread(r) \/ DeleteRow(r)
  BY <1>4, <1>0 DEF ListUnused, UseCode, Reread, DeleteRow, Reject, rows, ghosts, Over, With
<1>5. CASE Abort(r)
  BY <1>5, <1>0 DEF Abort, Reject, rows, ghosts, Over, With
<1>6. CASE Commit(r)
  BY <1>6, <1>0 DEF Commit, Over, With, CodeWrite, Transaction
<1>. QED
  BY <1>1, <1>2, <1>3, <1>4, <1>5, <1>6 DEF Step

LEMMA FreshShrinks ==
  ASSUME Base, NEW r \in Requests, Step(r)
  PROVE  With("fresh")' \subseteq With("fresh")
<1>0. codes \in [Codes -> CodeStatus]
  BY DEF Base, Typed, TypeOK, Control
<1>1. CASE (\E o \in Ops : Begin(r, o)) \/ Gate(r) \/ LoadRecord(r)
           \/ (\E o \in OTP : CheckOtp(r, o)) \/ MarkUsed(r) \/ CountUnused(r)
  BY <1>1, <1>0
  DEF Begin, Gate, LoadRecord, CheckOtp, MarkUsed, CountUnused, Reject, rows, ghosts, With
<1>2. CASE Enable(r) \/ (\E s \in Secrets : SetupInsert(r, s))
           \/ (\E s \in Secrets : SetupOverwrite(r, s))
  BY <1>2, <1>0 DEF Enable, SetupInsert, SetupOverwrite, Reject, rows, ghosts, With
<1>3. CASE DeleteScan(r) \/ DeleteRows(r) \/ (\E new \in SUBSET Codes : InsertCodes(r, new))
  BY <1>3, <1>0 DEF DeleteScan, DeleteRows, InsertCodes, Reject, rows, ghosts, With
<1>4. CASE (\E c \in Codes : ListUnused(r, c)) \/ UseCode(r) \/ Reread(r) \/ DeleteRow(r)
  BY <1>4, <1>0 DEF ListUnused, UseCode, Reread, DeleteRow, Reject, rows, ghosts, With
<1>5. CASE Commit(r) \/ Abort(r)
  BY <1>5, <1>0 DEF Commit, Abort, Reject, rows, ghosts, With
<1>. QED
  BY <1>1, <1>2, <1>3, <1>4, <1>5 DEF Step

(* Recovery codes in hand and in a DELETE.                                      *)
LEMMA FinishCodes ==
  ASSUME Base, NEW r \in Requests, Finish(r)
  PROVE  Spent(r)' /\ Cleared(r)'
  BY FinishLocal DEF Spent, Cleared, NoPast, NoReq, At, Op

LEMMA SpentStep ==
  ASSUME Base, NEW r \in Requests, Spent(r), Step(r)
  PROVE  Spent(r)'
<1>0. /\ codes \in [Codes -> CodeStatus] /\ codes' \in [Codes -> CodeStatus]
      /\ req[r] \in Request /\ txn[r] \in Transaction /\ before[r] \in Past /\ OpAt(r)
      /\ Over \subseteq Over' /\ req \in [Requests -> Request] /\ pc \in [Requests -> Steps]
      /\ txn \in [Requests -> Transaction] /\ before \in [Requests -> Past]
      /\ pc[r] \in Steps
  BY OverGrows, OtherTypes DEF Base, Typed, TypeOK, Control
<1>1. CASE (\E o \in Ops : Begin(r, o)) \/ Gate(r) \/ LoadRecord(r)
           \/ (\E o \in OTP : CheckOtp(r, o)) \/ MarkUsed(r) \/ CountUnused(r)
  BY <1>1, <1>0, FinishCodes
  DEF Begin, Gate, LoadRecord, CheckOtp, MarkUsed, CountUnused, At, Op, Goto, Reject, Write,
      rows, ghosts, OpAt, Over, With, Entry, AfterOtp, Past, Spent
<1>2. CASE Enable(r) \/ (\E s \in Secrets : SetupInsert(r, s))
           \/ (\E s \in Secrets : SetupOverwrite(r, s))
  BY <1>2, <1>0, FinishCodes
  DEF Enable, SetupInsert, SetupOverwrite, At, Op, Goto, Reject, Write, rows, ghosts, OpAt,
      Over, With, Entry, AfterOtp, Past, Spent
<1>3. CASE DeleteScan(r)
  BY <1>3, <1>0, FinishCodes
  DEF DeleteScan, At, Op, Goto, Reject, Write, rows, ghosts, OpAt, Over, With, Entry,
      AfterOtp, Past, Spent
<1>4. CASE DeleteRows(r)
  BY <1>4, <1>0, FinishCodes
  DEF DeleteRows, At, Op, Goto, Reject, Write, rows, ghosts, OpAt, Over, With, Entry,
      AfterOtp, Past, Spent
<1>5. ASSUME NEW new \in SUBSET Codes, InsertCodes(r, new) PROVE Spent(r)'
  BY <1>5, <1>0, FinishCodes
  DEF InsertCodes, At, Op, Goto, Reject, Write, rows, ghosts, OpAt, Over, With, Entry,
      AfterOtp, Past, Spent
<1>6. ASSUME NEW c \in Codes, ListUnused(r, c) PROVE Spent(r)'
  BY <1>6, <1>0, FinishCodes
  DEF ListUnused, At, Op, Goto, Reject, Write, rows, ghosts, OpAt, Over, With, Entry,
      AfterOtp, Past, Spent
<1>7. CASE UseCode(r)
  BY <1>7, <1>0, FinishCodes
  DEF UseCode, At, Op, Goto, Reject, Write, rows, ghosts, OpAt, Over, With, Entry, AfterOtp,
      Past, Spent
<1>8. CASE Reread(r)
  BY <1>8, <1>0, FinishCodes
  DEF Reread, At, Op, Goto, Reject, Write, rows, ghosts, OpAt, Over, With, Entry, AfterOtp,
      Past, Spent
<1>9. CASE DeleteRow(r)
  BY <1>9, <1>0, FinishCodes
  DEF DeleteRow, At, Op, Goto, Reject, Write, rows, ghosts, OpAt, Over, With, Entry,
      AfterOtp, Past, Spent
<1>10. CASE Commit(r) \/ Abort(r)
  BY <1>10, <1>0, FinishCodes
  DEF Commit, Abort, At, Op, Goto, Reject, Write, rows, ghosts, OpAt, Over, With, Entry,
      AfterOtp, Past, Spent
<1>. QED
  BY <1>1, <1>2, <1>3, <1>4, <1>5, <1>6, <1>7, <1>8, <1>9, <1>10 DEF Step

LEMMA ClearedStep ==
  ASSUME Base, NEW r \in Requests, Cleared(r), Step(r)
  PROVE  Cleared(r)'
<1>0. /\ codes \in [Codes -> CodeStatus] /\ codes' \in [Codes -> CodeStatus]
      /\ req[r] \in Request /\ txn[r] \in Transaction /\ before[r] \in Past /\ OpAt(r)
      /\ Over \subseteq Over' /\ req \in [Requests -> Request] /\ pc \in [Requests -> Steps]
      /\ txn \in [Requests -> Transaction] /\ before \in [Requests -> Past]
      /\ pc[r] \in Steps
  BY OverGrows, OtherTypes DEF Base, Typed, TypeOK, Control
<1>1. CASE (\E o \in Ops : Begin(r, o)) \/ Gate(r) \/ LoadRecord(r)
           \/ (\E o \in OTP : CheckOtp(r, o)) \/ MarkUsed(r) \/ CountUnused(r)
  BY <1>1, <1>0, FinishCodes
  DEF Begin, Gate, LoadRecord, CheckOtp, MarkUsed, CountUnused, At, Op, Goto, Reject, Write,
      rows, ghosts, OpAt, Over, With, Entry, AfterOtp, Past, Cleared
<1>2. CASE Enable(r) \/ (\E s \in Secrets : SetupInsert(r, s))
           \/ (\E s \in Secrets : SetupOverwrite(r, s))
  BY <1>2, <1>0, FinishCodes
  DEF Enable, SetupInsert, SetupOverwrite, At, Op, Goto, Reject, Write, rows, ghosts, OpAt,
      Over, With, Entry, AfterOtp, Past, Cleared
<1>3. CASE DeleteScan(r)
  <2>1. /\ req'[r].codes = With("unused") \cup With("used") /\ before' = before
        /\ pc'[r] = "sweep" /\ codes' = codes
    BY <1>3, <1>0 DEF DeleteScan, Goto, rows, Request
  <2>2. /\ before[r].unused \subseteq Codes
        /\ \A c \in Codes : codes[c] \in {"fresh", "unused", "used", "deleted"}
    BY <1>0 DEF Past, CodeStatus
  <2>3. before[r].unused \subseteq With("unused") \cup With("used") \cup Over
    BY <2>2 DEF Cleared, With, Over
  <2>. QED
    BY <2>1, <2>3 DEF Cleared, At, Over, With
<1>4. CASE DeleteRows(r)
  BY <1>4, <1>0, FinishCodes
  DEF DeleteRows, At, Op, Goto, Reject, Write, rows, ghosts, OpAt, Over, With, Entry,
      AfterOtp, Past, Cleared
<1>5. ASSUME NEW new \in SUBSET Codes, InsertCodes(r, new) PROVE Cleared(r)'
  BY <1>5, <1>0, FinishCodes
  DEF InsertCodes, At, Op, Goto, Reject, Write, rows, ghosts, OpAt, Over, With, Entry,
      AfterOtp, Past, Cleared
<1>6. ASSUME NEW c \in Codes, ListUnused(r, c) PROVE Cleared(r)'
  BY <1>6, <1>0, FinishCodes
  DEF ListUnused, At, Op, Goto, Reject, Write, rows, ghosts, OpAt, Over, With, Entry,
      AfterOtp, Past, Cleared
<1>7. CASE UseCode(r)
  BY <1>7, <1>0, FinishCodes
  DEF UseCode, At, Op, Goto, Reject, Write, rows, ghosts, OpAt, Over, With, Entry, AfterOtp,
      Past, Cleared
<1>8. CASE Reread(r)
  BY <1>8, <1>0, FinishCodes
  DEF Reread, At, Op, Goto, Reject, Write, rows, ghosts, OpAt, Over, With, Entry, AfterOtp,
      Past, Cleared
<1>9. CASE DeleteRow(r)
  BY <1>9, <1>0, FinishCodes
  DEF DeleteRow, At, Op, Goto, Reject, Write, rows, ghosts, OpAt, Over, With, Entry,
      AfterOtp, Past, Cleared
<1>10. CASE Commit(r) \/ Abort(r)
  BY <1>10, <1>0, FinishCodes
  DEF Commit, Abort, At, Op, Goto, Reject, Write, rows, ghosts, OpAt, Over, With, Entry,
      AfterOtp, Past, Cleared
<1>. QED
  BY <1>1, <1>2, <1>3, <1>4, <1>5, <1>6, <1>7, <1>8, <1>9, <1>10 DEF Step

LEMMA CodesOther ==
  ASSUME Base, NEW r \in Requests, NEW q \in Requests \ {r}, Step(r), Spent(q), Cleared(q)
  PROVE  Spent(q)' /\ Cleared(q)'
<1>1. /\ before'[q] = before[q] /\ pc'[q] = pc[q] /\ req'[q] = req[q] /\ txn'[q] = txn[q]
      /\ Over \subseteq Over'
  BY Frame, OverGrows
<1>2. Spent(q)'
  BY <1>1 DEF Spent, Op
<1>3. before[q].unused \cap With("fresh")' = {}
  <2>1. before[q].unused \subseteq Codes /\ codes \in [Codes -> CodeStatus]
    BY DEF Base, Typed, TypeOK, Past
  <2>2. before[q].unused \subseteq With("unused") \cup Over
    BY <2>1 DEF Cleared, With, Over, CodeStatus
  <2>. QED
    BY <2>1, FreshShrinks DEF Cleared
<1>4. Cleared(q)'
  BY <1>1, <1>3 DEF Cleared, At, Op
<1>. QED
  BY <1>2, <1>4

LEMMA CodesKept ==
  Base /\ CodesOK /\ [Next]_vars => CodesOK'
<1>. SUFFICES ASSUME Base, CodesOK, [Next]_vars, NEW q \in Requests
              PROVE  Spent(q)' /\ Cleared(q)'
  BY DEF CodesOK
<1>1. ASSUME NEW r \in Requests, Step(r) PROVE Spent(q)' /\ Cleared(q)'
  BY <1>1, SpentStep, ClearedStep, CodesOther DEF CodesOK
<1>2. CASE Tick \/ UNCHANGED vars
  BY <1>2 DEF Tick, vars, rows, CodesOK, Spent, Cleared, Over, With, At, Op
<1>. QED
  BY <1>1, <1>2 DEF Next

LEMMA InitCodes ==
  Init => CodesOK
BY DEF Init, CodesOK, Spent, Cleared, NoPast, NoReq, At, Op

(* CodeReuseOverlaps (consume_recovery_code): a login that comes after a code   *)
(* was used up does not use it, for any number of codes and requests.           *)
THEOREM CodesReusedOverlap ==
  Spec => []CodeReuseOverlaps
<1>1. CodesOK => CodeReuseOverlaps
  BY DEF CodesOK, Spent, CodeReuseOverlaps, At
<1>. QED
  BY <1>1, InitBase, BaseStep, InitCodes, CodesKept, PTL DEF Spec

(* OldCodesDie (delete_for_user): once a regeneration or a disable commits, no  *)
(* code that was usable when it came is usable.                                 *)
THEOREM ClearedCodesDie ==
  Spec => OldCodesDie
<1>1. ASSUME Base, CodesOK, NEW r \in Requests, Commit(r), Op(r) \in {"regenerate", "disable"},
             NEW c \in before[r].unused
      PROVE  codes'[c] # "unused"
  <2>1. c \in Codes /\ c \in txn[r].gone \cup Over
    BY <1>1 DEF Base, Typed, Past, CodesOK, Cleared, Commit, At
  <2>2. CASE c \in txn[r].gone
    BY <1>1, <2>1, <2>2 DEF Commit
  <2>3. CASE c \notin txn[r].gone
    BY <1>1, <2>1, <2>3 DEF Commit, Over, With, Base, CodeWrite
  <2>. QED
    BY <2>2, <2>3
<1>2. Base /\ CodesOK =>
      (\A r \in Requests : Commit(r) /\ Op(r) \in {"regenerate", "disable"} =>
        \A c \in before[r].unused : codes'[c] # "unused")
  BY <1>1
<1>. QED
  BY <1>2, InitBase, BaseStep, InitCodes, CodesKept, PTL DEF Spec, OldCodesDie

-------------------------------------------------------------------------------
(* Ids: minted ones stay minted, and an id that has been minted is not          *)
(* inserted again.                                                              *)
LEMMA MintedGrows ==
  ASSUME Base, NEW r \in Requests, Step(r)
  PROVE  minted \subseteq minted'
<1>0. TRUE
  BY DEF Base, Typed, TypeOK, Control
<1>1. CASE (\E o \in Ops : Begin(r, o)) \/ Gate(r) \/ LoadRecord(r)
           \/ (\E o \in OTP : CheckOtp(r, o)) \/ MarkUsed(r) \/ CountUnused(r)
  BY <1>1, <1>0
  DEF Begin, Gate, LoadRecord, CheckOtp, MarkUsed, CountUnused, Reject, rows, ghosts
<1>2. CASE Enable(r) \/ (\E s \in Secrets : SetupInsert(r, s))
           \/ (\E s \in Secrets : SetupOverwrite(r, s))
  BY <1>2, <1>0 DEF Enable, SetupInsert, SetupOverwrite, Reject, rows, ghosts
<1>3. CASE DeleteScan(r) \/ DeleteRows(r) \/ (\E new \in SUBSET Codes : InsertCodes(r, new))
  BY <1>3, <1>0 DEF DeleteScan, DeleteRows, InsertCodes, Reject, rows, ghosts
<1>4. CASE (\E c \in Codes : ListUnused(r, c)) \/ UseCode(r) \/ Reread(r) \/ DeleteRow(r)
  BY <1>4, <1>0 DEF ListUnused, UseCode, Reread, DeleteRow, Reject, rows, ghosts
<1>5. CASE Commit(r) \/ Abort(r)
  BY <1>5, <1>0 DEF Commit, Abort, Reject, rows, ghosts
<1>. QED
  BY <1>1, <1>2, <1>3, <1>4, <1>5 DEF Step

LEMMA FinishGated ==
  ASSUME Base, NEW r \in Requests, Finish(r)
  PROVE  before'[r].gated = None
  BY FinishLocal DEF NoPast

LEMMA InsertsStep ==
  ASSUME Base, NEW r \in Requests, NEW i \in minted, ~Inserts(r, i), Step(r)
  PROVE  ~Inserts(r, i)'
<1>0. txn[r] \in Transaction /\ txn \in [Requests -> Transaction]
  BY DEF Base, Typed, TypeOK, Control
<1>1. CASE (\E o \in Ops : Begin(r, o)) \/ MarkUsed(r)
  BY <1>1, <1>0 DEF Begin, MarkUsed, Reject, Write, Inserts, Transaction
<1>2. CASE Gate(r)
  BY <1>2, <1>0, FinishLocal DEF Gate, Inserts, Reject, NoTxn, Transaction
<1>3. CASE LoadRecord(r)
  BY <1>3, <1>0, FinishLocal DEF LoadRecord, Inserts, Reject, NoTxn, Transaction
<1>4. ASSUME NEW o \in OTP, CheckOtp(r, o) PROVE ~Inserts(r, i)'
  BY <1>4, <1>0, FinishLocal DEF CheckOtp, Inserts, Reject, NoTxn, Transaction
<1>5. CASE CountUnused(r)
  BY <1>5, <1>0, FinishLocal DEF CountUnused, Inserts, Reject, NoTxn, Transaction
<1>6. CASE Enable(r)
  BY <1>6, <1>0, FinishLocal, WriteLocal DEF Enable, Inserts, Reject, NoTxn
<1>7. ASSUME NEW s \in Secrets, SetupInsert(r, s) PROVE ~Inserts(r, i)'
  BY <1>7, <1>0, FinishLocal, WriteLocal DEF SetupInsert, Inserts, Reject, Fresh, NoTxn
<1>8. ASSUME NEW s \in Secrets, SetupOverwrite(r, s) PROVE ~Inserts(r, i)'
  BY <1>8, <1>0, FinishLocal, WriteLocal DEF SetupOverwrite, Inserts, Reject, NoTxn
<1>9. CASE DeleteScan(r) \/ DeleteRows(r) \/ (\E new \in SUBSET Codes : InsertCodes(r, new))
  BY <1>9, <1>0 DEF DeleteScan, DeleteRows, InsertCodes, Reject, Write, Inserts, Transaction
<1>10. CASE (\E c \in Codes : ListUnused(r, c)) \/ Reread(r) \/ DeleteRow(r)
  BY <1>10, <1>0 DEF ListUnused, Reread, DeleteRow, Reject, Write, Inserts, Transaction
<1>11. CASE UseCode(r)
  BY <1>11, <1>0, FinishLocal DEF UseCode, Inserts, Reject, NoTxn, Transaction
<1>12. CASE Commit(r)
  BY <1>12, <1>0, FinishLocal DEF Commit, Inserts, Reject, NoTxn, Transaction
<1>13. CASE Abort(r)
  BY <1>13, <1>0, FinishLocal DEF Abort, Inserts, Reject, NoTxn, Transaction
<1>. QED
  BY <1>1, <1>2, <1>3, <1>4, <1>5, <1>6, <1>7, <1>8, <1>9, <1>10, <1>11, <1>12, <1>13
  DEF Step

LEMMA RowIdStep ==
  ASSUME Base, NEW r \in Requests, NEW i \in minted, i # None, ~Inserts(r, i), Step(r)
  PROVE  /\ row.id # i => row'.id # i
         /\ (row.id = i => row.enabled) => (row'.id = i => row'.enabled)
<1>0. row \in Row /\ txn[r] \in Transaction /\ RowWrite(r)
  BY DEF Base, Typed, TypeOK, Control
<1>1. CASE (\E o \in Ops : Begin(r, o)) \/ Gate(r) \/ LoadRecord(r)
           \/ (\E o \in OTP : CheckOtp(r, o)) \/ MarkUsed(r) \/ CountUnused(r)
  BY <1>1, <1>0
  DEF Begin, Gate, LoadRecord, CheckOtp, MarkUsed, CountUnused, Reject, rows, ghosts
<1>2. CASE Enable(r) \/ (\E s \in Secrets : SetupInsert(r, s))
           \/ (\E s \in Secrets : SetupOverwrite(r, s))
  BY <1>2, <1>0 DEF Enable, SetupInsert, SetupOverwrite, Reject, rows, ghosts
<1>3. CASE DeleteScan(r) \/ DeleteRows(r) \/ (\E new \in SUBSET Codes : InsertCodes(r, new))
  BY <1>3, <1>0 DEF DeleteScan, DeleteRows, InsertCodes, Reject, rows, ghosts
<1>4. CASE (\E c \in Codes : ListUnused(r, c)) \/ UseCode(r) \/ Reread(r) \/ DeleteRow(r)
  BY <1>4, <1>0 DEF ListUnused, UseCode, Reread, DeleteRow, Reject, rows, ghosts
<1>5. CASE Abort(r)
  BY <1>5, <1>0 DEF Abort, Reject, rows, ghosts
<1>6. CASE Commit(r)
  BY <1>6, <1>0 DEF Commit, Written, Inserts, RowWrite, Row, NoRow, Transaction
<1>. QED
  BY <1>1, <1>2, <1>3, <1>4, <1>5, <1>6 DEF Step

(* An id that is on, or gone, stays so.                                         *)
LEMMA KeptStep ==
  ASSUME Base, NEW r \in Requests, Step(r), NEW i \in Secrets, Kept(i)
  PROVE  Kept(i)' /\ (row.id # i => row'.id # i)
<1>1. i \in minted /\ i # None /\ minted \subseteq minted'
  BY MintedGrows, NoneAssumption DEF Kept
<1>2. ASSUME NEW q \in Requests PROVE ~Inserts(q, i)'
  <2>1. CASE q = r
    BY <1>1, <2>1, InsertsStep DEF Kept
  <2>2. CASE q # r
    BY <2>2, Frame DEF Kept, Inserts
  <2>. QED
    BY <2>1, <2>2
<1>. QED
  BY <1>1, <1>2, RowIdStep DEF Kept

LEMMA GatedStep ==
  ASSUME Base, NEW r \in Requests, Gated(r), Step(r)
  PROVE  Gated(r)'
<1>0. /\ pc \in [Requests -> Steps] /\ req \in [Requests -> Request] /\ req[r] \in Request
      /\ before \in [Requests -> Past] /\ OpAt(r) /\ before[r].gated \in Secrets \cup {None}
      /\ \A i \in Secrets : i = before[r].gated =>
           i # None /\ Kept(i) /\ Kept(i)' /\ (row.id # i => row'.id # i)
  <2>1. /\ before[r].gated \in Secrets \cup {None}
        /\ before[r].gated # None => Kept(before[r].gated)
    BY DEF Base, Typed, Past, Gated
  <2>. QED
    BY <2>1, KeptStep, NoneAssumption DEF Base, Typed, TypeOK, Control
<1>1. CASE LoadRecord(r) \/ (\E o \in OTP : CheckOtp(r, o)) \/ MarkUsed(r) \/ CountUnused(r)
  BY <1>1, <1>0, FinishGated
  DEF LoadRecord, CheckOtp, MarkUsed, CountUnused, Goto, At, Op, Reject, Write, rows,
      ghosts, Gated, Kept, Inserts, OpAt, AfterOtp, Entry
<1>2. ASSUME NEW o \in Ops, Begin(r, o) PROVE Gated(r)'
  <2>. SUFFICES ASSUME NEW i, i = before'[r].gated, i # None
                PROVE  Kept(i)' /\ pc'[r] # "commit"
    BY DEF Gated, Kept, Inserts, At
  <2>1. pc'[r] # "commit" /\ row.enabled /\ i = row.id
    BY <1>0, <1>2 DEF Begin, Entry, Goto
  <2>2. i \in Secrets /\ Kept(i)
    BY <2>1, NoneAssumption
    DEF Kept, Base, Typed, TypeOK, Row, NoRow, RowOK, RowWrite, Inserts
  <2>. QED
    BY <2>1, <2>2, KeptStep
<1>3. CASE Gate(r)
  <2>1. CASE Finish(r)
    BY <2>1, FinishGated DEF Gated
  <2>2. CASE ~Finish(r)
    <3>1. ~row.enabled /\ before' = before /\ row' = row
      BY <1>3, <2>2 DEF Gate, IsEnabled, rows
    <3>2. before[r].gated # None => Kept(before[r].gated)
      BY DEF Gated
    <3>. QED
      BY <3>1, <3>2, <1>0 DEF Gated, Kept, Inserts
  <2>. QED
    BY <2>1, <2>2
<1>4. CASE Enable(r) \/ (\E s \in Secrets : SetupInsert(r, s))
           \/ (\E s \in Secrets : SetupOverwrite(r, s))
  BY <1>4, <1>0, FinishGated
  DEF Enable, SetupInsert, SetupOverwrite, Goto, At, Op, Reject, Write, rows, ghosts, Gated,
      Kept, Inserts, OpAt, AfterOtp, Entry
<1>5. CASE DeleteScan(r) \/ DeleteRows(r) \/ (\E new \in SUBSET Codes : InsertCodes(r, new))
  BY <1>5, <1>0, FinishGated
  DEF DeleteScan, DeleteRows, InsertCodes, Goto, At, Op, Reject, Write, rows, ghosts, Gated,
      Kept, Inserts, OpAt, AfterOtp, Entry
<1>6. CASE (\E c \in Codes : ListUnused(r, c)) \/ UseCode(r) \/ Reread(r) \/ DeleteRow(r)
  BY <1>6, <1>0, FinishGated
  DEF ListUnused, UseCode, Reread, DeleteRow, Goto, At, Op, Reject, Write, rows, ghosts,
      Gated, Kept, Inserts, OpAt, AfterOtp, Entry
<1>7. CASE Commit(r) \/ Abort(r)
  BY <1>7, <1>0, FinishGated
  DEF Commit, Abort, Goto, At, Op, Reject, Write, rows, ghosts, Gated, Kept, Inserts, OpAt,
      AfterOtp, Entry
<1>. QED
  BY <1>1, <1>2, <1>3, <1>4, <1>5, <1>6, <1>7 DEF Step

LEMMA GatedOther ==
  ASSUME Base, NEW r \in Requests, NEW q \in Requests \ {r}, Step(r), Gated(q)
  PROVE  Gated(q)'
<1>1. /\ before'[q] = before[q] /\ pc'[q] = pc[q] /\ req'[q] = req[q]
      /\ before[q].gated \in Secrets \cup {None}
  BY Frame DEF Base, Typed, Past
<1>. QED
  BY <1>1, KeptStep DEF Gated, At, Op, Kept, Inserts

LEMMA GateKept ==
  Base /\ GateOK /\ [Next]_vars => GateOK'
<1>. SUFFICES ASSUME Base, GateOK, [Next]_vars, NEW q \in Requests PROVE Gated(q)'
  BY DEF GateOK
<1>1. ASSUME NEW r \in Requests, Step(r) PROVE Gated(q)'
  BY <1>1, GatedStep, GatedOther DEF GateOK
<1>2. CASE Tick \/ UNCHANGED vars
  BY <1>2 DEF Tick, vars, rows, GateOK, Gated, Kept, Inserts, At, Op
<1>. QED
  BY <1>1, <1>2 DEF Next

(* GateHolds (login): a password alone gives no session when the second factor  *)
(* has been on since the request came.                                          *)
THEOREM SecondFactorAsked ==
  Spec => GateHolds
<1>1. Init => GateOK
  BY DEF Init, GateOK, Gated, NoPast
<1>2. GateOK => (\A r \in Requests : Commit(r) /\ Op(r) = "login" =>
        before[r].gated \notin {row.id} \ {None})
  BY DEF GateOK, Gated, Commit
<1>. QED
  BY <1>1, <1>2, InitBase, BaseStep, GateKept, PTL DEF Spec, GateHolds

(* OnlyDisableTurnsOff (disable): no commit but a disable's turns two-factor    *)
(* authentication off.                                                          *)
THEOREM OnlyDisableDisables ==
  Spec => OnlyDisableTurnsOff
<1>1. ASSUME Base, [Next]_vars, row.enabled, ~row'.enabled
      PROVE  \E r \in Requests : Op(r) = "disable" /\ Commit(r)
  <2>1. row' # row
    BY <1>1
  <2>2. PICK r \in Requests : Commit(r)
    BY <1>1, <2>1
    DEF Next, Step, vars, rows, Tick, Begin, Gate, LoadRecord, SetupInsert, SetupOverwrite,
        Enable, CheckOtp, MarkUsed, CountUnused, DeleteScan, DeleteRows, InsertCodes,
        ListUnused, UseCode, Reread, DeleteRow, Abort, Reject
  <2>3. txn[r].write = "delete"
    BY <1>1, <2>2
    DEF Commit, Written, Base, Typed, TypeOK, RowWrite, Row, NoRow, Transaction
  <2>. QED
    BY <1>1, <2>2, <2>3 DEF Base, Control, InHand
<1>2. Base /\ [Next]_vars => (row.enabled /\ ~row'.enabled =>
        \E r \in Requests : Op(r) = "disable" /\ Commit(r))
  BY <1>1
<1>. QED
  BY <1>2, InitBase, BaseStep, PTL DEF Spec, OnlyDisableTurnsOff
===============================================================================
