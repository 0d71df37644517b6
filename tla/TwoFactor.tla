------------------------------- MODULE TwoFactor -------------------------------
(* The second factor of one user: the row of two_factor_auth, the recovery codes *)
(* and the keys of used OTPs, under requests that set it up, confirm it, log in  *)
(* with it, replace the codes and turn it off. A step runs from one await to the *)
(* next; a request's writes reach the rows when it commits. Passwords, rate      *)
(* limits and the lockout (RateLimiter) refuse requests before the first of the *)
(* steps here, and such a request changes nothing.                               *)
EXTENDS Integers, FiniteSets

CONSTANTS
  Requests,         \* the requests the server handles at one time
  Workloads,        \* bound: what clients may ask for, see Workload
  Secrets,          \* the TOTP secrets that can be minted
  Codes,            \* the recovery codes that can be generated
  CodeCount,        \* BACKUP_CODE_COUNT
  ValidWindow,      \* TOTP_VALID_WINDOW
  OtpSteps,         \* bound: the steps whose OTPs clients give
  None              \* no value

ASSUME WindowAssumption == ValidWindow \in Nat /\ OtpSteps \subseteq Nat
ASSUME CountAssumption == CodeCount \in Nat \ {0}
ASSUME NoneAssumption == None \notin Requests \cup Secrets \cup Codes

VARIABLES
  load,             \* the workload of this behaviour
  row,              \* the committed row of two_factor_auth, or NoRow
  codes,            \* the committed rows of backup_codes
  minted,           \* the secrets that have been handed out
  used,             \* Redis: the time each key of a used OTP has left
  now,              \* the time, in steps of an OTP
  pc, req, txn,     \* per request: the next step, what it holds, its writes
  proven,           \* secrets an OTP has been given for in confirm_setup
  accepted,         \* OTPs that verify_totp has let pass and that are still valid
  before            \* per request: what was committed or accepted when it came

rows == <<row, codes>>
ghosts == <<proven, accepted>>
vars == <<load, rows, minted, used, now, pc, req, txn, ghosts, before>>

OtpOps == {"login_otp", "generate", "regenerate", "disable"}
Ops == OtpOps \cup {"login", "login_code", "setup", "confirm"}

(* The operations that are called, how many secrets are minted, how long it runs. *)
Workload == [ops : SUBSET Ops, secrets : Nat, until : Nat]
ASSUME WorkloadsAssumption == Workloads \subseteq Workload

Steps == {"idle", "gate", "record", "write", "otp", "mark", "count", "scan", "sweep",
          "insert", "reread", "delete", "list", "use", "commit"}

(* A row is known by the secret it was inserted with, its id.                    *)
NoRow == [id |-> None, secret |-> None, enabled |-> FALSE]
Row == [id : Secrets, secret : Secrets, enabled : BOOLEAN] \cup {NoRow}
CodeStatus == {"fresh", "unused", "used", "deleted"}
OTP == [secret : Secrets, step : OtpSteps]
NoOtp == [secret |-> None, step |-> 0]

Request == [op : Ops \cup {"idle"}, record : Row, otp : OTP \cup {NoOtp}, codes : SUBSET Codes]
Transaction == [write : {"none", "insert", "secret", "enable", "delete"},
                secret : Secrets \cup {None}, added : SUBSET Codes,
                spent : SUBSET Codes, gone : SUBSET Codes]

NoReq == [op |-> "idle", record |-> NoRow, otp |-> NoOtp, codes |-> {}]
NoTxn == [write |-> "none", secret |-> None, added |-> {}, spent |-> {}, gone |-> {}]
NoPast == [accepted |-> {}, unused |-> {}, spent |-> {}, gated |-> None]

Init ==
  /\ load \in Workloads
  /\ row = NoRow /\ codes = [c \in Codes |-> "fresh"] /\ minted = {}
  /\ used = [o \in OTP |-> 0] /\ now = 0
  /\ pc = [r \in Requests |-> "idle"] /\ req = [r \in Requests |-> NoReq]
  /\ txn = [r \in Requests |-> NoTxn]
  /\ proven = {} /\ accepted = {} /\ before = [r \in Requests |-> NoPast]

-------------------------------------------------------------------------------
At(r, step) == pc[r] = step
Goto(r, step) == pc' = [pc EXCEPT ![r] = step]
Op(r) == req[r].op
With(status) == {c \in Codes : codes[c] = status}

(* Mutant of RowFree: user_id has no unique index, a setup does not wait.        *)
RowFreeSetup(r) == Op(r) = "setup" \/ \A q \in Requests \ {r} : txn[q].write = "none"

(* Row locks: a write holds its row until the end of the transaction, and the    *)
(* unique index on user_id makes an INSERT wait like an UPDATE.                   *)
RowFree(r) == \A q \in Requests \ {r} : txn[q].write = "none"

CodesFree(r, cs) == \A q \in Requests \ {r} : cs \cap (txn[q].spent \cup txn[q].gone) = {}

Finish(r) ==
  /\ pc' = [pc EXCEPT ![r] = "idle"]
  /\ req' = [req EXCEPT ![r] = NoReq]
  /\ txn' = [txn EXCEPT ![r] = NoTxn]
  /\ before' = [before EXCEPT ![r] = NoPast]

(* An error response rolls the transaction back.                                 *)
Reject(r) == Finish(r) /\ UNCHANGED <<rows, minted, used, ghosts>>

Fresh(s) == s \notin minted /\ Cardinality(minted) < load.secrets

Write(r, kind, s) ==
  /\ txn' = [txn EXCEPT ![r].write = kind, ![r].secret = s]
  /\ Goto(r, "commit")

Entry(o) ==
  CASE o = "login" -> "gate" [] o = "login_code" -> "list" [] OTHER -> "record"

(* The pre-auth token that goes with an OTP or a recovery code is taken as given: *)
(* it lasts ten steps and works any number of times. A request remembers what    *)
(* its operation could get wrong.                                                *)
Begin(r, o) ==
  /\ At(r, "idle") /\ o \in load.ops
  /\ Goto(r, Entry(o))
  /\ req' = [req EXCEPT ![r].op = o]
  /\ before' = [before EXCEPT ![r] =
       [accepted |-> IF o \in OtpOps THEN accepted ELSE {},
        unused |-> IF o \in {"regenerate", "disable"} THEN With("unused") ELSE {},
        spent |-> IF o = "login_code" THEN With("used") ELSE {},
        gated |-> IF o = "login" /\ row.enabled THEN row.id ELSE None]]
  /\ UNCHANGED <<rows, minted, used, now, txn, ghosts>>

-------------------------------------------------------------------------------
IsEnabled == row.enabled

(* Mutant of Gate: the second factor is not asked for.                           *)
GateOpen(r) ==
  /\ At(r, "gate")
  /\ Goto(r, "commit")
  /\ UNCHANGED <<rows, minted, used, now, req, txn, ghosts, before>>

(* The password login: a challenge, or a session at once.                        *)
Gate(r) ==
  /\ At(r, "gate")
  /\ IF IsEnabled
       THEN Finish(r)
       ELSE Goto(r, "commit") /\ UNCHANGED <<req, txn, before>>
  /\ UNCHANGED <<rows, minted, used, now, ghosts>>

Wants(o) == CASE o \in OtpOps -> IsEnabled
              [] o = "confirm" -> row # NoRow /\ ~row.enabled
              [] o = "setup" -> ~row.enabled

(* get_by_user, and the check each operation makes of what it finds.             *)
LoadRecord(r) ==
  /\ At(r, "record")
  /\ IF ~Wants(Op(r)) THEN Reject(r)
     ELSE /\ req' = [req EXCEPT ![r].record = row]
          /\ Goto(r, IF Op(r) \in OtpOps THEN "otp" ELSE "write")
          /\ UNCHANGED <<rows, minted, used, txn, ghosts, before>>
  /\ UNCHANGED now

(* start_setup without a row: INSERT. A second setup that was faster makes the   *)
(* unique index raise.                                                           *)
SetupInsert(r, s) ==
  /\ At(r, "write") /\ Op(r) = "setup" /\ req[r].record = NoRow
  /\ RowFree(r) /\ Fresh(s)
  /\ IF row # NoRow THEN Reject(r)
     ELSE /\ Write(r, "insert", s) /\ minted' = minted \cup {s}
          /\ UNCHANGED <<rows, used, req, ghosts, before>>
  /\ UNCHANGED now

(* start_setup over an abandoned one: UPDATE of the secret only, since enabled   *)
(* and verified_at keep the values that were loaded.                             *)
SetupOverwrite(r, s) ==
  /\ At(r, "write") /\ Op(r) = "setup" /\ req[r].record # NoRow
  /\ RowFree(r) /\ Fresh(s)
  /\ IF row.id # req[r].record.id THEN Reject(r)
     ELSE /\ Write(r, "secret", s) /\ minted' = minted \cup {s}
          /\ UNCHANGED <<rows, used, req, ghosts, before>>
  /\ UNCHANGED now

(* confirm_setup: an OTP of the secret that was loaded, then UPDATE of enabled.  *)
(* The OTP is not marked as used, and a wrong one changes nothing.               *)
Enable(r) ==
  /\ At(r, "write") /\ Op(r) = "confirm"
  /\ RowFree(r)
  /\ IF row.id # req[r].record.id THEN Reject(r)
     ELSE /\ Write(r, "enable", None)
          /\ proven' = proven \cup {req[r].record.secret}
          /\ UNCHANGED <<rows, minted, used, req, accepted, before>>
  /\ UNCHANGED now

-------------------------------------------------------------------------------
Abs(n) == IF n < 0 THEN -n ELSE n
InWindow(o, t) == Abs(o.step - t) <= ValidWindow

(* Mutant of KeyLife: the window is counted once.                                *)
KeyLifeShort == ValidWindow + 1

KeyLife == 2 * ValidWindow + 1

(* verify_totp: the key of the used OTP, then the OTP itself.                    *)
CheckOtp(r, o) ==
  /\ At(r, "otp")
  /\ IF used[o] > 0 \/ o.secret # req[r].record.secret \/ ~InWindow(o, now) THEN Reject(r)
     ELSE /\ req' = [req EXCEPT ![r].otp = o]
          /\ Goto(r, "mark")
          /\ UNCHANGED <<rows, minted, used, txn, ghosts, before>>
  /\ UNCHANGED now

AfterOtp(o) == CASE o = "login_otp" -> "commit" [] o = "disable" -> "reread" [] OTHER -> "count"

MarkUsed(r) ==
  /\ At(r, "mark")
  /\ used' = [used EXCEPT ![req[r].otp] = KeyLife]
  /\ accepted' = accepted \cup {req[r].otp}
  /\ Goto(r, AfterOtp(Op(r)))
  /\ UNCHANGED <<rows, minted, now, req, txn, proven, before>>

-------------------------------------------------------------------------------
(* generate_recovery_codes: a first set only when no code is left unused.        *)
CountUnused(r) ==
  /\ At(r, "count")
  /\ CASE Op(r) = "regenerate" -> Goto(r, "scan") /\ UNCHANGED <<req, txn, before>>
       [] Op(r) = "generate" /\ With("unused") = {} ->
            Goto(r, "insert") /\ UNCHANGED <<req, txn, before>>
       [] OTHER -> Finish(r)
  /\ UNCHANGED <<rows, minted, used, now, ghosts>>

(* Mutant of DeleteScan: used codes are deleted, unused ones kept.               *)
DeleteScanUsed(r) ==
  /\ At(r, "scan")
  /\ req' = [req EXCEPT ![r].codes = With("used")]
  /\ Goto(r, "sweep")
  /\ UNCHANGED <<rows, minted, used, now, txn, ghosts, before>>

(* delete_for_user: the DELETE sees the rows committed when it starts and waits  *)
(* for those that are locked.                                                    *)
DeleteScan(r) ==
  /\ At(r, "scan")
  /\ req' = [req EXCEPT ![r].codes = With("unused") \cup With("used")]
  /\ Goto(r, "sweep")
  /\ UNCHANGED <<rows, minted, used, now, txn, ghosts, before>>

DeleteRows(r) ==
  /\ At(r, "sweep")
  /\ CodesFree(r, req[r].codes)
  /\ txn' = [txn EXCEPT ![r].gone = req[r].codes \ With("deleted")]
  /\ Goto(r, IF Op(r) = "disable" THEN "commit" ELSE "insert")
  /\ UNCHANGED <<rows, minted, used, now, req, ghosts, before>>

InsertCodes(r, new) ==
  /\ At(r, "insert")
  /\ Cardinality(new) = CodeCount /\ new \subseteq With("fresh")
  /\ \A q \in Requests : txn[q].added \cap new = {}
  /\ txn' = [txn EXCEPT ![r].added = new]
  /\ Goto(r, "commit")
  /\ UNCHANGED <<rows, minted, used, now, req, ghosts, before>>

(* Mutant of ListUnused: used codes are among the candidates.                    *)
ListAll(r, c) ==
  /\ At(r, "list")
  /\ c \in With("unused") \cup With("used")
  /\ req' = [req EXCEPT ![r].codes = {c}]
  /\ Goto(r, "use")
  /\ UNCHANGED <<rows, minted, used, now, txn, ghosts, before>>

(* consume_recovery_code: the code is one of those listed as unused.             *)
ListUnused(r, c) ==
  /\ At(r, "list")
  /\ c \in With("unused")
  /\ req' = [req EXCEPT ![r].codes = {c}]
  /\ Goto(r, "use")
  /\ UNCHANGED <<rows, minted, used, now, txn, ghosts, before>>

(* UPDATE used_at WHERE id: whoever waited for the row uses the code again; when *)
(* the row is gone SQLAlchemy raises.                                            *)
UseCode(r) ==
  /\ At(r, "use")
  /\ CodesFree(r, req[r].codes)
  /\ IF req[r].codes \subseteq With("deleted") THEN Reject(r)
     ELSE /\ txn' = [txn EXCEPT ![r].spent = req[r].codes]
          /\ Goto(r, "commit")
          /\ UNCHANGED <<rows, minted, used, req, ghosts, before>>
  /\ UNCHANGED now

(* disable reads the row again, deletes it if there is one, and then the codes.  *)
Reread(r) ==
  /\ At(r, "reread")
  /\ req' = [req EXCEPT ![r].record = row]
  /\ Goto(r, IF row = NoRow THEN "scan" ELSE "delete")
  /\ UNCHANGED <<rows, minted, used, now, txn, ghosts, before>>

DeleteRow(r) ==
  /\ At(r, "delete")
  /\ RowFree(r)
  /\ txn' = [txn EXCEPT ![r].write = IF row.id = req[r].record.id THEN "delete" ELSE "none"]
  /\ Goto(r, "scan")
  /\ UNCHANGED <<rows, minted, used, now, req, ghosts, before>>

-------------------------------------------------------------------------------
(* Mutant of Written: the whole row as the request loaded it.                    *)
WrittenWhole(r) ==
  LET t == txn[r] IN
  CASE t.write = "insert" -> [id |-> t.secret, secret |-> t.secret, enabled |-> FALSE]
    [] t.write = "secret" -> [req[r].record EXCEPT !.secret = t.secret]
    [] t.write = "enable" -> [req[r].record EXCEPT !.enabled = TRUE]
    [] t.write = "delete" -> NoRow
    [] OTHER -> row

Written(r) ==
  LET t == txn[r] IN
  CASE t.write = "insert" -> [id |-> t.secret, secret |-> t.secret, enabled |-> FALSE]
    [] t.write = "secret" -> [row EXCEPT !.secret = t.secret]
    [] t.write = "enable" -> [row EXCEPT !.enabled = TRUE]
    [] t.write = "delete" -> NoRow
    [] OTHER -> row

(* The response, then the commit.                                                *)
Commit(r) ==
  /\ At(r, "commit")
  /\ row' = Written(r)
  /\ codes' = [c \in Codes |-> IF c \in txn[r].gone THEN "deleted"
                               ELSE IF c \in txn[r].spent THEN "used"
                               ELSE IF c \in txn[r].added THEN "unused" ELSE codes[c]]
  /\ Finish(r)
  /\ UNCHANGED <<minted, used, now, ghosts>>

Abort(r) == At(r, "commit") /\ Reject(r) /\ UNCHANGED now

Tick ==
  /\ now < load.until
  /\ now' = now + 1
  /\ used' = [o \in OTP |-> IF used[o] > 0 THEN used[o] - 1 ELSE 0]
  /\ accepted' = {o \in accepted : InWindow(o, now + 1)}
  /\ UNCHANGED <<rows, minted, pc, req, txn, proven, before>>

Step(r) ==
  \/ \E o \in Ops : Begin(r, o)
  \/ Gate(r) \/ LoadRecord(r) \/ Enable(r)
  \/ \E s \in Secrets : SetupInsert(r, s) \/ SetupOverwrite(r, s)
  \/ \E o \in OTP : CheckOtp(r, o)
  \/ MarkUsed(r) \/ CountUnused(r) \/ DeleteScan(r) \/ DeleteRows(r)
  \/ \E new \in SUBSET Codes : InsertCodes(r, new)
  \/ \E c \in Codes : ListUnused(r, c)
  \/ UseCode(r) \/ Reread(r) \/ DeleteRow(r) \/ Commit(r) \/ Abort(r)

Next == (Tick \/ \E r \in Requests : Step(r)) /\ UNCHANGED load
Spec == Init /\ [][Next]_vars

-------------------------------------------------------------------------------
(* Two transactions never hold the same row.                                     *)
OneHolder(r, q) ==
  /\ txn[r].write = "none" \/ txn[q].write = "none"
  /\ (txn[r].spent \cup txn[r].gone) \cap (txn[q].spent \cup txn[q].gone) = {}

(* Type invariant of the rows, the keys and the requests under way; a row lock   *)
(* has one holder.                                                               *)
TypeOK ==
  /\ row \in Row /\ codes \in [Codes -> CodeStatus] /\ minted \subseteq Secrets
  /\ used \in [OTP -> 0..KeyLife] /\ load \in Workloads /\ now \in 0..load.until
  /\ pc \in [Requests -> Steps]
  /\ req \in [Requests -> Request] /\ txn \in [Requests -> Transaction]
  /\ \A r, q \in Requests : r # q => OneHolder(r, q)
  /\ proven \subseteq Secrets /\ accepted \subseteq OTP

(* verify_totp: an OTP works twice only for requests that overlap. Once it has   *)
(* been marked, no request that comes later gets past it, for as long as the     *)
(* OTP is valid.                                                                 *)
OtpReuseOverlaps ==
  \A r \in Requests : At(r, "mark") => req[r].otp \notin before[r].accepted

(* consume_recovery_code: a request that comes after a code was used up does not *)
(* log in with it, whatever ran in between.                                      *)
CodeReuseOverlaps ==
  \A r \in Requests : Op(r) = "login_code" /\ At(r, "commit") =>
    req[r].codes \cap before[r].spent = {}

(* A password alone gives no session when the second factor has been on since    *)
(* the request came: "never issue a session before the second factor is proven". *)
GateHolds ==
  [][\A r \in Requests : Commit(r) /\ Op(r) = "login" =>
       before[r].gated \notin {row.id} \ {None}]_vars

(* When a regeneration or a disable is committed, no recovery code of before     *)
(* works any longer, even if another request was replacing or using them.        *)
OldCodesDie ==
  [][\A r \in Requests : Commit(r) /\ Op(r) \in {"regenerate", "disable"} =>
       \A c \in before[r].unused : codes'[c] # "unused"]_vars

(* Two-factor authentication goes off by disable only: a setup that found it     *)
(* off and commits after it was confirmed does not turn it off again.            *)
OnlyDisableTurnsOff ==
  [][row.enabled /\ ~row'.enabled =>
       \E r \in Requests : Op(r) = "disable" /\ Commit(r)]_vars

(* "Activate 2FA once the user proves they can generate a valid OTP": what is    *)
(* switched on is a secret somebody gave an OTP for. Not kept by the code.       *)
EnabledSecretProven == row.enabled => row.secret \in proven
===============================================================================
