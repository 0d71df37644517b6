----------------------------- MODULE EmailAccount -----------------------------
(* Registration, and the tokens that are mailed to verify an address, to reset a *)
(* password and to change the address.                                           *)
EXTENDS AccountRows

EmailSteps == {"exists", "insert", "user", "scan", "sweep", "mail",
               "consume", "burn", "load", "write", "commit"}

PurposeOf(o) == CASE o \in {"register", "resend", "verify"} -> "verify"
                  [] o \in {"forgot", "reset"} -> "reset"
                  [] o \in {"change", "confirm"} -> "change"

BeginEmail(r, o) ==
  /\ At(r, "idle") /\ o \in load.ops \cap EmailOps
  /\ req' = [req EXCEPT ![r].op = o, ![r].purpose = PurposeOf(o)]
  /\ Goto(r, CASE o = "register" -> "exists"
               [] o \in {"resend", "forgot", "change"} -> "user"
               [] OTHER -> "consume")
  /\ before' = [before EXCEPT
       ![r].spent = {t \in Tids : tokens[t].status = "used"},
       ![r].valid = {t \in Tids : tokens[t].status = "unused" /\ tokens[t].purpose = PurposeOf(o)}]
  /\ UNCHANGED <<rows, txn, ghosts>>

(* register: the address looks free; the password is hashed, the role read.      *)
RegisterCheck(r, a) ==
  /\ At(r, "exists")
  /\ IF HasEmail(a) # {} THEN Reject(r)
     ELSE Hold(r, [req[r] EXCEPT !.address = a], "insert")

(* Who gets a token, and the address its mail will go to, even if the user has   *)
(* another one by then: resend_verification, request_password_reset,             *)
(* request_email_change.                                                         *)
ResendTo(u, a) == a = users[u].email /\ ~users[u].verified
ForgotTo(u, a) == a = users[u].email
ChangeTo(u, a) == HasEmail(a) = {}

(* They end without a token for a wrong password or an address that is unknown.  *)
LoadUser(r, u, a) ==
  /\ At(r, "user")
  /\ \/ /\ users[u] # NoUser
        /\ CASE Op(r) = "resend" -> ResendTo(u, a)
             [] Op(r) = "forgot" -> ForgotTo(u, a)
             [] Op(r) = "change" -> ChangeTo(u, a)
        /\ Hold(r, [req[r] EXCEPT !.user = u, !.address = a], "scan")
     \/ Reject(r)

(* Mutant of Superseded: only the tokens nobody has used.                        *)
SupersededUsed(r) ==
  {t \in Tids : tokens[t].status = "used" /\ tokens[t].user = req[r].user
                /\ tokens[t].purpose = req[r].purpose}

Superseded(r) ==
  {t \in Tids : Live(t) /\ tokens[t].user = req[r].user /\ tokens[t].purpose = req[r].purpose}

(* _issue: the DELETE sees what is committed when it starts ...                   *)
IssueScan(r) ==
  /\ At(r, "scan")
  /\ Hold(r, [req[r] EXCEPT !.doomed = Superseded(r)], "sweep")

(* ... and waits for rows that are locked. The INSERT meets nobody.              *)
IssueToken(r, t) ==
  /\ At(r, "sweep")
  /\ TokensFree(r, req[r].doomed) /\ FreshToken(t)
  /\ Write(r, [txn[r] EXCEPT !.dropped = {d \in req[r].doomed : Live(d)}, !.issued = t], "mail")

(* The background task, after the response and before the commit.                *)
Mail(r) ==
  /\ At(r, "mail")
  /\ mailed' = [mailed EXCEPT ![txn[r].issued] = req[r].address]
  /\ Goto(r, "commit")
  /\ UNCHANGED <<rows, req, txn, proven, had, before>>

(* Mutant of Usable: a token is good for any purpose.                            *)
UsableForAny(r, t) == tokens[t].status = "unused"

(* Mutant of Usable: a token is good any number of times.                        *)
UsableAgain(r, t) == Live(t) /\ tokens[t].purpose = req[r].purpose

Usable(r, t) == tokens[t].status = "unused" /\ tokens[t].purpose = req[r].purpose

(* _consume: the token a mail brought is there, for this purpose and unused. One *)
(* that has expired is refused like one that is not.                             *)
Consume(r, t) ==
  /\ At(r, "consume")
  /\ mailed[t] # None
  /\ \/ Usable(r, t) /\ Hold(r, [req[r] EXCEPT !.token = t, !.user = tokens[t].user], "burn")
     \/ Reject(r)

(* Mutant of BurnToken: the UPDATE is not asked how many rows it met.            *)
BurnAnyway(r) ==
  /\ At(r, "burn")
  /\ TokensFree(r, {req[r].token})
  /\ Write(r, [txn[r] EXCEPT !.used = req[r].token], "load")

(* UPDATE used_at by id: another request may have used the token meanwhile; when *)
(* it has been deleted SQLAlchemy raises.                                        *)
BurnToken(r) ==
  /\ At(r, "burn")
  /\ TokensFree(r, {req[r].token})
  /\ IF ~Live(req[r].token) THEN Reject(r)
     ELSE Write(r, [txn[r] EXCEPT !.used = req[r].token], "load")

(* The token's user; confirm_email_change looks for the new address again.       *)
LoadOwner(r) ==
  LET a == tokens[req[r].token].email IN
  /\ At(r, "load")
  /\ IF Op(r) = "confirm" /\ (a = None \/ HasEmail(a) # {}) THEN Reject(r)
     ELSE Hold(r, [req[r] EXCEPT !.row = users[req[r].user], !.address = a], "write")

(* The columns that differ from what was loaded: verify_email, reset_password,   *)
(* confirm_email_change.                                                         *)
Verified(r) == IF req[r].row.verified THEN {} ELSE {"verified"}
NewPassword == {"password"}
NewEmail(r) == {"email"} \cup Verified(r)
Changes(r) ==
  CASE Op(r) = "verify" -> Verified(r) [] Op(r) = "reset" -> NewPassword [] OTHER -> NewEmail(r)
Values(r) == [email |-> req[r].address, verified |-> TRUE, password |-> req[r].token]

(* UPDATE of those columns, if there are any.                                    *)
WriteOwner(r) ==
  /\ At(r, "write")
  /\ IF Changes(r) = {} THEN Write(r, txn[r], "commit")
     ELSE /\ UserFree(r, req[r].user)
          /\ Op(r) = "confirm" => EmailFree(r, req[r].address)
          /\ IF Op(r) = "confirm" /\ EmailTaken(req[r].address) THEN Reject(r)
             ELSE Write(r, [txn[r] EXCEPT !.user = req[r].user, !.cols = Changes(r),
                                          !.new = Values(r)], "commit")

EmailStep(r) ==
  \/ \E o \in EmailOps : BeginEmail(r, o)
  \/ \E a \in Addresses : RegisterCheck(r, a)
  \/ \E u \in Uids, a \in Addresses : LoadUser(r, u, a)
  \/ \E t \in Tids : IssueToken(r, t) \/ Consume(r, t)
  \/ IssueScan(r) \/ Mail(r) \/ BurnToken(r) \/ LoadOwner(r) \/ WriteOwner(r)

-------------------------------------------------------------------------------
(* No two users have one address: the checks of register, confirm_email_change   *)
(* and the OAuth callback race, the unique index decides.                        *)
OneAccountPerEmail ==
  \A u, v \in Uids : users[u].email = users[v].email => u = v \/ users[u] = NoUser

(* _consume: a token is used twice only by requests that overlap.                *)
TokenReuseOverlaps ==
  \A r \in Requests : txn[r].used # None => txn[r].used \notin before[r].spent

(* A token that a later one has superseded does nothing any more, even for a     *)
(* request that had read it before.                                              *)
SupersededTokenDead ==
  \A r \in Requests : txn[r].used # None => tokens[txn[r].used].status # "deleted"

(* When a new token is committed, those of its user and purpose that were valid  *)
(* when the request came are dead.                                               *)
IssueSupersedes ==
  \A r \in Requests : At(r, "commit") /\ txn[r].issued # None =>
    \A t \in before[r].valid :
      tokens[t].user = req[r].user => t \in txn[r].dropped \/ ~Live(t)

(* A verified address is one whose mailbox or provider has vouched for this user *)
(* and this address, whatever else changes the user at the same time.            *)
VerifiedWasProven ==
  \A u \in Uids : users[u].verified => <<u, users[u].email>> \in proven

(* A password is reset with a mail to an address that was the user's own.        *)
ResetByOwnMail ==
  \A u \in Uids : users[u].password # None => <<u, mailed[users[u].password]>> \in had
===============================================================================
