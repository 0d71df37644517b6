------------------------- MODULE AccountServiceProofs -------------------------
(* What holds of AccountService for any number of requests, users, addresses,    *)
(* tokens, accounts and states, any profiles and any workload.                   *)
EXTENDS AccountService, TLAPS

Issuers == {"register", "resend", "forgot", "change"}
Confirmers == {"verify", "reset", "confirm"}
Typed == TypeOK /\ before \in [Requests -> Past]

Exists(u) == users[u] # NoUser
Issued(t) == tokens[t] # NoToken

(* A mail to a said what the user's address was, or the user has proven another  *)
(* one since.                                                                    *)
Settled(u) == <<u, users[u].email>> \in proven
Speaks(u, a) == users[u].email = a \/ Settled(u)

(* Which operation is at which step.                                             *)
OpAt(r) ==
  /\ At(r, "commit") => Op(r) # "idle"
  /\ At(r, "idle") => req[r] = NoReq /\ txn[r] = NoTxn
  /\ At(r, "exists") => Op(r) = "register"
  /\ At(r, "insert") => Op(r) \in {"register", "callback"}
  /\ At(r, "user") => Op(r) \in {"resend", "forgot", "change"}
  /\ pc[r] \in {"scan", "sweep", "mail"} => Op(r) \in Issuers
  /\ pc[r] \in {"consume", "burn", "load", "write"} => Op(r) \in Confirmers
  /\ pc[r] \in {"get", "del", "exchange", "lookup", "link"} => Op(r) = "callback"
  /\ Op(r) \in EmailOps => req[r].purpose = PurposeOf(Op(r))

(* The user a token is for and the address it goes to: of a registration, the    *)
(* user it creates, of the others a user who is there.                           *)
SignsUp(r) ==
  /\ txn[r].user = req[r].user /\ txn[r].cols = Columns
  /\ txn[r].new = [email |-> req[r].address, verified |-> FALSE, password |-> None]
WritesTo(r) ==
  /\ txn[r].user = None /\ txn[r].cols = {} /\ Exists(req[r].user)
  /\ Op(r) = "resend" => Speaks(req[r].user, req[r].address)
  /\ Op(r) = "forgot" => <<req[r].user, req[r].address>> \in had
Issues(r) == Op(r) \in Issuers =>
  /\ req[r].info = NoInfo /\ txn[r].used = None /\ txn[r].link = {}
  /\ pc[r] \in {"exists", "insert", "user"} => txn[r] = NoTxn
  /\ At(r, "insert") => req[r].address \in Addresses
  /\ pc[r] \in {"scan", "sweep", "mail", "commit"} =>
       /\ req[r].user \in Uids /\ req[r].address \in Addresses
       /\ IF Op(r) = "register" THEN SignsUp(r) ELSE WritesTo(r)
  /\ pc[r] \in {"scan", "sweep"} => txn[r].issued = None /\ txn[r].dropped = {}
  /\ pc[r] \in {"mail", "commit"} => txn[r].issued \in Tids
  /\ At(r, "commit") => mailed[txn[r].issued] = req[r].address

(* The token that is used, and what is written for it.                           *)
Holds(r) ==
  /\ req[r].token \in Tids /\ Issued(req[r].token)
  /\ req[r].user = tokens[req[r].token].user
  /\ req[r].purpose = tokens[req[r].token].purpose
  /\ req[r].token \notin before[r].spent
Writes(r) == txn[r].user # None =>
  /\ txn[r].user = req[r].user /\ txn[r].new = Values(r)
  /\ Op(r) = "verify" => txn[r].cols = {"verified"}
  /\ Op(r) = "reset" => txn[r].cols = {"password"}
  /\ Op(r) = "confirm" => "email" \in txn[r].cols /\ txn[r].cols \subseteq {"email", "verified"}
Uses(r) == Op(r) \in Confirmers =>
  /\ txn[r].issued = None /\ txn[r].dropped = {} /\ txn[r].link = {}
  /\ pc[r] \in {"consume", "burn"} => txn[r] = NoTxn
  /\ pc[r] \in {"burn", "load", "write", "commit"} => Holds(r)
  /\ pc[r] \in {"load", "write", "commit"} => txn[r].used = req[r].token
  /\ pc[r] \in {"load", "write"} => txn[r].user = None /\ txn[r].cols = {}
  /\ pc[r] \in {"write", "commit"} /\ Op(r) = "confirm" =>
       req[r].address \in Addresses /\ req[r].address = tokens[req[r].token].email
  /\ At(r, "commit") => (txn[r].user = None => txn[r].cols = {}) /\ Writes(r)

(* The state a callback has taken, whom it stands for, and what is written.      *)
Creates(r) ==
  /\ txn[r].user = req[r].user /\ txn[r].cols = Columns
  /\ txn[r].new = [email |-> req[r].info.email, verified |-> req[r].info.verified,
                   password |-> None]
  /\ req[r].info.email # None
Joins(r) ==
  /\ txn[r].user = None /\ txn[r].cols = {}
  /\ At(r, "link") /\ req[r].address # None => <<req[r].user, req[r].address>> \in proven
Calls(r) == Op(r) = "callback" =>
  /\ txn[r].used = None /\ txn[r].issued = None /\ txn[r].dropped = {}
  /\ pc[r] \in {"get", "del", "exchange", "lookup", "insert"} => txn[r] = NoTxn
  /\ pc[r] \in {"get", "del", "exchange", "lookup", "insert", "link", "commit"}
  /\ req[r].state \notin before[r].states
  /\ pc[r] # "get" => /\ req[r].mode \in {"login", "link"} /\ req[r].state \in States
                      /\ req[r].mode = "link" => req[r].user \in Uids
  /\ pc[r] \in {"lookup", "insert", "link", "commit"} => req[r].info \in Info
  /\ pc[r] \in {"lookup", "insert"} => req[r].address = req[r].info.email
  /\ At(r, "insert") => req[r].address # None /\ req[r].mode = "login"
  /\ pc[r] \in {"link", "commit"} => req[r].user \in Uids /\ (Creates(r) \/ Joins(r))
  /\ At(r, "link") => txn[r].link = {}
  /\ At(r, "commit") => \E l \in links \cup txn[r].link :
       l.account = req[r].info.account /\ l.user = req[r].user

Control(r) == OpAt(r) /\ Issues(r) /\ Uses(r) /\ Calls(r)

(* What transactions write fits the rows that are there and the other            *)
(* transactions: a column of a user who is there, or a new user; an address, an  *)
(* account and a token that nobody has.                                          *)
UserWrite(r) ==
  /\ txn[r].user # None => (txn[r].cols = Columns <=> ~Exists(txn[r].user))
  /\ ChangesEmail(r) => /\ txn[r].user # None /\ txn[r].new.email \in Addresses
                        /\ HasEmail(txn[r].new.email) = {}
TokenWrite(r) ==
  /\ txn[r].issued # None => ~Issued(txn[r].issued)
  /\ \A t \in txn[r].dropped : Issued(t)
  /\ txn[r].used # None => tokens[txn[r].used].status \in {"unused", "used"}
LinkWrite(r) ==
  /\ \A k, l \in txn[r].link : k = l
  /\ \A l \in txn[r].link : /\ LinkOf(l.account) = {}
                            /\ l.via # None => <<l.user, l.via>> \in proven
Apart(r, q) == r # q =>
  /\ txn[r].issued # None => txn[r].issued # txn[q].issued
  /\ \A k \in txn[r].link, l \in txn[q].link : k.account # l.account

(* The rows.                                                                     *)
UserOK(u) ==
  /\ Exists(u) => users[u].email \in Addresses /\ <<u, users[u].email>> \in had
  /\ users[u].verified => Settled(u)
  /\ users[u].password # None =>
       Issued(users[u].password) /\ <<u, mailed[users[u].password]>> \in had
TokenOK(t) == Issued(t) =>
  LET u == tokens[t].user IN
  /\ u \in Uids /\ Exists(u) /\ mailed[t] \in Addresses /\ tokens[t].status # "none"
  /\ tokens[t].purpose \in Purposes
  /\ tokens[t].purpose = "verify" => Speaks(u, mailed[t])
  /\ tokens[t].purpose = "reset" => <<u, mailed[t]>> \in had
  /\ tokens[t].purpose = "change" => tokens[t].email = mailed[t]
StateOK(s) ==
  /\ s \in popped => states[s].status = "gone"
  /\ states[s].status = "set" => states[s].mode \in {"login", "link"}
  /\ states[s].mode = "link" => states[s].user \in Uids

(* What was over when a request came is over, and what a later token is to       *)
(* supersede is in its DELETE or over.                                           *)
PastOK(r) ==
  /\ \A t \in before[r].spent : tokens[t].status \in {"used", "deleted"}
  /\ \A t \in before[r].valid : Issued(t) /\ tokens[t].purpose = req[r].purpose
  /\ before[r].states \subseteq popped
Supersedes(r) == \A t \in before[r].valid : tokens[t].user = req[r].user =>
  /\ At(r, "sweep") => t \in req[r].doomed \/ tokens[t].status = "deleted"
  /\ pc[r] \in {"mail", "commit"} /\ Op(r) \in Issuers =>
       t \in txn[r].dropped \/ tokens[t].status = "deleted"

RowsOK ==
  /\ \A u \in Uids : UserOK(u)
  /\ \A t \in Tids : TokenOK(t)
  /\ OneAccountPerEmail /\ AccountBelongsToOne /\ AutoLinkProven
  /\ \A s \in States : StateOK(s)
Fits(r) == UserWrite(r) /\ TokenWrite(r) /\ LinkWrite(r)

IInv ==
  /\ Typed /\ RowsOK
  /\ \A r \in Requests : Control(r) /\ Fits(r) /\ PastOK(r) /\ Supersedes(r)
  /\ \A r, q \in Requests : Apart(r, q)

-------------------------------------------------------------------------------
(* A request that ends holds nothing.                                           *)
LEMMA FinishLocal ==
  ASSUME Typed, NEW r \in Requests, Finish(r)
  PROVE  pc'[r] = "idle" /\ req'[r] = NoReq /\ txn'[r] = NoTxn /\ before'[r] = NoPast
  BY DEF Finish, Typed, TypeOK

LEMMA HoldLocal ==
  ASSUME Typed, NEW r \in Requests, NEW held, NEW step, Hold(r, held, step)
  PROVE  /\ pc'[r] = step /\ req'[r] = held /\ txn'[r] = txn[r] /\ before'[r] = before[r]
  BY DEF Hold, Goto, Typed, TypeOK

LEMMA WriteLocal ==
  ASSUME Typed, NEW r \in Requests, NEW written, NEW step, Write(r, written, step)
  PROVE  /\ pc'[r] = step /\ req'[r] = req[r] /\ txn'[r] = written /\ before'[r] = before[r]
  BY DEF Write, Goto, Typed, TypeOK

LEMMA FinishType ==
  ASSUME Typed, NEW r \in Requests, Finish(r)
  PROVE  /\ pc' \in [Requests -> Steps] /\ req' \in [Requests -> Request]
         /\ txn' \in [Requests -> Transaction] /\ before' \in [Requests -> Past]
<1>1. NoUser \in User /\ NoReq \in Request
  BY DEF NoReq, Request, NoUser, User
<1>2. NoTxn \in Transaction /\ NoPast \in Past
  BY <1>1 DEF NoTxn, Transaction, NoPast, Past
<1>. QED
  BY <1>1, <1>2 DEF Finish, Typed, TypeOK, Steps

(* A request's step leaves the other requests' steps, data and transactions     *)
(* alone.                                                                       *)
LEMMA Frame ==
  ASSUME Typed, NEW r \in Requests, NEW q \in Requests \ {r}, Step(r)
  PROVE  pc'[q] = pc[q] /\ req'[q] = req[q] /\ txn'[q] = txn[q] /\ before'[q] = before[q]
<1>1. CASE (\E o \in EmailOps : BeginEmail(r, o))
           \/ (\E a \in Addresses : RegisterCheck(r, a))
           \/ (\E u \in Uids, a \in Addresses : LoadUser(r, u, a))
  BY <1>1
  DEF BeginEmail, RegisterCheck, LoadUser, Typed, TypeOK, Goto, Hold, Write, Reject, Finish
<1>2. CASE IssueScan(r) \/ (\E t \in Tids : IssueToken(r, t)) \/ Mail(r)
  BY <1>2 DEF IssueScan, IssueToken, Mail, Typed, TypeOK, Goto, Hold, Write, Reject, Finish
<1>3. CASE (\E t \in Tids : Consume(r, t)) \/ BurnToken(r) \/ LoadOwner(r) \/ WriteOwner(r)
  BY <1>3
  DEF Consume, BurnToken, LoadOwner, WriteOwner, Typed, TypeOK, Goto, Hold, Write, Reject,
      Finish
<1>4. CASE BeginCallback(r) \/ (\E s \in States : GetState(r, s)) \/ DelState(r)
           \/ (\E p \in Profiles : Exchange(r, p))
  BY <1>4
  DEF BeginCallback, GetState, DelState, Exchange, Typed, TypeOK, Goto, Hold, Write, Reject,
      Finish
<1>5. CASE (\E l \in links : LookupLinked(r, l)) \/ LookupNew(r) \/ InsertLink(r)
           \/ (\E u \in Uids : InsertUser(r, u))
  BY <1>5
  DEF LookupLinked, LookupNew, InsertLink, InsertUser, Typed, TypeOK, Goto, Hold, Write,
      Reject, Finish
<1>6. CASE Commit(r) \/ Abort(r)
  BY <1>6 DEF Commit, Abort, Typed, TypeOK, Goto, Hold, Write, Reject, Finish
<1>. QED
  BY <1>1, <1>2, <1>3, <1>4, <1>5, <1>6 DEF Step, EmailStep, OAuthStep

(* Only a commit changes the rows, only a commit and a mail the rest.           *)
LEMMA RowsFrame ==
  ASSUME NEW r \in Requests, Step(r), ~Commit(r), ~Mail(r)
  PROVE  UNCHANGED <<users, tokens, links, mailed, proven, had>>
<1>1. CASE (\E o \in EmailOps : BeginEmail(r, o))
           \/ (\E a \in Addresses : RegisterCheck(r, a))
           \/ (\E u \in Uids, a \in Addresses : LoadUser(r, u, a))
  BY <1>1 DEF BeginEmail, RegisterCheck, LoadUser, rows, ghosts, Hold, Write, Reject
<1>2. CASE IssueScan(r) \/ (\E t \in Tids : IssueToken(r, t))
  BY <1>2 DEF IssueScan, IssueToken, rows, ghosts, Hold, Write, Reject
<1>3. CASE Mail(r)
  BY <1>3
<1>4. CASE (\E t \in Tids : Consume(r, t)) \/ BurnToken(r) \/ LoadOwner(r) \/ WriteOwner(r)
  BY <1>4 DEF Consume, BurnToken, LoadOwner, WriteOwner, rows, ghosts, Hold, Write, Reject
<1>5. CASE BeginCallback(r) \/ (\E s \in States : GetState(r, s)) \/ DelState(r)
           \/ (\E p \in Profiles : Exchange(r, p))
  BY <1>5 DEF BeginCallback, GetState, DelState, Exchange, rows, ghosts, Hold, Write, Reject
<1>6. CASE (\E l \in links : LookupLinked(r, l)) \/ LookupNew(r) \/ InsertLink(r)
           \/ (\E u \in Uids : InsertUser(r, u))
  BY <1>6
  DEF LookupLinked, LookupNew, InsertLink, InsertUser, rows, ghosts, Hold, Write, Reject
<1>7. CASE Abort(r)
  BY <1>7 DEF Abort, rows, ghosts, Hold, Write, Reject
<1>8. CASE Commit(r)
  BY <1>8
<1>. QED
  BY <1>1, <1>2, <1>3, <1>4, <1>5, <1>6, <1>7, <1>8 DEF Step, EmailStep, OAuthStep

LEMMA StatesFrame ==
  ASSUME NEW r \in Requests, Step(r), ~DelState(r)
  PROVE  UNCHANGED oauth
<1>1. CASE BeginCallback(r) \/ LookupNew(r) \/ InsertLink(r)
           \/ (\E s \in States : GetState(r, s))
             \/ (\E p \in Profiles : Exchange(r, p)) \/ (\E l \in links : LookupLinked(r, l))
  BY <1>1 DEF BeginCallback, LookupNew, InsertLink, GetState, Exchange, LookupLinked
<1>2. CASE UNCHANGED oauth
  BY <1>2
<1>. QED
  BY <1>1, <1>2 DEF Step, OAuthStep

LEMMA StepRows ==
  ASSUME NEW r \in Requests, Step(r)
  PROVE  \/ Finish(r)
         \/ /\ UNCHANGED <<users, tokens, links, proven, had>>
            /\ At(r, "mail") \/ UNCHANGED mailed
<1>1. Commit(r) => Finish(r)
  BY DEF Commit
<1>2. Mail(r) => At(r, "mail") /\ UNCHANGED <<users, tokens, links, proven, had>>
  BY DEF Mail, rows
<1>. QED
  BY <1>1, <1>2, RowsFrame

-------------------------------------------------------------------------------
(* What an operation does to its request, unless it ends it: one lemma per      *)
(* action, which the others use instead of the action itself.                   *)
LEMMA RegisterCheckLocal ==
  ASSUME Typed, NEW r \in Requests, NEW a \in Addresses, RegisterCheck(r, a)
  PROVE  \/ Finish(r)
         \/ /\ At(r, "exists")
            /\ a \in Addresses
            /\ pc'[r] = "insert"
            /\ txn'[r] = txn[r] /\ before'[r] = before[r]
            /\ req'[r].op = req[r].op /\ req'[r].user = req[r].user
            /\ req'[r].row = req[r].row /\ req'[r].token = req[r].token
            /\ req'[r].purpose = req[r].purpose /\ req'[r].address = a
            /\ req'[r].doomed = req[r].doomed /\ req'[r].mode = req[r].mode
            /\ req'[r].state = req[r].state /\ req'[r].info = req[r].info
<1>0. Typed /\ req[r] \in Request
  BY DEF Typed, TypeOK
<1>1. \/ Finish(r)
      \/ /\ At(r, "exists")
         /\ a \in Addresses
         /\ pc'[r] = "insert" /\ txn'[r] = txn[r] /\ before'[r] = before[r]
         /\ req'[r] = [req[r] EXCEPT !.address = a]
  BY <1>0, HoldLocal DEF RegisterCheck, Reject
<1>. QED
  BY <1>0, <1>1 DEF Request

LEMMA LoadUserLocal ==
  ASSUME Typed, NEW r \in Requests, NEW u \in Uids, NEW a \in Addresses, LoadUser(r, u, a)
  PROVE  \/ Finish(r)
         \/ /\ At(r, "user")
            /\ users[u] # NoUser
            /\ (Op(r) = "resend" => ResendTo(u, a))
            /\ (Op(r) = "forgot" => ForgotTo(u, a))
            /\ pc'[r] = "scan"
            /\ txn'[r] = txn[r] /\ before'[r] = before[r]
            /\ req'[r].op = req[r].op /\ req'[r].user = u
            /\ req'[r].row = req[r].row /\ req'[r].token = req[r].token
            /\ req'[r].purpose = req[r].purpose /\ req'[r].address = a
            /\ req'[r].doomed = req[r].doomed /\ req'[r].mode = req[r].mode
            /\ req'[r].state = req[r].state /\ req'[r].info = req[r].info
<1>0. Typed /\ req[r] \in Request
  BY DEF Typed, TypeOK
<1>1. \/ Finish(r)
      \/ /\ At(r, "user")
         /\ users[u] # NoUser
         /\ (Op(r) = "resend" => ResendTo(u, a))
         /\ (Op(r) = "forgot" => ForgotTo(u, a))
         /\ pc'[r] = "scan" /\ txn'[r] = txn[r] /\ before'[r] = before[r]
         /\ req'[r] = [req[r] EXCEPT !.user = u, !.address = a]
  BY <1>0, HoldLocal DEF LoadUser, Reject
<1>. QED
  BY <1>0, <1>1 DEF Request

LEMMA IssueScanLocal ==
  ASSUME Typed, NEW r \in Requests, IssueScan(r)
  PROVE  /\ At(r, "scan")
         /\ pc'[r] = "sweep"
         /\ txn'[r] = txn[r] /\ before'[r] = before[r]
         /\ req'[r].op = req[r].op /\ req'[r].user = req[r].user
         /\ req'[r].row = req[r].row /\ req'[r].token = req[r].token
         /\ req'[r].purpose = req[r].purpose /\ req'[r].address = req[r].address
         /\ req'[r].doomed = Superseded(r) /\ req'[r].mode = req[r].mode
         /\ req'[r].state = req[r].state /\ req'[r].info = req[r].info
<1>0. Typed /\ req[r] \in Request
  BY DEF Typed, TypeOK
<1>1. /\ At(r, "scan")
      /\ pc'[r] = "sweep" /\ txn'[r] = txn[r] /\ before'[r] = before[r]
      /\ req'[r] = [req[r] EXCEPT !.doomed = Superseded(r)]
  BY <1>0, HoldLocal DEF IssueScan
<1>. QED
  BY <1>0, <1>1 DEF Request

LEMMA IssueTokenLocal ==
  ASSUME Typed, NEW r \in Requests, NEW t \in Tids, IssueToken(r, t)
  PROVE  /\ At(r, "sweep")
         /\ TokensFree(r, req[r].doomed)
         /\ FreshToken(t)
         /\ pc'[r] = "mail"
         /\ req'[r] = req[r] /\ before'[r] = before[r]
         /\ txn'[r].user = txn[r].user /\ txn'[r].cols = txn[r].cols
         /\ txn'[r].new = txn[r].new /\ txn'[r].used = txn[r].used
         /\ txn'[r].issued = t /\ txn'[r].dropped = {d \in req[r].doomed : Live(d)}
         /\ txn'[r].link = txn[r].link
<1>0. Typed /\ txn[r] \in Transaction
  BY DEF Typed, TypeOK
<1>1. /\ At(r, "sweep")
      /\ TokensFree(r, req[r].doomed)
      /\ FreshToken(t)
      /\ pc'[r] = "mail" /\ req'[r] = req[r] /\ before'[r] = before[r]
      /\ txn'[r] = [txn[r] EXCEPT !.dropped = {d \in req[r].doomed : Live(d)}, !.issued = t]
  BY <1>0, WriteLocal DEF IssueToken
<1>. QED
  BY <1>0, <1>1 DEF Transaction

LEMMA ConsumeLocal ==
  ASSUME Typed, NEW r \in Requests, NEW t \in Tids, Consume(r, t)
  PROVE  \/ Finish(r)
         \/ /\ At(r, "consume")
            /\ Usable(r, t)
            /\ pc'[r] = "burn"
            /\ txn'[r] = txn[r] /\ before'[r] = before[r]
            /\ req'[r].op = req[r].op /\ req'[r].user = tokens[t].user
            /\ req'[r].row = req[r].row /\ req'[r].token = t
            /\ req'[r].purpose = req[r].purpose /\ req'[r].address = req[r].address
            /\ req'[r].doomed = req[r].doomed /\ req'[r].mode = req[r].mode
            /\ req'[r].state = req[r].state /\ req'[r].info = req[r].info
<1>0. Typed /\ req[r] \in Request
  BY DEF Typed, TypeOK
<1>1. \/ Finish(r)
      \/ /\ At(r, "consume")
         /\ Usable(r, t)
         /\ pc'[r] = "burn" /\ txn'[r] = txn[r] /\ before'[r] = before[r]
         /\ req'[r] = [req[r] EXCEPT !.token = t, !.user = tokens[t].user]
  BY <1>0, HoldLocal DEF Consume, Reject
<1>. QED
  BY <1>0, <1>1 DEF Request

LEMMA BurnTokenLocal ==
  ASSUME Typed, NEW r \in Requests, BurnToken(r)
  PROVE  \/ Finish(r)
         \/ /\ At(r, "burn")
            /\ TokensFree(r, {req[r].token})
            /\ Live(req[r].token)
            /\ pc'[r] = "load"
            /\ req'[r] = req[r] /\ before'[r] = before[r]
            /\ txn'[r].user = txn[r].user /\ txn'[r].cols = txn[r].cols
            /\ txn'[r].new = txn[r].new /\ txn'[r].used = req[r].token
            /\ txn'[r].issued = txn[r].issued /\ txn'[r].dropped = txn[r].dropped
            /\ txn'[r].link = txn[r].link
<1>0. Typed /\ txn[r] \in Transaction
  BY DEF Typed, TypeOK
<1>1. \/ Finish(r)
      \/ /\ At(r, "burn")
         /\ TokensFree(r, {req[r].token})
         /\ Live(req[r].token)
         /\ pc'[r] = "load" /\ req'[r] = req[r] /\ before'[r] = before[r]
         /\ txn'[r] = [txn[r] EXCEPT !.used = req[r].token]
  BY <1>0, WriteLocal DEF BurnToken, Reject
<1>. QED
  BY <1>0, <1>1 DEF Transaction

LEMMA LoadOwnerLocal ==
  ASSUME Typed, NEW r \in Requests, LoadOwner(r)
  PROVE  \/ Finish(r)
         \/ /\ At(r, "load")
            /\ (Op(r) = "confirm" => tokens[req[r].token].email # None)
            /\ pc'[r] = "write"
            /\ txn'[r] = txn[r] /\ before'[r] = before[r]
            /\ req'[r].op = req[r].op /\ req'[r].user = req[r].user
            /\ req'[r].row = users[req[r].user] /\ req'[r].token = req[r].token
            /\ req'[r].purpose = req[r].purpose
            /\ req'[r].address = tokens[req[r].token].email
            /\ req'[r].doomed = req[r].doomed /\ req'[r].mode = req[r].mode
            /\ req'[r].state = req[r].state /\ req'[r].info = req[r].info
<1>0. Typed /\ req[r] \in Request
  BY DEF Typed, TypeOK
<1>1. \/ Finish(r)
      \/ /\ At(r, "load")
         /\ (Op(r) = "confirm" => tokens[req[r].token].email # None)
         /\ pc'[r] = "write" /\ txn'[r] = txn[r] /\ before'[r] = before[r]
         /\ req'[r] = [req[r] EXCEPT !.row = users[req[r].user], !.address = tokens[req[r].token].email]
  BY <1>0, HoldLocal DEF LoadOwner, Reject
<1>. QED
  BY <1>0, <1>1 DEF Request

LEMMA GetStateLocal ==
  ASSUME Typed, NEW r \in Requests, NEW s \in States, GetState(r, s)
  PROVE  \/ Finish(r)
         \/ /\ At(r, "get")
            /\ states[s].status = "set"
            /\ pc'[r] = "del"
            /\ txn'[r] = txn[r] /\ before'[r] = before[r]
            /\ req'[r].op = req[r].op /\ req'[r].user = states[s].user
            /\ req'[r].row = req[r].row /\ req'[r].token = req[r].token
            /\ req'[r].purpose = req[r].purpose /\ req'[r].address = req[r].address
            /\ req'[r].doomed = req[r].doomed /\ req'[r].mode = states[s].mode
            /\ req'[r].state = s /\ req'[r].info = req[r].info
<1>0. Typed /\ req[r] \in Request
  BY DEF Typed, TypeOK
<1>1. \/ Finish(r)
      \/ /\ At(r, "get")
         /\ states[s].status = "set"
         /\ pc'[r] = "del" /\ txn'[r] = txn[r] /\ before'[r] = before[r]
         /\ req'[r] = [req[r] EXCEPT !.state = s, !.mode = states[s].mode, !.user = states[s].user]
  BY <1>0, HoldLocal DEF GetState, Reject
<1>. QED
  BY <1>0, <1>1 DEF Request

LEMMA DelStateLocal ==
  ASSUME Typed, NEW r \in Requests, DelState(r)
  PROVE  \/ Finish(r)
         \/ /\ At(r, "del")
            /\ pc'[r] = "exchange"
            /\ txn'[r] = txn[r] /\ before'[r] = before[r]
            /\ req'[r].op = req[r].op /\ req'[r].user = req[r].user
            /\ req'[r].row = req[r].row /\ req'[r].token = req[r].token
            /\ req'[r].purpose = req[r].purpose /\ req'[r].address = req[r].address
            /\ req'[r].doomed = req[r].doomed /\ req'[r].mode = req[r].mode
            /\ req'[r].state = req[r].state /\ req'[r].info = req[r].info
<1>0. Typed /\ req[r] \in Request
  BY DEF Typed, TypeOK
<1>1. \/ Finish(r)
      \/ /\ At(r, "del")
         /\ pc'[r] = "exchange" /\ txn'[r] = txn[r] /\ before'[r] = before[r]
         /\ req'[r] = req[r]
  BY <1>0, HoldLocal DEF DelState, Reject
<1>. QED
  BY <1>0, <1>1 DEF Request

LEMMA LookupLinkedLocal ==
  ASSUME Typed, NEW r \in Requests, NEW l \in links, LookupLinked(r, l)
  PROVE  \/ Finish(r)
         \/ /\ At(r, "lookup")
            /\ l \in LinkOf(req[r].info.account)
            /\ (req[r].mode = "link" => l.user = req[r].user)
            /\ pc'[r] = "commit"
            /\ txn'[r] = txn[r] /\ before'[r] = before[r]
            /\ req'[r].op = req[r].op
            /\ req'[r].user = (IF req[r].mode = "link" THEN req[r].user ELSE l.user)
            /\ req'[r].row = req[r].row /\ req'[r].token = req[r].token
            /\ req'[r].purpose = req[r].purpose /\ req'[r].address = req[r].address
            /\ req'[r].doomed = req[r].doomed /\ req'[r].mode = req[r].mode
            /\ req'[r].state = req[r].state /\ req'[r].info = req[r].info
<1>0. Typed /\ req[r] \in Request
  BY DEF Typed, TypeOK
<1>1. \/ Finish(r)
      \/ /\ At(r, "lookup")
         /\ l \in LinkOf(req[r].info.account)
         /\ (req[r].mode = "link" => l.user = req[r].user)
         /\ pc'[r] = "commit" /\ txn'[r] = txn[r] /\ before'[r] = before[r]
         /\ req'[r] = [req[r] EXCEPT !.user = (IF req[r].mode = "link" THEN req[r].user ELSE l.user)]
  BY <1>0, HoldLocal DEF LookupLinked, Foreign, Reject
<1>. QED
  BY <1>0, <1>1 DEF Request

LEMMA BeginEmailLocal ==
  ASSUME Typed, NEW r \in Requests, NEW o \in EmailOps, BeginEmail(r, o)
  PROVE  /\ At(r, "idle")
         /\ txn'[r] = txn[r]
         /\ (o = "register" => pc'[r] = "exists")
         /\ (o \in {"resend", "forgot", "change"} => pc'[r] = "user")
         /\ (o \in Confirmers => pc'[r] = "consume")
         /\ req'[r].op = o /\ req'[r].user = req[r].user
         /\ req'[r].row = req[r].row /\ req'[r].token = req[r].token
         /\ req'[r].purpose = PurposeOf(o) /\ req'[r].address = req[r].address
         /\ req'[r].doomed = req[r].doomed /\ req'[r].mode = req[r].mode
         /\ req'[r].state = req[r].state /\ req'[r].info = req[r].info
         /\ before'[r].spent = {t \in Tids : tokens[t].status = "used"}
         /\ before'[r].valid = {t \in Tids :
                tokens[t].status = "unused" /\ tokens[t].purpose = PurposeOf(o)}
         /\ before'[r].states = before[r].states
<1>0. Typed /\ req[r] \in Request /\ txn[r] \in Transaction /\ before[r] \in Past
  BY DEF Typed, TypeOK
<1>1. /\ At(r, "idle") /\ txn'[r] = txn[r]
      /\ req'[r] = [req[r] EXCEPT !.op = o, !.purpose = PurposeOf(o)]
      /\ before'[r] = [before[r] EXCEPT !.spent = {t \in Tids : tokens[t].status = "used"},
              !.valid = {t \in Tids : /\ tokens[t].status = "unused"
                                        /\ tokens[t].purpose = PurposeOf(o)}]
  BY DEF BeginEmail, Typed, TypeOK
<1>2. /\ o = "register" => pc'[r] = "exists"
      /\ o \in {"resend", "forgot", "change"} => pc'[r] = "user"
      /\ o \in Confirmers => pc'[r] = "consume"
  BY DEF BeginEmail, Goto, Typed, TypeOK, Confirmers
<1>. QED
  BY <1>0, <1>1, <1>2 DEF Request, Past

LEMMA BeginCallbackLocal ==
  ASSUME Typed, NEW r \in Requests, BeginCallback(r)
  PROVE  /\ At(r, "idle")
         /\ pc'[r] = "get"
         /\ txn'[r] = txn[r]
         /\ req'[r].op = "callback" /\ req'[r].user = req[r].user
         /\ req'[r].row = req[r].row /\ req'[r].token = req[r].token
         /\ req'[r].purpose = req[r].purpose /\ req'[r].address = req[r].address
         /\ req'[r].doomed = req[r].doomed /\ req'[r].mode = req[r].mode
         /\ req'[r].state = req[r].state /\ req'[r].info = req[r].info
         /\ before'[r].spent = before[r].spent
         /\ before'[r].valid = before[r].valid
         /\ before'[r].states = popped
<1>0. Typed /\ req[r] \in Request /\ txn[r] \in Transaction /\ before[r] \in Past
  BY DEF Typed, TypeOK
<1>1. /\ At(r, "idle") /\ txn'[r] = txn[r] /\ req'[r] = [req[r] EXCEPT !.op = "callback"]
      /\ before'[r] = [before[r] EXCEPT !.states = popped] /\ pc'[r] = "get"
  BY DEF BeginCallback, Goto, Typed, TypeOK
<1>. QED
  BY <1>0, <1>1 DEF Request, Past

LEMMA MailLocal ==
  ASSUME Typed, NEW r \in Requests, Mail(r)
  PROVE  /\ At(r, "mail") /\ pc'[r] = "commit" /\ req'[r] = req[r] /\ txn'[r] = txn[r]
         /\ before'[r] = before[r]
         /\ (txn[r].issued \in Tids => mailed'[txn[r].issued] = req[r].address)
         /\ \A t \in Tids : t # txn[r].issued => mailed'[t] = mailed[t]
  BY DEF Mail, Goto, Typed, TypeOK

LEMMA WriteOwnerLocal ==
  ASSUME Typed, NEW r \in Requests, WriteOwner(r)
  PROVE  \/ Finish(r)
         \/ /\ At(r, "write") /\ pc'[r] = "commit" /\ req'[r] = req[r] /\ before'[r] = before[r]
            /\ \/ Changes(r) = {} /\ txn'[r] = txn[r]
               \/ /\ Changes(r) # {} /\ UserFree(r, req[r].user)
                  /\ Op(r) = "confirm" =>
                       EmailFree(r, req[r].address) /\ HasEmail(req[r].address) = {}
                  /\ txn'[r].user = req[r].user /\ txn'[r].cols = Changes(r)
                  /\ txn'[r].new = Values(r) /\ txn'[r].used = txn[r].used
                  /\ txn'[r].issued = txn[r].issued /\ txn'[r].dropped = txn[r].dropped
                  /\ txn'[r].link = txn[r].link
<1>0. Typed /\ req[r] \in Request /\ txn[r] \in Transaction /\ before[r] \in Past
  BY DEF Typed, TypeOK
<1>1. \/ Finish(r)
      \/ /\ At(r, "write") /\ pc'[r] = "commit" /\ req'[r] = req[r] /\ before'[r] = before[r]
         /\ \/ Changes(r) = {} /\ txn'[r] = txn[r]
            \/ /\ Changes(r) # {} /\ UserFree(r, req[r].user)
               /\ Op(r) = "confirm" =>
                    EmailFree(r, req[r].address) /\ HasEmail(req[r].address) = {}
               /\ txn'[r] = [txn[r] EXCEPT !.user = req[r].user, !.cols = Changes(r),
                                           !.new = Values(r)]
  BY <1>0, WriteLocal DEF WriteOwner, Reject, EmailTaken
<1>. QED
  BY <1>0, <1>1 DEF Transaction

LEMMA ExchangeLocal ==
  ASSUME Typed, NEW r \in Requests, NEW p \in Profiles, Exchange(r, p)
  PROVE  \/ Finish(r)
         \/ /\ At(r, "exchange")
            /\ pc'[r] = "lookup"
            /\ txn'[r] = txn[r]
            /\ before'[r] = before[r]
            /\ req'[r].info \in Info
            /\ req'[r].address = req'[r].info.email
            /\ req'[r].op = req[r].op /\ req'[r].user = req[r].user
            /\ req'[r].row = req[r].row /\ req'[r].token = req[r].token
            /\ req'[r].purpose = req[r].purpose /\ req'[r].doomed = req[r].doomed
            /\ req'[r].mode = req[r].mode /\ req'[r].state = req[r].state
<1>0. Typed /\ req[r] \in Request /\ txn[r] \in Transaction /\ before[r] \in Past
  BY DEF Typed, TypeOK
<1>. DEFINE i == IF p.provider = "google" THEN GoogleInfo(p) ELSE GitHubInfo(p)
<1>1. i \in Info
  BY ProfilesAssumption DEF Profile, Info, GoogleInfo, GitHubInfo
<1>2. \/ Finish(r)
      \/ /\ At(r, "exchange") /\ pc'[r] = "lookup" /\ txn'[r] = txn[r]
         /\ before'[r] = before[r] /\ req'[r] = [req[r] EXCEPT !.info = i, !.address = i.email]
  BY <1>0, HoldLocal DEF Exchange, Reject
<1>. HIDE DEF i
<1>. QED
  BY <1>0, <1>1, <1>2 DEF Request

LEMMA InsertLinkLocal ==
  ASSUME Typed, NEW r \in Requests, InsertLink(r)
  PROVE  \/ Finish(r)
         \/ /\ At(r, "link")
            /\ AccountFree(r, req[r].info.account)
            /\ LinkOf(req[r].info.account) = {}
            /\ pc'[r] = "commit"
            /\ req'[r] = req[r]
            /\ before'[r] = before[r]
            /\ txn'[r].link = NewLink(r, req[r].user,
                                      IF txn[r].user = None THEN req[r].address ELSE None)
            /\ txn'[r].user = txn[r].user /\ txn'[r].cols = txn[r].cols
            /\ txn'[r].new = txn[r].new /\ txn'[r].used = txn[r].used
            /\ txn'[r].issued = txn[r].issued /\ txn'[r].dropped = txn[r].dropped
<1>0. Typed /\ req[r] \in Request /\ txn[r] \in Transaction /\ before[r] \in Past
  BY DEF Typed, TypeOK
<1>. DEFINE auto == IF txn[r].user = None THEN req[r].address ELSE None
<1>1. \/ Finish(r)
      \/ /\ At(r, "link") /\ AccountFree(r, req[r].info.account)
         /\ LinkOf(req[r].info.account) = {}
         /\ pc'[r] = "commit" /\ req'[r] = req[r] /\ before'[r] = before[r]
         /\ txn'[r] = [txn[r] EXCEPT !.link = NewLink(r, req[r].user, auto)]
  BY <1>0, WriteLocal DEF InsertLink, Reject, AccountTaken
<1>. QED
  BY <1>0, <1>1 DEF Transaction

LEMMA InsertUserLocal ==
  ASSUME Typed, NEW r \in Requests, NEW u \in Uids, InsertUser(r, u)
  PROVE  \/ Finish(r)
         \/ /\ At(r, "insert")
            /\ FreshUser(u)
            /\ EmailFree(r, req[r].address)
            /\ HasEmail(req[r].address) = {}
            /\ pc'[r] = AfterSignup(r)
            /\ before'[r] = before[r]
            /\ txn'[r].user = u /\ txn'[r].cols = Columns
            /\ txn'[r].new = NewUser(r) /\ txn'[r].used = txn[r].used
            /\ txn'[r].issued = txn[r].issued /\ txn'[r].dropped = txn[r].dropped
            /\ txn'[r].link = txn[r].link
            /\ req'[r].op = req[r].op /\ req'[r].user = u
            /\ req'[r].row = req[r].row /\ req'[r].token = req[r].token
            /\ req'[r].purpose = req[r].purpose /\ req'[r].address = req[r].address
            /\ req'[r].doomed = req[r].doomed /\ req'[r].mode = req[r].mode
            /\ req'[r].state = req[r].state /\ req'[r].info = req[r].info
<1>0. Typed /\ req[r] \in Request /\ txn[r] \in Transaction /\ before[r] \in Past
  BY DEF Typed, TypeOK
<1>1. \/ Finish(r)
      \/ /\ At(r, "insert") /\ FreshUser(u) /\ EmailFree(r, req[r].address)
         /\ HasEmail(req[r].address) = {}
         /\ pc'[r] = AfterSignup(r) /\ before'[r] = before[r]
         /\ txn'[r] = [txn[r] EXCEPT !.user = u, !.cols = Columns, !.new = NewUser(r)]
         /\ req'[r] = [req[r] EXCEPT !.user = u]
  BY <1>0 DEF InsertUser, Reject, EmailTaken, Goto, Typed, TypeOK
<1>. QED
  BY <1>0, <1>1 DEF Transaction, Request

(* A request that has ended is consistent with anything.                        *)
LEMMA FinishAll ==
  ASSUME Typed, NEW r \in Requests, Finish(r)
  PROVE  Control(r)' /\ Fits(r)' /\ PastOK(r)' /\ Supersedes(r)'
<1>1. pc'[r] = "idle" /\ req'[r] = NoReq /\ txn'[r] = NoTxn /\ before'[r] = NoPast
  BY FinishLocal
<1>2. Op(r)' = "idle"
  BY <1>1 DEF Op, NoReq
<1>3. Control(r)'
  BY <1>1, <1>2 DEF Control, OpAt, Issues, Uses, Calls, At, Issuers, Confirmers, EmailOps
<1>4. Fits(r)'
  BY <1>1 DEF Fits, UserWrite, TokenWrite, LinkWrite, ChangesEmail, NoTxn
<1>5. PastOK(r)' /\ Supersedes(r)'
  BY <1>1 DEF PastOK, Supersedes, NoPast
<1>. QED
  BY <1>3, <1>4, <1>5

LEMMA FinishApart ==
  ASSUME Typed, NEW r \in Requests, NEW q \in Requests \ {r}, Finish(r)
  PROVE  Apart(r, q)' /\ Apart(q, r)'
<1>1. txn'[r] = NoTxn
  BY FinishLocal
<1>2. NoTxn.issued = None /\ NoTxn.link = {}
  BY DEF NoTxn
<1>. QED
  BY <1>1, <1>2 DEF Apart

-------------------------------------------------------------------------------
(* What is not there has no address and has proven none.                        *)
LEMMA NoneThere ==
  ASSUME IInv
  PROVE  /\ \A u \in Uids : <<u, None>> \notin proven
         /\ \A u \in Uids : ~Exists(u) => users[u].email = None /\ ~Settled(u)
<1>1. proven \subseteq Uids \X Addresses /\ None \notin Addresses
  BY NoneAssumption DEF IInv, Typed, TypeOK
<1>. QED
  BY <1>1 DEF Exists, NoUser, Settled

(* LookupNew (_resolve_user): the user whose verified address the provider      *)
(* vouches for is the only one who has it, and has proven it.                   *)
LEMMA AutoLinked ==
  ASSUME IInv, NEW a, NEW u \in HasEmail(a), users[u].verified, NEW v \in HasEmail(a)
  PROVE  v = u /\ <<v, a>> \in proven
<1>1. u \in Uids /\ v \in Uids /\ users[u].email = a /\ users[v].email = a
  BY DEF HasEmail
<1>2. <<u, a>> \in proven
  BY <1>1 DEF IInv, RowsOK, UserOK, Settled
<1>3. a # None
  BY <1>1, <1>2, NoneThere
<1>4. users[v] # NoUser
  BY <1>1, <1>3 DEF NoUser
<1>5. v = u
  BY <1>1, <1>4 DEF IInv, RowsOK, OneAccountPerEmail
<1>. QED
  BY <1>2, <1>5

LEMMA LookupNewLocal ==
  ASSUME IInv, NEW r \in Requests, LookupNew(r)
  PROVE  \/ Finish(r)
         \/ /\ At(r, "lookup")
            /\ LinkOf(req[r].info.account) = {}
            /\ txn'[r] = txn[r] /\ before'[r] = before[r]
            /\ req'[r].op = req[r].op /\ req'[r].row = req[r].row
            /\ req'[r].token = req[r].token /\ req'[r].purpose = req[r].purpose
            /\ req'[r].doomed = req[r].doomed /\ req'[r].mode = req[r].mode
            /\ req'[r].state = req[r].state /\ req'[r].info = req[r].info
            /\ \/ /\ pc'[r] = "link" /\ req[r].mode = "link"
                  /\ req'[r].user = req[r].user /\ req'[r].address = None
               \/ /\ pc'[r] = "insert" /\ req[r].mode = "login" /\ req[r].info.email # None
                  /\ req'[r].user = req[r].user /\ req'[r].address = req[r].address
               \/ /\ pc'[r] = "link" /\ req'[r].user \in Uids /\ req'[r].address = req[r].address
                  /\ <<req'[r].user, req[r].info.email>> \in proven
<1>0. Typed /\ req[r] \in Request
  BY DEF IInv, Typed, TypeOK
<1>. DEFINE a == req[r].info.email
           v == CHOOSE u \in HasEmail(a) : TRUE
<1>1. \/ Finish(r)
      \/ /\ At(r, "lookup") /\ LinkOf(req[r].info.account) = {}
         /\ txn'[r] = txn[r] /\ before'[r] = before[r]
         /\ \/ /\ pc'[r] = "link" /\ req[r].mode = "link"
               /\ req'[r] = [req[r] EXCEPT !.address = None]
            \/ pc'[r] = "insert" /\ req[r].mode = "login" /\ a # None /\ req'[r] = req[r]
            \/ /\ pc'[r] = "link" /\ \E u \in HasEmail(a) : users[u].verified
               /\ req'[r] = [req[r] EXCEPT !.user = v]
  BY <1>0, HoldLocal DEF LookupNew, Reject, MayAutoLink
<1>2. ASSUME NEW u \in HasEmail(a), users[u].verified
      PROVE  v \in Uids /\ <<v, a>> \in proven
  <2>1. v \in HasEmail(a)
    BY <1>2
  <2>2. v = u /\ <<v, a>> \in proven
    BY <1>2, <2>1, AutoLinked
  <2>. QED
    BY <2>1, <2>2 DEF HasEmail
<1>. HIDE DEF v
<1>. QED
  BY <1>0, <1>1, <1>2 DEF Request

-------------------------------------------------------------------------------
(* Commit, column by column: concurrent updates of one user keep each other's.  *)
LEMMA CommitUsers ==
  ASSUME Typed, NEW r \in Requests, Commit(r), NEW u \in Uids
  PROVE  /\ u # txn[r].user => users'[u] = users[u]
         /\ u = txn[r].user => users'[u] = Updated(users[u], txn[r].cols, txn[r].new)
  BY DEF Commit, Typed, TypeOK

LEMMA CommitEmails ==
  ASSUME Typed, NEW r \in Requests, Commit(r), NEW u \in Uids
  PROVE  users'[u].email = IF u = txn[r].user /\ ChangesEmail(r) THEN txn[r].new.email
                           ELSE users[u].email
<1>1. CASE u = txn[r].user
  <2>1. users'[u] = Updated(users[u], txn[r].cols, txn[r].new)
    BY <1>1, CommitUsers
  <2>2. Updated(users[u], txn[r].cols, txn[r].new).email
          = IF "email" \in txn[r].cols THEN txn[r].new.email ELSE users[u].email
    BY DEF Updated
  <2>. QED
    BY <1>1, <2>1, <2>2 DEF ChangesEmail
<1>2. CASE u # txn[r].user
  BY <1>2, CommitUsers
<1>. QED
  BY <1>1, <1>2

LEMMA CommitColumns ==
  ASSUME Typed, NEW r \in Requests, Commit(r), NEW u \in Uids
  PROVE  /\ users'[u].verified = IF u = txn[r].user /\ "verified" \in txn[r].cols
                                  THEN txn[r].new.verified ELSE users[u].verified
         /\ users'[u].password = IF u = txn[r].user /\ "password" \in txn[r].cols
                                   THEN txn[r].new.password ELSE users[u].password
<1>1. CASE u = txn[r].user
  <2>. DEFINE x == Updated(users[u], txn[r].cols, txn[r].new)
  <2>1. users'[u] = x
    BY <1>1, CommitUsers
  <2>2. /\ x.verified = IF "verified" \in txn[r].cols THEN txn[r].new.verified ELSE users[u].verified
        /\ x.password = IF "password" \in txn[r].cols THEN txn[r].new.password ELSE users[u].password
    BY DEF Updated
  <2>. HIDE DEF x
  <2>. QED
    BY <1>1, <2>1, <2>2
<1>2. CASE u # txn[r].user
  BY <1>2, CommitUsers
<1>. QED
  BY <1>1, <1>2

(* Whose commit it is and what it writes.                                       *)
LEMMA CommitOps ==
  ASSUME IInv, NEW r \in Requests, Commit(r)
  PROVE  /\ Op(r) \in Issuers \cup Confirmers \cup {"callback"}
         /\ Op(r) \in Issuers =>
              /\ txn[r].issued \in Tids /\ mailed[txn[r].issued] = req[r].address
              /\ req[r].user \in Uids /\ req[r].address \in Addresses
              /\ IF Op(r) = "register" THEN SignsUp(r) ELSE WritesTo(r)
         /\ Op(r) \in Confirmers => Holds(r) /\ Writes(r) /\ txn[r].used = req[r].token
         /\ Op(r) = "callback" => Creates(r) \/ Joins(r)
<1>1. Control(r) /\ At(r, "commit") /\ req[r] \in Request
  BY DEF IInv, Typed, TypeOK, Commit
<1>2. Op(r) \in Issuers \cup Confirmers \cup {"callback"}
  BY <1>1 DEF Control, OpAt, Op, Request, EmailOps, Issuers, Confirmers
<1>. QED
  BY <1>1, <1>2 DEF Control, Issues, Uses, Calls, At

(* What a commit proves: the mail that brought the token reached its address.   *)
LEMMA VouchedGrows ==
  ASSUME IInv, NEW r \in Requests, Commit(r)
  PROVE  /\ proven \subseteq proven'
         /\ Op(r) \in Confirmers => <<req[r].user, mailed[req[r].token]>> \in proven'
         /\ Op(r) = "callback" /\ txn[r].user # None /\ req[r].info.verified =>
              <<txn[r].user, req[r].info.email>> \in proven'
<1>1. proven' = proven \cup Vouched(r)
  BY DEF Commit
<1>2. CASE Op(r) \in Confirmers
  <2>1. /\ txn[r].used = req[r].token /\ txn[r].used # None
        /\ req[r].user = tokens[req[r].token].user
    BY <1>2, CommitOps, NoneAssumption DEF Holds
  <2>2. Op(r) # "callback"
    BY <1>2 DEF Confirmers
  <2>. QED
    BY <1>1, <2>1, <2>2 DEF Vouched
<1>3. CASE Op(r) \notin Confirmers
  BY <1>1, <1>3 DEF Vouched
<1>. QED
  BY <1>2, <1>3

(* An address that a commit gives to a user who was there has been proven.      *)
LEMMA NewEmailProven ==
  ASSUME IInv, NEW r \in Requests, Commit(r), ChangesEmail(r)
  PROVE  ~Exists(txn[r].user) \/ <<txn[r].user, txn[r].new.email>> \in proven'
<1>1. txn[r].user # None /\ (txn[r].cols = Columns <=> ~Exists(txn[r].user))
  BY DEF IInv, Fits, UserWrite
<1>2. CASE Op(r) \in Confirmers
  <2>0. req[r].token \in Tids
    BY <1>2, CommitOps DEF Holds
  <2>a. /\ Holds(r) /\ Writes(r) /\ Op(r) \in {"verify", "reset", "confirm"}
        /\ "email" \in txn[r].cols
    BY <1>2, CommitOps DEF ChangesEmail, Confirmers
  <2>b. Op(r) # "verify" /\ Op(r) # "reset"
    BY <1>1, <2>a DEF Writes
  <2>c. Values(r).email = req[r].address
    BY DEF Values
  <2>d. txn[r].user = req[r].user /\ txn[r].new = Values(r)
    BY <1>1, <2>a DEF Writes
  <2>1. /\ Op(r) = "confirm" /\ Holds(r) /\ txn[r].user = req[r].user
        /\ txn[r].new.email = req[r].address
    BY <2>a, <2>b, <2>c, <2>d
  <2>2. /\ req[r].address = tokens[req[r].token].email
        /\ tokens[req[r].token].purpose = "change"
    BY <2>1, <1>2 DEF IInv, Control, Uses, OpAt, Commit, At, EmailOps, PurposeOf, Holds
  <2>3. tokens[req[r].token].email = mailed[req[r].token]
    BY <2>1, <2>2 DEF IInv, RowsOK, TokenOK, Holds
  <2>. QED
    BY <1>2, <2>1, <2>2, <2>3, VouchedGrows
<1>3. CASE Op(r) \in Issuers \cup {"callback"}
  BY <1>1, <1>3, CommitOps DEF SignsUp, WritesTo, Creates, Joins, ChangesEmail, Issuers
<1>. QED
  BY <1>2, <1>3, CommitOps

(* Users are not deleted, and what a mail said of a user's address stays true:  *)
(* it is the address still, or another one has been proven since.               *)
LEMMA UsersStay ==
  ASSUME IInv, NEW r \in Requests, Step(r)
  PROVE  \A u \in Uids : Exists(u) => Exists(u)'
<1>1. ASSUME Commit(r), NEW u \in Uids, Exists(u) PROVE Exists(u)'
  <2>1. users[u].email \in Addresses /\ Typed
    BY <1>1 DEF IInv, RowsOK, UserOK
  <2>2. CASE u = txn[r].user
    <3>1. users'[u].email = IF ChangesEmail(r) THEN txn[r].new.email ELSE users[u].email
      BY <1>1, <2>1, <2>2, CommitEmails
    <3>2. ChangesEmail(r) => txn[r].new.email \in Addresses
      BY DEF IInv, Fits, UserWrite
    <3>. QED
      BY <2>1, <3>1, <3>2, NoneAssumption DEF Exists, NoUser
  <2>3. CASE u # txn[r].user
    BY <1>1, <2>1, <2>3, CommitUsers DEF Exists
  <2>. QED
    BY <2>2, <2>3
<1>2. CASE ~Commit(r)
  BY <1>2, RowsFrame DEF Mail, rows, Exists
<1>. QED
  BY <1>1, <1>2

LEMMA SpeaksStays ==
  ASSUME IInv, NEW r \in Requests, Step(r)
  PROVE  \A u \in Uids, a \in Addresses : Speaks(u, a) => Speaks(u, a)'
<1>1. ASSUME Commit(r), NEW u \in Uids, NEW a \in Addresses, Speaks(u, a)
      PROVE  Speaks(u, a)'
  <2>0. Typed
    BY DEF IInv
  <2>1. CASE u = txn[r].user /\ ChangesEmail(r)
    <3>1. users'[u].email = txn[r].new.email
      BY <1>1, <2>0, <2>1, CommitEmails
    <3>2. Exists(u)
      BY <1>1, NoneThere, NoneAssumption DEF Speaks
    <3>. QED
      BY <1>1, <2>1, <3>1, <3>2, NewEmailProven DEF Speaks, Settled
  <2>2. CASE ~(u = txn[r].user /\ ChangesEmail(r))
    <3>1. users'[u].email = users[u].email
      BY <1>1, <2>0, <2>2, CommitEmails
    <3>. QED
      BY <1>1, <3>1, VouchedGrows DEF Speaks, Settled
  <2>. QED
    BY <2>1, <2>2
<1>2. CASE ~Commit(r)
  BY <1>2, RowsFrame DEF Mail, rows, Speaks, Settled
<1>. QED
  BY <1>1, <1>2

LEMMA SetsGrow ==
  ASSUME IInv, NEW r \in Requests, Step(r)
  PROVE  proven \subseteq proven' /\ had \subseteq had' /\ links \subseteq links'
<1>1. CASE Commit(r)
  BY <1>1 DEF Commit
<1>2. CASE ~Commit(r)
  BY <1>2, RowsFrame DEF Mail, rows
<1>. QED
  BY <1>1, <1>2

(* A token keeps its user, its purpose and its addresses; what is used or       *)
(* deleted is never usable again.                                               *)
LEMMA TokensStay ==
  ASSUME IInv, NEW r \in Requests, Step(r)
  PROVE  \A t \in Tids : Issued(t) => 
           /\ Issued(t)' /\ mailed'[t] = mailed[t] /\ tokens'[t].user = tokens[t].user
           /\ tokens'[t].purpose = tokens[t].purpose /\ tokens'[t].email = tokens[t].email
<1>. SUFFICES ASSUME NEW t \in Tids, Issued(t)
              PROVE  /\ Issued(t)' /\ mailed'[t] = mailed[t] /\ tokens'[t].user = tokens[t].user
                     /\ tokens'[t].purpose = tokens[t].purpose
                     /\ tokens'[t].email = tokens[t].email
  OBVIOUS
<1>0. t # txn[r].issued /\ tokens[t] \in Token /\ mailed \in [Tids -> Addresses \cup {None}]
  BY NoneAssumption DEF IInv, Typed, TypeOK, Fits, TokenWrite
<1>1. CASE Commit(r)
  <2>1. \/ tokens'[t] = [tokens[t] EXCEPT !.status = "used"]
        \/ tokens'[t] = [tokens[t] EXCEPT !.status = "deleted"]
        \/ tokens'[t] = tokens[t]
    BY <1>0, <1>1 DEF Commit
  <2>2. mailed' = mailed
    BY <1>1 DEF Commit
  <2>. QED
    BY <1>0, <2>1, <2>2 DEF Issued, NoToken, Token
<1>2. CASE Mail(r)
  BY <1>0, <1>2 DEF Mail, rows, Issued
<1>3. CASE ~Commit(r) /\ ~Mail(r)
  BY <1>3, RowsFrame DEF Issued
<1>. QED
  BY <1>1, <1>2, <1>3

LEMMA StatusStays ==
  ASSUME IInv, NEW r \in Requests, Step(r)
  PROVE  \A t \in Tids :
           /\ tokens[t].status \in {"used", "deleted"} => tokens'[t].status \in {"used", "deleted"}
           /\ tokens[t].status = "deleted" => tokens'[t].status = "deleted"
<1>. SUFFICES ASSUME NEW t \in Tids, tokens[t].status \in {"used", "deleted"}
              PROVE  /\ tokens'[t].status \in {"used", "deleted"}
                     /\ tokens[t].status = "deleted" => tokens'[t].status = "deleted"
  OBVIOUS
<1>0. /\ t # txn[r].issued /\ tokens[t] \in Token
      /\ (t = txn[r].used => tokens[t].status \in {"unused", "used"})
  BY NoneAssumption DEF IInv, Typed, TypeOK, Fits, TokenWrite, Issued, NoToken
<1>1. CASE Commit(r)
  <2>1. tokens'[t] = IF t = txn[r].used THEN [tokens[t] EXCEPT !.status = "used"]
                     ELSE IF t \in txn[r].dropped THEN [tokens[t] EXCEPT !.status = "deleted"]
                     ELSE tokens[t]
    BY <1>0, <1>1 DEF Commit
  <2>. QED
    BY <1>0, <2>1 DEF Token
<1>2. CASE ~Commit(r)
  BY <1>2, RowsFrame DEF Mail, rows
<1>. QED
  BY <1>1, <1>2

-------------------------------------------------------------------------------
(* The types of what each request holds.                                        *)
LEMMA PcType ==
  ASSUME Typed, NEW r \in Requests, Step(r)
  PROVE  pc' \in [Requests -> Steps]
<1>1. CASE (\E o \in EmailOps : BeginEmail(r, o))
           \/ (\E a \in Addresses : RegisterCheck(r, a))
           \/ (\E u \in Uids, a \in Addresses : LoadUser(r, u, a))
  BY <1>1, FinishType
  DEF BeginEmail, RegisterCheck, LoadUser, Typed, TypeOK, Hold, Write, Reject, Goto, Steps,
      EmailSteps, OAuthSteps, AfterSignup
<1>2. CASE IssueScan(r) \/ (\E t \in Tids : IssueToken(r, t)) \/ Mail(r)
  BY <1>2, FinishType
  DEF IssueScan, IssueToken, Mail, Typed, TypeOK, Hold, Write, Reject, Goto, Steps,
      EmailSteps, OAuthSteps, AfterSignup
<1>3. CASE (\E t \in Tids : Consume(r, t)) \/ BurnToken(r) \/ LoadOwner(r) \/ WriteOwner(r)
  BY <1>3, FinishType
  DEF Consume, BurnToken, LoadOwner, WriteOwner, Typed, TypeOK, Hold, Write, Reject, Goto,
      Steps, EmailSteps, OAuthSteps, AfterSignup
<1>4. CASE BeginCallback(r) \/ (\E s \in States : GetState(r, s)) \/ DelState(r)
           \/ (\E p \in Profiles : Exchange(r, p))
  BY <1>4, FinishType
  DEF BeginCallback, GetState, DelState, Exchange, Typed, TypeOK, Hold, Write, Reject, Goto,
      Steps, EmailSteps, OAuthSteps, AfterSignup
<1>5. CASE (\E l \in links : LookupLinked(r, l)) \/ LookupNew(r) \/ InsertLink(r)
           \/ (\E u \in Uids : InsertUser(r, u))
  BY <1>5, FinishType
  DEF LookupLinked, LookupNew, InsertLink, InsertUser, Typed, TypeOK, Hold, Write, Reject,
      Goto, Steps, EmailSteps, OAuthSteps, AfterSignup
<1>6. CASE Commit(r) \/ Abort(r)
  BY <1>6, FinishType
  DEF Commit, Abort, Typed, TypeOK, Hold, Write, Reject, Goto, Steps, EmailSteps,
      OAuthSteps, AfterSignup
<1>. QED
  BY <1>1, <1>2, <1>3, <1>4, <1>5, <1>6 DEF Step, EmailStep, OAuthStep

LEMMA PastType ==
  ASSUME Typed, NEW r \in Requests, Step(r)
  PROVE  before' \in [Requests -> Past]
<1>1. CASE (\E a \in Addresses : RegisterCheck(r, a))
           \/ (\E u \in Uids, a \in Addresses : LoadUser(r, u, a))
  BY <1>1, FinishType
  DEF RegisterCheck, LoadUser, Typed, TypeOK, Hold, Write, Reject, Goto, Past
<1>2. ASSUME NEW o \in EmailOps, BeginEmail(r, o) PROVE before' \in [Requests -> Past]
  <2>1. before \in [Requests -> Past] /\ before[r] \in Past /\ popped \subseteq States
    BY DEF Typed, TypeOK
  <2>2. [before[r] EXCEPT !.spent = {t \in Tids : tokens[t].status = "used"},
                    !.valid = {t \in Tids : /\ tokens[t].status = "unused"
                                        /\ tokens[t].purpose = PurposeOf(o)}] \in Past
    BY <2>1 DEF Past
  <2>. QED
    BY <1>2, <2>1, <2>2 DEF BeginEmail
<1>3. CASE IssueScan(r) \/ (\E t \in Tids : IssueToken(r, t)) \/ Mail(r)
  BY <1>3, FinishType
  DEF IssueScan, IssueToken, Mail, Typed, TypeOK, Hold, Write, Reject, Goto, Past
<1>4. CASE (\E t \in Tids : Consume(r, t)) \/ BurnToken(r) \/ LoadOwner(r) \/ WriteOwner(r)
  BY <1>4, FinishType
  DEF Consume, BurnToken, LoadOwner, WriteOwner, Typed, TypeOK, Hold, Write, Reject, Goto,
      Past
<1>5. CASE (\E s \in States : GetState(r, s)) \/ DelState(r)
           \/ (\E p \in Profiles : Exchange(r, p))
  BY <1>5, FinishType
  DEF GetState, DelState, Exchange, Typed, TypeOK, Hold, Write, Reject, Goto, Past
<1>6. CASE BeginCallback(r)
  <2>1. before \in [Requests -> Past] /\ before[r] \in Past /\ popped \subseteq States
    BY DEF Typed, TypeOK
  <2>2. [before[r] EXCEPT !.states = popped] \in Past
    BY <2>1 DEF Past
  <2>. QED
    BY <1>6, <2>1, <2>2 DEF BeginCallback
<1>7. CASE (\E l \in links : LookupLinked(r, l)) \/ LookupNew(r) \/ InsertLink(r)
           \/ (\E u \in Uids : InsertUser(r, u))
  BY <1>7, FinishType
  DEF LookupLinked, LookupNew, InsertLink, InsertUser, Typed, TypeOK, Hold, Write, Reject,
      Goto, Past
<1>8. CASE Commit(r) \/ Abort(r)
  BY <1>8, FinishType DEF Commit, Abort, Typed, TypeOK, Hold, Write, Reject, Goto, Past
<1>. QED
  BY <1>1, <1>2, <1>3, <1>4, <1>5, <1>6, <1>7, <1>8 DEF Step, EmailStep, OAuthStep

LEMMA ReqType ==
  ASSUME IInv, NEW r \in Requests, Step(r)
  PROVE  req' \in [Requests -> Request]
<1>0. /\ req \in [Requests -> Request] /\ req[r] \in Request /\ users \in [Uids -> User]
      /\ tokens \in [Tids -> Token] /\ links \subseteq Link /\ states \in [States -> State]
      /\ OpAt(r) /\ Uses(r) /\ \A t \in Tids : TokenOK(t)
  BY DEF IInv, Typed, TypeOK, Control, RowsOK
<1>t. Typed
  BY DEF IInv
<1>1. ASSUME NEW o \in EmailOps, BeginEmail(r, o) PROVE req' \in [Requests -> Request]
  <2>1. PurposeOf(o) \in Purposes
    BY DEF PurposeOf, Purposes, EmailOps
  <2>2. [req[r] EXCEPT !.op = o, !.purpose = PurposeOf(o)] \in Request
    BY <1>0, <2>1 DEF Request
  <2>. QED
    BY <1>0, <1>1, <2>2, <1>t, FinishType DEF BeginEmail, Hold, Reject, Write
<1>2. ASSUME NEW a \in Addresses, RegisterCheck(r, a) PROVE req' \in [Requests -> Request]
  <2>2. [req[r] EXCEPT !.address = a] \in Request
    BY <1>0 DEF Request
  <2>. QED
    BY <1>0, <1>2, <2>2, <1>t, FinishType DEF RegisterCheck, Hold, Reject, Write
<1>3. ASSUME NEW u \in Uids, NEW a \in Addresses, LoadUser(r, u, a)
      PROVE  req' \in [Requests -> Request]
  <2>2. [req[r] EXCEPT !.user = u, !.address = a] \in Request
    BY <1>0 DEF Request
  <2>. QED
    BY <1>0, <1>3, <2>2, <1>t, FinishType DEF LoadUser, Hold, Reject, Write
<1>4. CASE (\E t \in Tids : IssueToken(r, t)) \/ Mail(r)
  BY <1>4, <1>t, FinishType, <1>0 DEF IssueToken, Mail, Hold, Write, Reject
<1>5. CASE IssueScan(r)
  <2>2. [req[r] EXCEPT !.doomed = Superseded(r)] \in Request
    BY <1>0 DEF Request, Superseded
  <2>. QED
    BY <1>0, <1>5, <2>2, <1>t, FinishType DEF IssueScan, Hold, Reject, Write
<1>6. CASE BurnToken(r) \/ WriteOwner(r)
  BY <1>6, <1>t, FinishType, <1>0 DEF BurnToken, WriteOwner, Hold, Write, Reject
<1>7. ASSUME NEW t \in Tids, Consume(r, t) PROVE req' \in [Requests -> Request]
  <2>2. [req[r] EXCEPT !.token = t, !.user = tokens[t].user] \in Request
    BY <1>0 DEF Request, Token
  <2>. QED
    BY <1>0, <1>7, <2>2, <1>t, FinishType DEF Consume, Hold, Reject, Write
<1>8. CASE LoadOwner(r)
  <2>. DEFINE a == tokens[req[r].token].email
  <2>1. CASE Reject(r)
    BY <2>1, <1>t, FinishType DEF Reject
  <2>2. CASE ~Reject(r)
    <3>1. /\ At(r, "load")
          /\ req' = [req EXCEPT ![r] = [req[r] EXCEPT !.row = users[req[r].user], !.address = a]]
      BY <1>8, <2>2 DEF LoadOwner, Hold
    <3>2. Holds(r)
      BY <3>1, <1>0 DEF At, OpAt, Uses
    <3>3. req[r].user \in Uids /\ a \in Addresses \cup {None}
      BY <3>2, <1>0 DEF Holds, TokenOK, Token
    <3>4. [req[r] EXCEPT !.row = users[req[r].user], !.address = a] \in Request
      BY <3>3, <1>0 DEF Request
    <3>. QED
      BY <3>1, <3>4, <1>0
  <2>. QED
    BY <2>1, <2>2
<1>9. CASE DelState(r)
  BY <1>9, <1>t, FinishType, <1>0 DEF DelState, Hold, Write, Reject
<1>10. CASE BeginCallback(r)
  <2>2. [req[r] EXCEPT !.op = "callback"] \in Request
    BY <1>0 DEF Request
  <2>. QED
    BY <1>0, <1>10, <2>2, <1>t, FinishType DEF BeginCallback, Hold, Reject, Write
<1>11. ASSUME NEW s \in States, GetState(r, s) PROVE req' \in [Requests -> Request]
  <2>2. [req[r] EXCEPT !.state = s, !.mode = states[s].mode, !.user = states[s].user] \in Request
    BY <1>0 DEF Request, State
  <2>. QED
    BY <1>0, <1>11, <2>2, <1>t, FinishType DEF GetState, Hold, Reject, Write
<1>12. ASSUME NEW p \in Profiles, Exchange(r, p) PROVE req' \in [Requests -> Request]
  <2>. DEFINE i == IF p.provider = "google" THEN GoogleInfo(p) ELSE GitHubInfo(p)
  <2>1. i \in Info /\ i.email \in Addresses \cup {None}
    BY ProfilesAssumption DEF Profile, Info, GoogleInfo, GitHubInfo
  <2>2. [req[r] EXCEPT !.info = i, !.address = i.email] \in Request
    BY <2>1, <1>0 DEF Request
  <2>. QED
    BY <1>0, <1>12, <2>2, <1>t, FinishType DEF Exchange, Hold, Reject
<1>13. CASE InsertLink(r)
  BY <1>13, <1>t, FinishType, <1>0 DEF InsertLink, Hold, Write, Reject
<1>14. ASSUME NEW l \in links, LookupLinked(r, l) PROVE req' \in [Requests -> Request]
  <2>1. (IF req[r].mode = "link" THEN req[r].user ELSE l.user) \in Uids \cup {None}
    BY <1>0 DEF Request, Link
  <2>2. [req[r] EXCEPT !.user = IF req[r].mode = "link" THEN @ ELSE l.user] \in Request
    BY <1>0, <2>1 DEF Request
  <2>. QED
    BY <1>0, <1>14, <2>2, <1>t, FinishType DEF LookupLinked, Hold, Reject, Write
<1>15. CASE LookupNew(r)
  <2>. DEFINE v == CHOOSE u \in HasEmail(req[r].info.email) : TRUE
  <2>1. CASE Reject(r)
    BY <2>1, <1>t, FinishType DEF Reject
  <2>2. CASE Hold(r, [req[r] EXCEPT !.address = None], "link")
    <3>1. [req[r] EXCEPT !.address = None] \in Request
      BY <1>0 DEF Request
    <3>. QED
      BY <2>2, <3>1, <1>0 DEF Hold
  <2>3. CASE Hold(r, req[r], "insert")
    BY <2>3, <1>0 DEF Hold
  <2>4. ASSUME HasEmail(req[r].info.email) # {}, Hold(r, [req[r] EXCEPT !.user = v], "link")
        PROVE  req' \in [Requests -> Request]
    <3>1. v \in Uids
      BY <2>4 DEF HasEmail
    <3>2. [req[r] EXCEPT !.user = v] \in Request
      BY <3>1, <1>0 DEF Request
    <3>. QED
      BY <2>4, <3>2, <1>0 DEF Hold
  <2>. QED
    BY <1>15, <2>1, <2>2, <2>3, <2>4 DEF LookupNew
<1>16. ASSUME NEW u \in Uids, InsertUser(r, u) PROVE req' \in [Requests -> Request]
  <2>2. [req[r] EXCEPT !.user = u] \in Request
    BY <1>0 DEF Request
  <2>. QED
    BY <1>0, <1>16, <2>2, <1>t, FinishType DEF InsertUser, Hold, Reject, Write
<1>17. CASE Commit(r) \/ Abort(r)
  BY <1>17, <1>t, FinishType, <1>0 DEF Commit, Abort, Hold, Write, Reject
<1>. QED
  BY <1>1, <1>2, <1>3, <1>4, <1>5, <1>6, <1>7, <1>8, <1>9, <1>10, <1>11, <1>12, <1>13,
     <1>14, <1>15, <1>16, <1>17
  DEF Step, EmailStep, OAuthStep

LEMMA TxnType ==
  ASSUME IInv, NEW r \in Requests, Step(r)
  PROVE  txn' \in [Requests -> Transaction]
<1>0. /\ txn \in [Requests -> Transaction] /\ txn[r] \in Transaction
      /\ req \in [Requests -> Request] /\ req[r] \in Request /\ users \in [Uids -> User]
      /\ tokens \in [Tids -> Token] /\ links \subseteq Link /\ states \in [States -> State]
      /\ OpAt(r) /\ Uses(r) /\ Calls(r) /\ \A t \in Tids : TokenOK(t)
  BY DEF IInv, Typed, TypeOK, Control, RowsOK
<1>t. Typed
  BY DEF IInv
<1>1. CASE (\E o \in EmailOps : BeginEmail(r, o))
           \/ (\E a \in Addresses : RegisterCheck(r, a))
           \/ (\E u \in Uids, a \in Addresses : LoadUser(r, u, a))
  BY <1>1, <1>t, FinishType, <1>0
  DEF BeginEmail, RegisterCheck, LoadUser, Hold, Write, Reject
<1>2. CASE IssueScan(r) \/ Mail(r)
  BY <1>2, <1>t, FinishType, <1>0 DEF IssueScan, Mail, Hold, Write, Reject
<1>3. ASSUME NEW t \in Tids, IssueToken(r, t) PROVE txn' \in [Requests -> Transaction]
  <2>1. {d \in req[r].doomed : Live(d)} \in SUBSET Tids
    BY <1>0 DEF Request
  <2>2. [txn[r] EXCEPT !.dropped = {d \in req[r].doomed : Live(d)}, !.issued = t] \in Transaction
    BY <1>0, <2>1 DEF Transaction
  <2>. QED
    BY <1>0, <1>3, <2>2, <1>t, FinishType DEF IssueToken, Hold, Reject, Write
<1>4. CASE (\E t \in Tids : Consume(r, t)) \/ LoadOwner(r)
  BY <1>4, <1>t, FinishType, <1>0 DEF Consume, LoadOwner, Hold, Write, Reject
<1>5. CASE BurnToken(r)
  <2>1. At(r, "burn") => Holds(r)
    BY <1>0 DEF At, OpAt, Uses
  <2>2. At(r, "burn") => [txn[r] EXCEPT !.used = req[r].token] \in Transaction
    BY <1>0, <2>1 DEF Holds, Transaction
  <2>. QED
    BY <1>0, <1>5, <2>2, <1>t, FinishType DEF BurnToken, Reject, Write
<1>6. CASE WriteOwner(r)
  <2>1. At(r, "write") => Holds(r)
    BY <1>0 DEF At, OpAt, Uses
  <2>2. At(r, "write") => req[r].user \in Uids /\ req[r].token \in Tids
    BY <2>1, <1>0 DEF Holds, TokenOK
  <2>3. Changes(r) \in SUBSET Columns
    BY DEF Changes, Verified, NewPassword, NewEmail, Columns
  <2>4. At(r, "write") => Values(r) \in User
    BY <2>2, <1>0 DEF Values, User, Request
  <2>5. At(r, "write") =>
          [txn[r] EXCEPT !.user = req[r].user, !.cols = Changes(r), !.new = Values(r)] \in Transaction
    BY <1>0, <2>2, <2>3, <2>4 DEF Transaction
  <2>. QED
    BY <1>0, <1>6, <2>5, <1>t, FinishType DEF WriteOwner, Reject, Write
<1>7. CASE BeginCallback(r) \/ (\E s \in States : GetState(r, s)) \/ DelState(r)
           \/ (\E p \in Profiles : Exchange(r, p))
  BY <1>7, <1>t, FinishType, <1>0
  DEF BeginCallback, GetState, DelState, Exchange, Hold, Write, Reject
<1>8. CASE (\E l \in links : LookupLinked(r, l)) \/ LookupNew(r)
  BY <1>8, <1>t, FinishType, <1>0 DEF LookupLinked, LookupNew, Hold, Write, Reject
<1>9. CASE InsertLink(r)
  <2>. DEFINE auto == IF txn[r].user = None THEN req[r].address ELSE None
  <2>1. CASE Reject(r)
    BY <2>1, <1>t, FinishType DEF Reject
  <2>2. CASE /\ Write(r, [txn[r] EXCEPT !.link = NewLink(r, req[r].user, auto)], "commit")
             /\ At(r, "link")
    <3>1. req[r].user \in Uids /\ req[r].info \in Info /\ auto \in Addresses \cup {None}
      BY <2>2, <1>0 DEF At, OpAt, Calls, Request
    <3>2. NewLink(r, req[r].user, auto) \in SUBSET Link
      BY <3>1 DEF NewLink, Link, Info
    <3>3. [txn[r] EXCEPT !.link = NewLink(r, req[r].user, auto)] \in Transaction
      BY <3>2, <1>0 DEF Transaction
    <3>. QED
      BY <2>2, <3>3, <1>0 DEF Write
  <2>. QED
    BY <1>9, <2>1, <2>2 DEF InsertLink
<1>10. ASSUME NEW u \in Uids, InsertUser(r, u) PROVE txn' \in [Requests -> Transaction]
  <2>1. At(r, "insert") => NewUser(r) \in User
    <3>1. req[r].info.verified \in BOOLEAN /\ req[r].address \in Addresses \cup {None}
      <4>1. req[r].info \in Info \cup {NoInfo} /\ req[r].address \in Addresses \cup {None}
        BY <1>0 DEF Request
      <4>2. req[r].info \in Info => req[r].info.verified \in BOOLEAN
        BY DEF Info
      <4>3. NoInfo.verified \in BOOLEAN
        BY DEF NoInfo
      <4>. QED
        BY <4>1, <4>2, <4>3
    <3>. QED
      BY <3>1 DEF NewUser, User
  <2>2. At(r, "insert") =>
          [txn[r] EXCEPT !.user = u, !.cols = Columns, !.new = NewUser(r)] \in Transaction
    BY <1>0, <2>1 DEF Transaction
  <2>. QED
    BY <1>0, <1>10, <2>2, <1>t, FinishType DEF InsertUser, Reject
<1>11. CASE Commit(r) \/ Abort(r)
  BY <1>11, <1>t, FinishType, <1>0 DEF Commit, Abort, Hold, Write, Reject
<1>. QED
  BY <1>1, <1>2, <1>3, <1>4, <1>5, <1>6, <1>7, <1>8, <1>9, <1>10, <1>11
  DEF Step, EmailStep, OAuthStep

(* The types of the rows, the states and the rest.                              *)
LEMMA CommitTypes ==
  ASSUME IInv, NEW r \in Requests, Commit(r)
  PROVE  /\ users' \in [Uids -> User] /\ tokens' \in [Tids -> Token] /\ links' \subseteq Link
         /\ proven' \subseteq Uids \X Addresses /\ had' \subseteq Uids \X Addresses
<1>0. /\ users \in [Uids -> User] /\ tokens \in [Tids -> Token] /\ links \subseteq Link
      /\ proven \subseteq Uids \X Addresses /\ had \subseteq Uids \X Addresses
      /\ req[r] \in Request /\ txn[r] \in Transaction
  BY DEF IInv, Typed, TypeOK
<1>1. users' \in [Uids -> User]
  <2>1. ASSUME NEW u \in Uids PROVE Updated(users[u], txn[r].cols, txn[r].new) \in User
    <3>1. users[u] \in User /\ txn[r].new \in User
      BY <1>0 DEF Transaction
    <3>. QED
      BY <3>1 DEF Updated, User
  <2>. QED
    BY <1>0, <2>1 DEF Commit
<1>2. tokens' \in [Tids -> Token]
  <2>1. IssuedRow(r) \in Token
    BY <1>0 DEF IssuedRow, Request, Token
  <2>2. ASSUME NEW t \in Tids
        PROVE  /\ [tokens[t] EXCEPT !.status = "used"] \in Token
               /\ [tokens[t] EXCEPT !.status = "deleted"] \in Token
    BY <1>0 DEF Token
  <2>. QED
    BY <1>0, <2>1, <2>2 DEF Commit
<1>3. links' \subseteq Link
  BY <1>0 DEF Commit, Transaction
<1>4. had' \subseteq Uids \X Addresses
  <2>1. ChangesEmail(r) => txn[r].user \in Uids /\ txn[r].new.email \in Addresses
    BY <1>0 DEF IInv, Fits, UserWrite, Transaction
  <2>. QED
    BY <1>0, <2>1 DEF Commit
<1>5. proven' \subseteq Uids \X Addresses
  <2>1. ASSUME txn[r].used # None
        PROVE  tokens[txn[r].used].user \in Uids /\ mailed[txn[r].used] \in Addresses
    <3>1. txn[r].used \in Tids /\ Issued(txn[r].used)
      BY <1>0, <2>1 DEF IInv, Fits, TokenWrite, Transaction, Issued, NoToken
    <3>. QED
      BY <3>1 DEF IInv, RowsOK, TokenOK
  <2>2. ASSUME Op(r) = "callback", txn[r].user # None
        PROVE  txn[r].user \in Uids /\ req[r].info.email \in Addresses
    <3>1. Creates(r)
      BY <2>2, CommitOps DEF Joins
    <3>2. "email" \in txn[r].cols /\ txn[r].new.email = req[r].info.email
      BY <3>1 DEF Creates, Columns
    <3>. QED
      BY <1>0, <2>2, <3>2 DEF IInv, Fits, UserWrite, ChangesEmail, Transaction
  <2>3. proven' = proven \cup Vouched(r)
    BY DEF Commit
  <2>4. Vouched(r) \subseteq Uids \X Addresses
    BY <2>1, <2>2 DEF Vouched
  <2>. QED
    BY <1>0, <2>3, <2>4
<1>. QED
  BY <1>1, <1>2, <1>3, <1>4, <1>5

LEMMA RowsType ==
  ASSUME IInv, NEW r \in Requests, Step(r)
  PROVE  /\ users' \in [Uids -> User] /\ tokens' \in [Tids -> Token] /\ links' \subseteq Link
         /\ mailed' \in [Tids -> Addresses \cup {None}]
         /\ proven' \subseteq Uids \X Addresses /\ had' \subseteq Uids \X Addresses
<1>0. /\ users \in [Uids -> User] /\ tokens \in [Tids -> Token] /\ links \subseteq Link
      /\ mailed \in [Tids -> Addresses \cup {None}]
      /\ proven \subseteq Uids \X Addresses /\ had \subseteq Uids \X Addresses
  BY DEF IInv, Typed, TypeOK
<1>1. CASE Commit(r)
  BY <1>0, <1>1, CommitTypes DEF Commit
<1>2. CASE Mail(r)
  <2>1. req[r].address \in Addresses \cup {None}
    BY DEF IInv, Typed, TypeOK, Request
  <2>. QED
    BY <1>0, <1>2, <2>1 DEF Mail, rows
<1>3. CASE ~Commit(r) /\ ~Mail(r)
  BY <1>0, <1>3, RowsFrame
<1>. QED
  BY <1>1, <1>2, <1>3

LEMMA StatesType ==
  ASSUME IInv, NEW r \in Requests, Step(r)
  PROVE  states' \in [States -> State] /\ popped' \subseteq States
<1>0. states \in [States -> State] /\ popped \subseteq States /\ OpAt(r) /\ Calls(r)
  BY DEF IInv, Typed, TypeOK, Control
<1>1. CASE DelState(r)
  <2>1. req[r].state \in States
    BY <1>0, <1>1 DEF DelState, At, OpAt, Calls
  <2>2. [states[req[r].state] EXCEPT !.status = "gone"] \in State
    BY <1>0, <2>1 DEF State
  <2>. QED
    BY <1>0, <1>1, <2>1, <2>2 DEF DelState, Deleted
<1>2. CASE ~DelState(r)
  BY <1>0, <1>2, StatesFrame DEF oauth
<1>. QED
  BY <1>1, <1>2

(* Row locks and unique indexes: who writes a row or an address has it alone.   *)
LEMMA HolderStep ==
  ASSUME IInv, NEW r \in Requests, NEW q \in Requests \ {r}, Step(r)
  PROVE  OneHolder(r, q)' /\ OneHolder(q, r)'
<1>0. /\ txn'[q] = txn[q] /\ OneHolder(r, q) /\ OneHolder(q, r)
      /\ req[r] \in Request /\ txn[r] \in Transaction /\ txn[q] \in Transaction
      /\ txn \in [Requests -> Transaction] /\ Typed /\ q \in Others(r)
  BY Frame DEF IInv, Typed, TypeOK, Others
<1>t. NoTxn.user = None /\ NoTxn.used = None /\ NoTxn.dropped = {} /\ NoTxn.cols = {}
  BY DEF NoTxn
<1>f. ASSUME Finish(r) PROVE OneHolder(r, q)' /\ OneHolder(q, r)'
  <2>1. txn'[r] = NoTxn
    BY <1>0, <1>f, FinishLocal
  <2>. QED
    BY <1>0, <1>t, <2>1 DEF OneHolder, ChangesEmail
<1>1. CASE (\E o \in EmailOps : BeginEmail(r, o))
           \/ (\E a \in Addresses : RegisterCheck(r, a))
           \/ (\E u \in Uids, a \in Addresses : LoadUser(r, u, a))
  BY <1>1, <1>0, <1>f
  DEF BeginEmail, RegisterCheck, LoadUser, Hold, Reject, OneHolder, ChangesEmail
<1>2. CASE IssueScan(r) \/ Mail(r)
  BY <1>2, <1>0, <1>f DEF IssueScan, Mail, Hold, Reject, OneHolder, ChangesEmail
<1>3. ASSUME NEW t \in Tids, IssueToken(r, t) PROVE OneHolder(r, q)' /\ OneHolder(q, r)'
  <2>1. txn'[r] = [txn[r] EXCEPT !.dropped = {d \in req[r].doomed : Live(d)}, !.issued = t]
    BY <1>0, <1>3, WriteLocal DEF IssueToken
  <2>2. /\ txn'[r].user = txn[r].user /\ txn'[r].used = txn[r].used
        /\ txn'[r].cols = txn[r].cols
        /\ txn'[r].new = txn[r].new /\ txn'[r].dropped \subseteq req[r].doomed
    BY <1>0, <2>1 DEF Transaction
  <2>3. txn[q].used \notin req[r].doomed
    BY <1>0, <1>3 DEF IssueToken, TokensFree
  <2>. QED
    BY <1>0, <2>2, <2>3 DEF OneHolder, ChangesEmail
<1>4. CASE (\E t \in Tids : Consume(r, t)) \/ LoadOwner(r)
  BY <1>4, <1>0, <1>f DEF Consume, LoadOwner, Hold, Reject, OneHolder, ChangesEmail
<1>5. CASE BurnToken(r)
  <2>1. CASE Reject(r)
    BY <1>f, <2>1 DEF Reject
  <2>2. CASE ~Reject(r)
    <3>1. txn'[r] = [txn[r] EXCEPT !.used = req[r].token] /\ TokensFree(r, {req[r].token})
      BY <1>0, <1>5, <2>2, WriteLocal DEF BurnToken
    <3>2. /\ txn'[r].user = txn[r].user /\ txn'[r].used = req[r].token
          /\ txn'[r].cols = txn[r].cols
          /\ txn'[r].new = txn[r].new /\ txn'[r].dropped = txn[r].dropped
      BY <1>0, <3>1 DEF Transaction
    <3>3. req[r].token # txn[q].used /\ req[r].token \notin txn[q].dropped
      BY <1>0, <3>1 DEF TokensFree
    <3>. QED
      BY <1>0, <3>2, <3>3 DEF OneHolder, ChangesEmail
  <2>. QED
    BY <2>1, <2>2
<1>6. CASE WriteOwner(r)
  <2>1. CASE Reject(r)
    BY <1>f, <2>1 DEF Reject
  <2>2. CASE Changes(r) = {} /\ Write(r, txn[r], "commit")
    BY <1>0, <2>2, WriteLocal DEF OneHolder, ChangesEmail
  <2>3. CASE /\ UserFree(r, req[r].user) /\ (Op(r) = "confirm" => EmailFree(r, req[r].address))
             /\ At(r, "write")
             /\ Write(r, [txn[r] EXCEPT !.user = req[r].user, !.cols = Changes(r),
                                        !.new = Values(r)], "commit")
    <3>1. txn'[r] = [txn[r] EXCEPT !.user = req[r].user, !.cols = Changes(r), !.new = Values(r)]
      BY <1>0, <2>3, WriteLocal
    <3>2. /\ txn'[r].user = req[r].user /\ txn'[r].used = txn[r].used
          /\ txn'[r].cols = Changes(r)
          /\ txn'[r].new.email = req[r].address /\ txn'[r].dropped = txn[r].dropped
      BY <1>0, <3>1 DEF Transaction, Values
    <3>3. req[r].user # txn[q].user
      BY <1>0, <2>3 DEF UserFree
    <3>4. "email" \in Changes(r) => Op(r) = "confirm"
      BY <2>3 DEF IInv, Control, OpAt, At, Confirmers, Changes, Verified, NewPassword
    <3>5. "email" \in Changes(r) /\ ChangesEmail(q) => req[r].address # txn[q].new.email
      BY <1>0, <2>3, <3>4 DEF EmailFree
    <3>. QED
      BY <1>0, <3>2, <3>3, <3>5 DEF OneHolder, ChangesEmail
  <2>. QED
    BY <1>6, <2>1, <2>2, <2>3 DEF WriteOwner
<1>7. CASE BeginCallback(r) \/ (\E s \in States : GetState(r, s)) \/ DelState(r)
           \/ (\E p \in Profiles : Exchange(r, p))
  BY <1>7, <1>0, <1>f
  DEF BeginCallback, GetState, DelState, Exchange, Hold, Reject, OneHolder, ChangesEmail
<1>8. CASE (\E l \in links : LookupLinked(r, l)) \/ LookupNew(r)
  BY <1>8, <1>0, <1>f DEF LookupLinked, LookupNew, Hold, Reject, OneHolder, ChangesEmail
<1>9. CASE InsertLink(r)
  <2>. DEFINE auto == IF txn[r].user = None THEN req[r].address ELSE None
  <2>1. CASE Reject(r)
    BY <1>f, <2>1 DEF Reject
  <2>2. CASE Write(r, [txn[r] EXCEPT !.link = NewLink(r, req[r].user, auto)], "commit")
    <3>1. txn'[r] = [txn[r] EXCEPT !.link = NewLink(r, req[r].user, auto)]
      BY <1>0, <2>2, WriteLocal
    <3>2. /\ txn'[r].user = txn[r].user /\ txn'[r].used = txn[r].used
          /\ txn'[r].cols = txn[r].cols
          /\ txn'[r].new = txn[r].new /\ txn'[r].dropped = txn[r].dropped
      BY <1>0, <3>1 DEF Transaction
    <3>. QED
      BY <1>0, <3>2 DEF OneHolder, ChangesEmail
  <2>. QED
    BY <1>9, <2>1, <2>2 DEF InsertLink
<1>10. ASSUME NEW u \in Uids, InsertUser(r, u) PROVE OneHolder(r, q)' /\ OneHolder(q, r)'
  <2>1. CASE Reject(r)
    BY <1>f, <2>1 DEF Reject
  <2>2. CASE ~Reject(r)
    <3>1. txn'[r] = [txn[r] EXCEPT !.user = u, !.cols = Columns, !.new = NewUser(r)]
      BY <1>0, <1>10, <2>2 DEF InsertUser
    <3>2. /\ txn'[r].user = u /\ txn'[r].used = txn[r].used
          /\ txn'[r].new.email = req[r].address /\ txn'[r].dropped = txn[r].dropped
      BY <1>0, <3>1 DEF Transaction, NewUser
    <3>3. u # txn[q].user
      BY <1>0, <1>10 DEF InsertUser, FreshUser, First, NewUsers
    <3>5. ChangesEmail(q) => req[r].address # txn[q].new.email
      BY <1>0, <1>10 DEF InsertUser, EmailFree
    <3>. QED
      BY <1>0, <3>2, <3>3, <3>5 DEF OneHolder, ChangesEmail
  <2>. QED
    BY <2>1, <2>2
<1>11. CASE Commit(r) \/ Abort(r)
  BY <1>11, <1>0, <1>f DEF Commit, Abort, Hold, Reject, OneHolder, ChangesEmail
<1>. QED
  BY <1>1, <1>2, <1>3, <1>4, <1>5, <1>6, <1>7, <1>8, <1>9, <1>10, <1>11
  DEF Step, EmailStep, OAuthStep

-------------------------------------------------------------------------------
(* Which operation comes to which step.                                         *)
LEMMA OpAtStep ==
  ASSUME IInv, NEW r \in Requests, Step(r)
  PROVE  OpAt(r)'
<1>0. /\ req[r] \in Request /\ txn[r] \in Transaction /\ Typed /\ Control(r)
  BY DEF IInv, Typed, TypeOK
<1>f. Finish(r) => OpAt(r)'
  BY <1>0, FinishAll DEF Control
<1>1. CASE (\E a \in Addresses : RegisterCheck(r, a))
           \/ (\E u \in Uids, a \in Addresses : LoadUser(r, u, a))
  BY <1>1, <1>0, <1>f, RegisterCheckLocal, LoadUserLocal
  DEF Control, OpAt, At, Op, EmailOps, Issuers, Confirmers
<1>2. ASSUME NEW o \in EmailOps, BeginEmail(r, o) PROVE OpAt(r)'
  BY <1>2, <1>0, <1>f, BeginEmailLocal
  DEF Control, OpAt, At, Op, EmailOps, Issuers, Confirmers
<1>3. CASE IssueScan(r) \/ (\E t \in Tids : IssueToken(r, t)) \/ Mail(r)
  BY <1>3, <1>0, <1>f, IssueScanLocal, IssueTokenLocal, MailLocal
  DEF Control, OpAt, At, Op, EmailOps, Issuers, Confirmers
<1>4. CASE (\E t \in Tids : Consume(r, t)) \/ BurnToken(r) \/ LoadOwner(r) \/ WriteOwner(r)
  BY <1>4, <1>0, <1>f, ConsumeLocal, BurnTokenLocal, LoadOwnerLocal, WriteOwnerLocal
  DEF Control, OpAt, At, Op, EmailOps, Issuers, Confirmers
<1>5. CASE BeginCallback(r) \/ (\E s \in States : GetState(r, s)) \/ DelState(r)
           \/ (\E p \in Profiles : Exchange(r, p))
  BY <1>5, <1>0, <1>f, BeginCallbackLocal, GetStateLocal, DelStateLocal, ExchangeLocal
  DEF Control, OpAt, At, Op, EmailOps, Issuers, Confirmers
<1>6. CASE (\E l \in links : LookupLinked(r, l)) \/ InsertLink(r)
  BY <1>6, <1>0, <1>f, LookupLinkedLocal, InsertLinkLocal
  DEF Control, OpAt, At, Op, EmailOps, Issuers, Confirmers
<1>7. CASE LookupNew(r)
  BY <1>7, <1>0, <1>f, LookupNewLocal
  DEF Control, OpAt, At, Op, EmailOps, Issuers, Confirmers
<1>8. ASSUME NEW u \in Uids, InsertUser(r, u) PROVE OpAt(r)'
  BY <1>8, <1>0, <1>f, InsertUserLocal
  DEF Control, OpAt, At, Op, EmailOps, Issuers, Confirmers, AfterSignup
<1>9. CASE Commit(r) \/ Abort(r)
  BY <1>9, <1>f DEF Commit, Abort, Reject
<1>. QED
  BY <1>1, <1>2, <1>3, <1>4, <1>5, <1>6, <1>7, <1>8, <1>9 DEF Step, EmailStep, OAuthStep

(* Issuing a token: a registration writes its own new user, the others write    *)
(* to a user who is there.                                                      *)
LEMMA IssuesStep ==
  ASSUME IInv, NEW r \in Requests, Step(r)
  PROVE  Issues(r)'
<1>0. /\ req[r] \in Request /\ txn[r] \in Transaction /\ Typed /\ Control(r) /\ Fits(r)
      /\ \A u \in Uids : UserOK(u)
  BY DEF IInv, Typed, TypeOK, RowsOK
<1>f. Finish(r) => Issues(r)'
  BY <1>0, FinishAll DEF Control
<1>s. \/ Finish(r)
      \/ /\ UNCHANGED <<users, tokens, links, proven, had>>
         /\ At(r, "mail") \/ UNCHANGED mailed
  BY StepRows
<1>1. ASSUME NEW o \in EmailOps, BeginEmail(r, o) PROVE Issues(r)'
  <2>1. /\ req'[r].info = NoInfo /\ txn'[r] = NoTxn
        /\ NoTxn.used = None /\ NoTxn.link = {}
    BY <1>0, <1>1, BeginEmailLocal DEF Control, OpAt, NoReq, NoTxn
  <2>2. Op(r)' \in Issuers => pc'[r] \in {"exists", "user"}
    BY <1>0, <1>1, BeginEmailLocal DEF Issuers, Op
  <2>. QED
    BY <2>1, <2>2 DEF Issues, At
<1>2. ASSUME NEW a \in Addresses, RegisterCheck(r, a) PROVE Issues(r)'
  BY <1>2, <1>0, <1>f, <1>s, RegisterCheckLocal
  DEF Issues, SignsUp, WritesTo, Speaks, Settled, Exists, At, Op, OpAt, Control, Issuers,
      Confirmers
<1>3. ASSUME NEW u \in Uids, NEW a \in Addresses, LoadUser(r, u, a) PROVE Issues(r)'
  <2>1. CASE ~Finish(r)
    <3>1. /\ At(r, "user") /\ pc'[r] = "scan" /\ req'[r].op = req[r].op
          /\ req'[r].info = req[r].info
          /\ txn'[r] = txn[r] /\ req'[r].user = u /\ req'[r].address = a /\ Exists(u)
          /\ Op(r) = "resend" => ResendTo(u, a)
          /\ Op(r) = "forgot" => ForgotTo(u, a)
      BY <1>0, <1>3, <2>1, LoadUserLocal DEF Exists
    <3>2. Op(r) \in {"resend", "forgot", "change"} /\ txn[r] = NoTxn /\ req[r].info = NoInfo
      BY <1>0, <3>1 DEF Control, OpAt, Issues, At, Issuers
    <3>3. /\ NoTxn.used = None /\ NoTxn.link = {} /\ NoTxn.user = None
          /\ NoTxn.cols = {} /\ NoTxn.issued = None /\ NoTxn.dropped = {}
      BY DEF NoTxn
    <3>4. Op(r) = "forgot" => <<u, a>> \in had
      BY <1>0, <3>1 DEF UserOK, ForgotTo
    <3>5. Op(r) = "resend" => users[u].email = a
      BY <3>1 DEF ResendTo
    <3>6. users' = users /\ proven' = proven /\ had' = had
      BY <1>s, <2>1
    <3>7. WritesTo(r)'
      BY <3>1, <3>2, <3>3, <3>4, <3>5, <3>6 DEF WritesTo, Exists, Speaks, Op
    <3>. QED
      BY <3>1, <3>2, <3>3, <3>7 DEF Issues, At, Op
  <2>. QED
    BY <1>f, <2>1
<1>4. CASE IssueScan(r)
  <2>1. CASE ~Finish(r)
    <3>1. /\ At(r, "scan") /\ pc'[r] = "sweep" /\ req'[r].op = req[r].op
          /\ req'[r].info = req[r].info
          /\ txn'[r] = txn[r] /\ req'[r].user = req[r].user
          /\ req'[r].address = req[r].address
      BY <1>0, <1>4, IssueScanLocal
    <3>2. users' = users /\ proven' = proven /\ had' = had
      BY <1>s, <2>1
    <3>3. Op(r) # "register" /\ WritesTo(r) => WritesTo(r)'
      BY <3>1, <3>2 DEF WritesTo, Exists, Speaks, Settled, Op
    <3>4. SignsUp(r) => SignsUp(r)'
      BY <3>1 DEF SignsUp
    <3>. QED
      BY <1>0, <3>1, <3>3, <3>4 DEF Control, Issues, At, Op
  <2>. QED
    BY <1>f, <2>1
<1>5. ASSUME NEW t \in Tids, IssueToken(r, t) PROVE Issues(r)'
  BY <1>5, <1>0, <1>f, <1>s, IssueTokenLocal
  DEF Issues, SignsUp, WritesTo, Speaks, Settled, Exists, At, Op, OpAt, Control, Issuers,
      Confirmers, NoTxn
<1>6. CASE Mail(r)
  BY <1>6, <1>0, <1>f, <1>s, MailLocal
  DEF Issues, SignsUp, WritesTo, Speaks, Settled, Exists, At, Op, OpAt, Control, Issuers,
      Confirmers
<1>7. CASE (\E t \in Tids : Consume(r, t)) \/ BurnToken(r) \/ LoadOwner(r)
  BY <1>7, <1>0, <1>f, <1>s, ConsumeLocal, BurnTokenLocal, LoadOwnerLocal
  DEF Issues, SignsUp, WritesTo, Speaks, Settled, Exists, At, Op, OpAt, Control, Issuers,
      Confirmers
<1>8. CASE WriteOwner(r)
  BY <1>8, <1>0, <1>f, <1>s, WriteOwnerLocal
  DEF Issues, SignsUp, WritesTo, Speaks, Settled, Exists, At, Op, OpAt, Control, Issuers,
      Confirmers
<1>9. CASE BeginCallback(r) \/ (\E s \in States : GetState(r, s)) \/ DelState(r)
           \/ (\E p \in Profiles : Exchange(r, p))
  BY <1>9, <1>0, <1>f, <1>s, BeginCallbackLocal, GetStateLocal, DelStateLocal, ExchangeLocal
  DEF Issues, SignsUp, WritesTo, Speaks, Settled, Exists, At, Op, OpAt, Control, Issuers,
      Confirmers
<1>10. CASE (\E l \in links : LookupLinked(r, l)) \/ LookupNew(r) \/ InsertLink(r)
  BY <1>10, <1>0, <1>f, <1>s, LookupLinkedLocal, LookupNewLocal, InsertLinkLocal
  DEF Issues, SignsUp, WritesTo, Speaks, Settled, Exists, At, Op, OpAt, Control, Issuers,
      Confirmers
<1>11. ASSUME NEW u \in Uids, InsertUser(r, u) PROVE Issues(r)'
  <2>1. CASE ~Finish(r) /\ Op(r) = "register"
    <3>1. /\ At(r, "insert") /\ pc'[r] = "scan" /\ req'[r].op = req[r].op
          /\ req'[r].info = req[r].info
          /\ txn'[r].user = u /\ req'[r].user = u /\ req'[r].address = req[r].address
          /\ txn'[r].cols = Columns /\ txn'[r].new = NewUser(r)
          /\ txn'[r].used = txn[r].used
          /\ txn'[r].link = txn[r].link /\ txn'[r].issued = txn[r].issued
          /\ txn'[r].dropped = txn[r].dropped
      BY <1>0, <1>11, <2>1, InsertUserLocal DEF AfterSignup
    <3>2. txn[r] = NoTxn /\ req[r].info = NoInfo /\ req[r].address \in Addresses
      BY <1>0, <2>1, <3>1 DEF Control, Issues, At, Issuers
    <3>3. /\ NoTxn.used = None /\ NoTxn.link = {} /\ NoTxn.issued = None
          /\ NoTxn.dropped = {} /\ NoInfo.verified = FALSE
      BY DEF NoTxn, NoInfo
    <3>4. NewUser(r) = [email |-> req[r].address, verified |-> FALSE, password |-> None]
      BY <3>2, <3>3 DEF NewUser
    <3>5. SignsUp(r)'
      BY <3>1, <3>4 DEF SignsUp
    <3>. QED
      BY <2>1, <3>1, <3>2, <3>3, <3>5 DEF Issues, At, Op
  <2>2. CASE ~Finish(r) /\ Op(r) # "register"
    <3>1. At(r, "insert") /\ req'[r].op = req[r].op
      BY <1>0, <1>11, <2>2, InsertUserLocal
    <3>2. req'[r].op = "callback"
      BY <1>0, <2>2, <3>1 DEF Control, OpAt, Op
    <3>. QED
      BY <3>2 DEF Issues, Op, Issuers
  <2>. QED
    BY <1>f, <2>1, <2>2
<1>12. CASE Commit(r) \/ Abort(r)
  BY <1>12, <1>f DEF Commit, Abort, Reject
<1>. QED
  BY <1>1, <1>2, <1>3, <1>4, <1>5, <1>6, <1>7, <1>8, <1>9, <1>10, <1>11, <1>12
  DEF Step, EmailStep, OAuthStep

(* Using a token: it was not used when the request came, and what is written    *)
(* is for its user.                                                             *)
LEMMA UsesStep ==
  ASSUME IInv, NEW r \in Requests, Step(r)
  PROVE  Uses(r)'
<1>0. /\ req[r] \in Request /\ txn[r] \in Transaction /\ Typed /\ Control(r) /\ Fits(r)
      /\ PastOK(r)
      /\ \A t \in Tids : TokenOK(t)
  BY DEF IInv, Typed, TypeOK, RowsOK
<1>f. Finish(r) => Uses(r)'
  BY <1>0, FinishAll DEF Control
<1>s. \/ Finish(r)
      \/ /\ UNCHANGED <<users, tokens, links, proven, had>>
         /\ At(r, "mail") \/ UNCHANGED mailed
  BY StepRows
<1>1. CASE (\E a \in Addresses : RegisterCheck(r, a))
           \/ (\E u \in Uids, a \in Addresses : LoadUser(r, u, a))
  BY <1>1, <1>0, <1>f, RegisterCheckLocal, LoadUserLocal
  DEF Control, OpAt, Uses, At, Op, Issuers, Confirmers
<1>2. ASSUME NEW o \in EmailOps, BeginEmail(r, o) PROVE Uses(r)'
  <2>1. txn'[r] = NoTxn /\ NoTxn.issued = None /\ NoTxn.dropped = {} /\ NoTxn.link = {}
    BY <1>0, <1>2, BeginEmailLocal DEF Control, OpAt, NoTxn
  <2>2. Op(r)' \in Confirmers => pc'[r] = "consume"
    BY <1>0, <1>2, BeginEmailLocal DEF Op
  <2>. QED
    BY <2>1, <2>2 DEF Uses, At
<1>3. CASE IssueScan(r) \/ (\E t \in Tids : IssueToken(r, t)) \/ Mail(r)
  BY <1>3, <1>0, <1>f, IssueScanLocal, IssueTokenLocal, MailLocal
  DEF Control, OpAt, Uses, At, Op, Issuers, Confirmers
<1>4. ASSUME NEW t \in Tids, Consume(r, t) PROVE Uses(r)'
  <2>1. CASE ~Finish(r)
    <3>n. /\ NoTxn.issued = None /\ NoTxn.dropped = {} /\ NoTxn.link = {}
          /\ NoTxn.user = None /\ NoTxn.cols = {}
      BY DEF NoTxn
    <3>1. /\ At(r, "consume") /\ pc'[r] = "burn" /\ req'[r].op = req[r].op
          /\ txn'[r] = txn[r]
          /\ req'[r].token = t /\ req'[r].user = tokens[t].user
          /\ req'[r].purpose = req[r].purpose
          /\ before'[r] = before[r] /\ tokens[t].status = "unused" /\ tokens[t].purpose = req[r].purpose
      BY <1>0, <1>4, <2>1, ConsumeLocal DEF Usable
    <3>2. tokens' = tokens
      BY <1>s, <2>1
    <3>3. Issued(t) /\ t \notin before[r].spent
      BY <1>0, <3>1 DEF PastOK, Issued, NoToken
    <3>4. Holds(r)'
      BY <3>1, <3>2, <3>3 DEF Holds, Issued
    <3>5. txn[r] = NoTxn
      BY <1>0, <3>1 DEF Control, OpAt, Uses, At
    <3>. QED
      BY <3>1, <3>4, <3>5, <3>n DEF Uses, At, Op
  <2>. QED
    BY <1>f, <2>1
<1>5. CASE BurnToken(r)
  <2>1. CASE ~Finish(r)
    <3>n. /\ NoTxn.issued = None /\ NoTxn.dropped = {} /\ NoTxn.link = {}
          /\ NoTxn.user = None /\ NoTxn.cols = {}
      BY DEF NoTxn
    <3>h. ASSUME Holds(r), tokens' = tokens, req'[r].token = req[r].token, before'[r] = before[r],
                 req'[r].user = req[r].user, req'[r].purpose = req[r].purpose
          PROVE  Holds(r)'
      BY <3>h DEF Holds, Issued
    <3>1. /\ At(r, "burn") /\ pc'[r] = "load" /\ req'[r] = req[r]
          /\ txn'[r].used = req[r].token
          /\ txn'[r].user = txn[r].user /\ txn'[r].cols = txn[r].cols
          /\ txn'[r].issued = txn[r].issued
          /\ txn'[r].dropped = txn[r].dropped /\ txn'[r].link = txn[r].link
          /\ before'[r] = before[r]
      BY <1>0, <1>5, <2>1, BurnTokenLocal
    <3>2. tokens' = tokens
      BY <1>s, <2>1
    <3>3. Holds(r) /\ txn[r] = NoTxn
      BY <1>0, <3>1 DEF Control, OpAt, Uses, At
    <3>4. Holds(r)'
      BY <3>1, <3>2, <3>3, <3>h
    <3>. QED
      BY <3>1, <3>3, <3>4, <3>n DEF Uses, At, Op
  <2>. QED
    BY <1>f, <2>1
<1>6. CASE LoadOwner(r)
  <2>1. CASE ~Finish(r)
    <3>h. ASSUME Holds(r), tokens' = tokens, req'[r].token = req[r].token, before'[r] = before[r],
                 req'[r].user = req[r].user, req'[r].purpose = req[r].purpose
          PROVE  Holds(r)'
      BY <3>h DEF Holds, Issued
    <3>1. /\ At(r, "load") /\ pc'[r] = "write" /\ req'[r].op = req[r].op /\ txn'[r] = txn[r]
          /\ req'[r].token = req[r].token /\ req'[r].user = req[r].user
          /\ req'[r].purpose = req[r].purpose
          /\ before'[r] = before[r] /\ req'[r].address = tokens[req[r].token].email
          /\ Op(r) = "confirm" => tokens[req[r].token].email # None
      BY <1>0, <1>6, <2>1, LoadOwnerLocal
    <3>2. tokens' = tokens
      BY <1>s, <2>1
    <3>3. Holds(r) /\ Op(r) \in Confirmers
      BY <1>0, <3>1 DEF Control, OpAt, Uses, At
    <3>4. Holds(r)'
      BY <3>1, <3>2, <3>3, <3>h
    <3>5. tokens[req[r].token].email \in Addresses \cup {None}
      BY <3>3 DEF Holds, IInv, Typed, TypeOK, Token
    <3>. QED
      BY <1>0, <3>1, <3>2, <3>3, <3>4, <3>5 DEF Control, Uses, At, Op
  <2>. QED
    BY <1>f, <2>1
<1>7. CASE WriteOwner(r)
  <2>1. CASE ~Finish(r)
    <3>h. ASSUME Holds(r), tokens' = tokens, req'[r].token = req[r].token, before'[r] = before[r],
                 req'[r].user = req[r].user, req'[r].purpose = req[r].purpose
          PROVE  Holds(r)'
      BY <3>h DEF Holds, Issued
    <3>1. /\ At(r, "write") /\ pc'[r] = "commit" /\ req'[r] = req[r]
          /\ before'[r] = before[r]
          /\ txn'[r].used = txn[r].used /\ txn'[r].issued = txn[r].issued
          /\ txn'[r].dropped = txn[r].dropped /\ txn'[r].link = txn[r].link
          /\ \/ txn'[r] = txn[r]
             \/ /\ txn'[r].user = req[r].user /\ txn'[r].new = Values(r)
                /\ txn'[r].cols = Changes(r) /\ Changes(r) # {}
      BY <1>0, <1>7, <2>1, WriteOwnerLocal
    <3>2. tokens' = tokens
      BY <1>s, <2>1
    <3>3. Holds(r) /\ Op(r) \in Confirmers /\ txn[r].user = None /\ txn[r].cols = {}
      BY <1>0, <3>1 DEF Control, OpAt, Uses, At
    <3>4. Holds(r)'
      BY <3>1, <3>2, <3>3, <3>h
    <3>5. req[r].user # None
      BY <1>0, <3>3, NoneAssumption DEF Holds, TokenOK
    <3>6. /\ Op(r) = "verify" => Changes(r) \subseteq {"verified"}
          /\ Op(r) = "reset" => Changes(r) = {"password"}
          /\ Op(r) = "confirm" =>
               "email" \in Changes(r) /\ Changes(r) \subseteq {"email", "verified"}
      BY <3>3 DEF Confirmers, Changes, Verified, NewPassword, NewEmail
    <3>7. Values(r)' = Values(r)
      BY <3>1 DEF Values
    <3>8. Writes(r)'
      BY <3>1, <3>3, <3>6, <3>7 DEF Writes, Op
    <3>9. txn'[r].user = None => txn'[r].cols = {}
      BY <3>1, <3>3, <3>5
    <3>. QED
      BY <1>0, <3>1, <3>2, <3>3, <3>4, <3>8, <3>9 DEF Control, Uses, At, Op
  <2>. QED
    BY <1>f, <2>1
<1>8. CASE BeginCallback(r) \/ (\E s \in States : GetState(r, s)) \/ DelState(r)
           \/ (\E p \in Profiles : Exchange(r, p))
  BY <1>8, <1>0, <1>f, BeginCallbackLocal, GetStateLocal, DelStateLocal, ExchangeLocal
  DEF Control, OpAt, Uses, At, Op, Issuers, Confirmers
<1>9. CASE (\E l \in links : LookupLinked(r, l)) \/ LookupNew(r) \/ InsertLink(r)
           \/ (\E u \in Uids : InsertUser(r, u))
  BY <1>9, <1>0, <1>f, LookupLinkedLocal, LookupNewLocal, InsertLinkLocal, InsertUserLocal
  DEF Control, OpAt, Uses, At, Op, Issuers, Confirmers
<1>10. CASE Commit(r) \/ Abort(r)
  BY <1>10, <1>f DEF Commit, Abort, Reject
<1>. QED
  BY <1>1, <1>2, <1>3, <1>4, <1>5, <1>6, <1>7, <1>8, <1>9, <1>10
  DEF Step, EmailStep, OAuthStep

(* The OAuth callback: its state was not gone when it came, and it stands for   *)
(* the user who asked, the one who has the address, or a new one.               *)
LEMMA CallsStep ==
  ASSUME IInv, NEW r \in Requests, Step(r)
  PROVE  Calls(r)'
<1>0. /\ req[r] \in Request /\ txn[r] \in Transaction /\ Typed /\ Control(r) /\ Fits(r)
      /\ PastOK(r)
      /\ links \subseteq Link /\ popped \subseteq States /\ \A s \in States : StateOK(s)
  BY DEF IInv, Typed, TypeOK, RowsOK
<1>f. Finish(r) => Calls(r)'
  BY <1>0, FinishAll DEF Control
<1>s. \/ Finish(r)
      \/ /\ UNCHANGED <<users, tokens, links, proven, had>>
         /\ At(r, "mail") \/ UNCHANGED mailed
  BY StepRows
<1>1. CASE (\E o \in EmailOps : BeginEmail(r, o))
           \/ (\E a \in Addresses : RegisterCheck(r, a))
           \/ (\E u \in Uids, a \in Addresses : LoadUser(r, u, a))
  BY <1>1, <1>0, <1>f, BeginEmailLocal, RegisterCheckLocal, LoadUserLocal
  DEF Control, OpAt, Calls, At, Op, EmailOps, Issuers, Confirmers
<1>2. CASE IssueScan(r) \/ (\E t \in Tids : IssueToken(r, t)) \/ Mail(r)
  BY <1>2, <1>0, <1>f, IssueScanLocal, IssueTokenLocal, MailLocal
  DEF Control, OpAt, Calls, At, Op, EmailOps, Issuers, Confirmers
<1>3. CASE (\E t \in Tids : Consume(r, t)) \/ BurnToken(r) \/ LoadOwner(r) \/ WriteOwner(r)
  BY <1>3, <1>0, <1>f, ConsumeLocal, BurnTokenLocal, LoadOwnerLocal, WriteOwnerLocal
  DEF Control, OpAt, Calls, At, Op, EmailOps, Issuers, Confirmers
<1>4. CASE BeginCallback(r)
  <2>1. /\ txn'[r] = NoTxn /\ NoTxn.issued = None /\ NoTxn.dropped = {} /\ NoTxn.used = None
        /\ pc'[r] = "get" /\ req'[r].state = None /\ before'[r].states = popped
        /\ None \notin popped
    BY <1>0, <1>4, BeginCallbackLocal, NoneAssumption DEF Control, OpAt, NoTxn, NoReq
  <2>. QED
    BY <2>1 DEF Calls, At
<1>5. ASSUME NEW s \in States, GetState(r, s) PROVE Calls(r)'
  <2>1. CASE ~Finish(r)
    <3>1. /\ At(r, "get") /\ pc'[r] = "del" /\ req'[r].op = req[r].op /\ txn'[r] = txn[r]
          /\ before'[r] = before[r] /\ states[s].status = "set"
          /\ req'[r].state = s /\ req'[r].mode = states[s].mode
          /\ req'[r].user = states[s].user
      BY <1>0, <1>5, <2>1, GetStateLocal
    <3>2. s \notin before[r].states
      BY <1>0, <3>1 DEF PastOK, StateOK
    <3>3. /\ states[s].mode \in {"login", "link"}
          /\ (states[s].mode = "link" => states[s].user \in Uids)
      BY <1>0, <3>1 DEF StateOK
    <3>4. Op(r) = "callback"
      BY <1>0, <3>1 DEF Control, OpAt, At
    <3>. QED
      BY <1>0, <3>1, <3>2, <3>3, <3>4 DEF Control, Calls, At, Op
  <2>. QED
    BY <1>f, <2>1
<1>6. CASE DelState(r)
  BY <1>6, <1>0, <1>f, DelStateLocal
  DEF Control, OpAt, Calls, At, Op, EmailOps, Issuers, Confirmers
<1>7. ASSUME NEW p \in Profiles, Exchange(r, p) PROVE Calls(r)'
  BY <1>7, <1>0, <1>f, ExchangeLocal
  DEF Control, OpAt, Calls, At, Op, EmailOps, Issuers, Confirmers
<1>8. ASSUME NEW l \in links, LookupLinked(r, l) PROVE Calls(r)'
  <2>1. CASE ~Finish(r)
    <3>1. /\ At(r, "lookup") /\ pc'[r] = "commit" /\ req'[r].op = req[r].op
          /\ txn'[r] = txn[r]
          /\ before'[r] = before[r] /\ l.account = req[r].info.account
          /\ req'[r].state = req[r].state /\ req'[r].mode = req[r].mode
          /\ req'[r].info = req[r].info
          /\ req'[r].user = l.user
      BY <1>0, <1>8, <2>1, LookupLinkedLocal DEF LinkOf
    <3>2. l.user \in Uids /\ l \in links
      BY <1>0 DEF Link
    <3>3. /\ NoTxn.used = None /\ NoTxn.issued = None /\ NoTxn.dropped = {}
          /\ NoTxn.user = None /\ NoTxn.cols = {} /\ NoTxn.link = {}
      BY DEF NoTxn
    <3>4. Op(r) = "callback"
      BY <1>0, <3>1 DEF Control, OpAt, At
    <3>5. txn[r] = NoTxn
      BY <1>0, <3>1, <3>4 DEF Control, Calls, At
    <3>6. Joins(r)'
      BY <3>1, <3>3, <3>5 DEF Joins, At
    <3>7. links' = links
      BY <1>s, <2>1
    <3>8. /\ l \in (links \cup txn[r].link)' /\ l.account = req'[r].info.account
          /\ l.user = req'[r].user
      BY <3>1, <3>2, <3>7
    <3>9. \E k \in (links \cup txn[r].link)' :
            k.account = req'[r].info.account /\ k.user = req'[r].user
      BY <3>8
    <3>10. /\ req[r].state \notin before[r].states /\ req[r].mode \in {"login", "link"}
           /\ req[r].state \in States
           /\ req[r].info \in Info
      BY <1>0, <3>1, <3>4 DEF Control, Calls, At
    <3>. QED
      BY <3>1, <3>2, <3>3, <3>5, <3>6, <3>9, <3>10 DEF Calls, At
  <2>. QED
    BY <1>f, <2>1
<1>9. CASE LookupNew(r)
  <2>1. CASE ~Finish(r)
    <3>1. /\ At(r, "lookup") /\ txn'[r] = txn[r] /\ before'[r] = before[r]
          /\ req'[r].op = req[r].op
          /\ req'[r].state = req[r].state /\ req'[r].mode = req[r].mode
          /\ req'[r].info = req[r].info
          /\ \/ /\ pc'[r] = "link" /\ req[r].mode = "link"
                /\ req'[r].user = req[r].user /\ req'[r].address = None
             \/ /\ pc'[r] = "insert" /\ req[r].mode = "login" /\ req[r].info.email # None
                /\ req'[r].user = req[r].user /\ req'[r].address = req[r].address
             \/ /\ pc'[r] = "link" /\ req'[r].user \in Uids /\ req'[r].address = req[r].address
                /\ <<req'[r].user, req[r].info.email>> \in proven
      BY <1>0, <1>9, <2>1, LookupNewLocal
    <3>2. Op(r) = "callback"
      BY <1>0, <3>1 DEF Control, OpAt, At
    <3>3. /\ NoTxn.used = None /\ NoTxn.issued = None /\ NoTxn.dropped = {}
          /\ NoTxn.user = None /\ NoTxn.cols = {} /\ NoTxn.link = {}
      BY DEF NoTxn
    <3>4. /\ txn[r] = NoTxn /\ req[r].state \notin before[r].states
          /\ req[r].mode \in {"login", "link"}
          /\ req[r].state \in States /\ req[r].info \in Info
          /\ req[r].address = req[r].info.email
          /\ req[r].mode = "link" => req[r].user \in Uids
      BY <1>0, <3>1, <3>2 DEF Control, Calls, At
    <3>5. proven' = proven
      BY <1>s, <2>1
    <3>6. CASE pc'[r] = "link"
      <4>1. Joins(r)'
        BY <3>1, <3>3, <3>4, <3>5, <3>6 DEF Joins, At
      <4>. QED
        BY <3>1, <3>3, <3>4, <3>6, <4>1 DEF Calls, At
    <3>7. CASE pc'[r] = "insert"
      BY <3>1, <3>3, <3>4, <3>7 DEF Calls, At
    <3>. QED
      BY <3>1, <3>6, <3>7
  <2>. QED
    BY <1>f, <2>1
<1>10. CASE InsertLink(r)
  <2>1. CASE ~Finish(r)
    <3>. DEFINE auto == IF txn[r].user = None THEN req[r].address ELSE None
    <3>1. /\ At(r, "link") /\ pc'[r] = "commit" /\ req'[r] = req[r]
          /\ before'[r] = before[r]
          /\ txn'[r].link = NewLink(r, req[r].user, auto)
          /\ txn'[r].user = txn[r].user /\ txn'[r].cols = txn[r].cols
          /\ txn'[r].new = txn[r].new
          /\ txn'[r].used = txn[r].used /\ txn'[r].issued = txn[r].issued
          /\ txn'[r].dropped = txn[r].dropped
      BY <1>0, <1>10, <2>1, InsertLinkLocal
    <3>2. Op(r) = "callback"
      BY <1>0, <3>1 DEF Control, OpAt, At
    <3>3. Creates(r)' \/ Joins(r)'
      BY <1>0, <3>1, <3>2 DEF Control, Calls, Creates, Joins, At
    <3>. DEFINE k == [account |-> req[r].info.account, user |-> req[r].user, via |-> auto]
    <3>k. k \in txn'[r].link
      BY <3>1 DEF NewLink
    <3>a. k.account = req'[r].info.account /\ k.user = req'[r].user
      BY <3>1
    <3>. HIDE DEF k
    <3>4. \E l \in (links \cup txn[r].link)' :
            l.account = req'[r].info.account /\ l.user = req'[r].user
      BY <3>k, <3>a
    <3>. QED
      BY <1>0, <3>1, <3>2, <3>3, <3>4 DEF Control, Calls, At
  <2>. QED
    BY <1>f, <2>1
<1>11. ASSUME NEW u \in Uids, InsertUser(r, u) PROVE Calls(r)'
  <2>1. CASE ~Finish(r)
    <3>1. /\ At(r, "insert") /\ pc'[r] = AfterSignup(r) /\ req'[r].op = req[r].op
          /\ before'[r] = before[r]
          /\ txn'[r].user = u /\ req'[r].user = u /\ req'[r].address = req[r].address
          /\ txn'[r].cols = Columns /\ txn'[r].new = NewUser(r)
          /\ txn'[r].used = txn[r].used
          /\ txn'[r].link = txn[r].link /\ txn'[r].issued = txn[r].issued
          /\ txn'[r].dropped = txn[r].dropped
          /\ req'[r].state = req[r].state /\ req'[r].mode = req[r].mode
          /\ req'[r].info = req[r].info
      BY <1>0, <1>11, <2>1, InsertUserLocal
    <3>2. CASE Op(r) # "callback"
      BY <3>1, <3>2 DEF Calls, Op
    <3>3. CASE Op(r) = "callback"
      <4>1. /\ txn[r] = NoTxn /\ req[r].state \notin before[r].states
            /\ req[r].mode \in {"login", "link"}
            /\ req[r].state \in States /\ req[r].info \in Info
            /\ req[r].address = req[r].info.email
            /\ req[r].address # None
        BY <1>0, <3>1, <3>3 DEF Control, Calls, At
      <4>2. /\ NoTxn.used = None /\ NoTxn.issued = None /\ NoTxn.dropped = {}
            /\ NoTxn.link = {}
        BY DEF NoTxn
      <4>3. Creates(r)'
        BY <3>1, <4>1 DEF Creates, NewUser
      <4>4. pc'[r] = "link"
        BY <3>1, <3>3 DEF AfterSignup
      <4>. QED
        BY <1>11, <3>1, <4>1, <4>2, <4>3, <4>4 DEF Calls, At
    <3>. QED
      BY <3>2, <3>3
  <2>. QED
    BY <1>f, <2>1
<1>12. CASE Commit(r) \/ Abort(r)
  BY <1>12, <1>f DEF Commit, Abort, Reject
<1>. QED
  BY <1>1, <1>2, <1>3, <1>4, <1>5, <1>6, <1>7, <1>8, <1>9, <1>10, <1>11, <1>12
  DEF Step, EmailStep, OAuthStep
===============================================================================
