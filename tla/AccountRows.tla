------------------------------ MODULE AccountRows ------------------------------
(* What registration, the mailed tokens and OAuth share: the rows of users,      *)
(* email_tokens and oauth_accounts, transactions with their row locks and unique *)
(* indexes, and the end of a request. A step runs from one await to the next;    *)
(* writes reach the rows at the commit, which follows the response and the mails. *)
EXTENDS Integers, FiniteSets

CONSTANTS
  Requests,         \* the requests the server handles at one time
  Workloads,        \* bound: what clients may ask for, see Workload
  Uids,             \* users that can be created
  Addresses,        \* email addresses, in lower case
  Tids,             \* email tokens that can be issued
  Accounts,         \* accounts at an OAuth provider
  States,           \* OAuth states that can be handed out
  Profiles,         \* what the providers know of the accounts that log in
  None              \* no value

VARIABLES
  load,             \* the workload of this behaviour
  users,            \* committed rows of users
  tokens,           \* committed rows of email_tokens
  links,            \* committed rows of oauth_accounts
  pc, req, txn,     \* per request: the next step, what it holds, its writes
  mailed,           \* per token: the address it was mailed to
  proven,           \* <<user, address>> that a mail or a provider vouched for
  had,              \* <<user, address>> of users that had the address
  before            \* per request: what was over and what was valid when it came

rows == <<users, tokens, links>>
ghosts == <<mailed, proven, had>>

EmailOps == {"register", "resend", "forgot", "change", "verify", "reset", "confirm"}
OAuthOps == {"authorize", "link", "callback"}
Purposes == {"verify", "reset", "change"}
Workload == [ops : SUBSET (EmailOps \cup OAuthOps), users : Nat, tokens : Nat]
Info == [account : Accounts, email : Addresses \cup {None}, verified : BOOLEAN]
Profile == [provider : {"google", "github"}, account : Accounts,
            public : Addresses \cup {None}, primary : Addresses \cup {None}, verified : BOOLEAN]

ASSUME WorkloadsAssumption == Workloads \subseteq Workload
ASSUME NoneAssumption == None \notin Uids \cup Addresses \cup Tids \cup Accounts \cup States
ASSUME ProfilesAssumption == Profiles \subseteq Profile

NoUser == [email |-> None, verified |-> FALSE, password |-> None]
User == [email : Addresses \cup {None}, verified : BOOLEAN, password : Tids \cup {None}]

NoToken == [user |-> None, purpose |-> "none", email |-> None, status |-> "none"]
Token == [user : Uids \cup {None}, purpose : Purposes \cup {"none"},
          email : Addresses \cup {None}, status : {"none", "unused", "used", "deleted"}]

(* via is the address that made the link without the user's asking for it.      *)
Link == [account : Accounts, user : Uids, via : Addresses \cup {None}]

NoInfo == [account |-> None, email |-> None, verified |-> FALSE]
NoReq == [op |-> "idle", user |-> None, row |-> NoUser, token |-> None, purpose |-> "none",
          address |-> None, doomed |-> {}, mode |-> "none", state |-> None, info |-> NoInfo]

Request == [op : EmailOps \cup {"callback", "idle"}, user : Uids \cup {None}, row : User,
            token : Tids \cup {None}, purpose : Purposes \cup {"none"},
            address : Addresses \cup {None}, doomed : SUBSET Tids,
            mode : {"none", "login", "link"}, state : States \cup {None}, info : Info \cup {NoInfo}]

(* cols are the columns that changed, as SQLAlchemy writes them, new their values. *)
Columns == {"email", "verified", "password"}
NoTxn == [user |-> None, cols |-> {}, new |-> NoUser, used |-> None, issued |-> None,
          dropped |-> {}, link |-> {}]
Transaction == [user : Uids \cup {None}, cols : SUBSET Columns, new : User,
                used : Tids \cup {None}, issued : Tids \cup {None}, dropped : SUBSET Tids,
                link : SUBSET Link]

NoPast == [spent |-> {}, valid |-> {}, states |-> {}]
Past == [spent : SUBSET Tids, valid : SUBSET Tids, states : SUBSET States]

RowsInit ==
  /\ load \in Workloads
  /\ users = [u \in Uids |-> NoUser] /\ tokens = [t \in Tids |-> NoToken] /\ links = {}
  /\ pc = [r \in Requests |-> "idle"] /\ req = [r \in Requests |-> NoReq]
  /\ txn = [r \in Requests |-> NoTxn] /\ before = [r \in Requests |-> NoPast]
  /\ mailed = [t \in Tids |-> None] /\ proven = {} /\ had = {}

-------------------------------------------------------------------------------
At(r, step) == pc[r] = step
Goto(r, step) == pc' = [pc EXCEPT ![r] = step]
Op(r) == req[r].op
Others(r) == Requests \ {r}

Live(t) == tokens[t].status \in {"unused", "used"}
HasEmail(a) == {u \in Uids : users[u].email = a}

(* Ids are handed out in one order: which of the new ones it is makes no         *)
(* difference. An id that a rolled-back transaction took is free again, unless a *)
(* mail has carried it.                                                          *)
First(ids) == {i \in ids : i = CHOOSE j \in ids : TRUE}
NewUsers == {u \in Uids : users[u] = NoUser /\ \A q \in Requests : txn[q].user # u}
NewTokens == {t \in Tids : tokens[t] = NoToken /\ mailed[t] = None
                           /\ \A q \in Requests : txn[q].issued # t}
FreshUser(u) == u \in First(NewUsers) /\ Cardinality(Uids \ NewUsers) < load.users
FreshToken(t) == t \in First(NewTokens) /\ Cardinality(Tids \ NewTokens) < load.tokens

(* Row locks: an UPDATE or DELETE waits for the transaction that wrote the row.  *)
UserFree(r, u) == \A q \in Others(r) : txn[q].user # u
TokensFree(r, ts) == \A q \in Others(r) : ts \cap ({txn[q].used} \cup txn[q].dropped) = {}

(* The unique indexes: who writes a key waits for a transaction that adds or     *)
(* gives up the same key, and fails when the key is there then.                  *)
ChangesEmail(q) == "email" \in txn[q].cols

(* Mutant of EmailFree: without the index nobody waits.                          *)
EmailFreeAlways(r, a) == TRUE

EmailFree(r, a) ==
  \A q \in Others(r) : ChangesEmail(q) => a \notin {txn[q].new.email, users[txn[q].user].email}

AccountFree(r, p) == \A q \in Others(r) : \A l \in txn[q].link : l.account # p

-------------------------------------------------------------------------------
Finish(r) ==
  /\ pc' = [pc EXCEPT ![r] = "idle"]
  /\ req' = [req EXCEPT ![r] = NoReq]
  /\ txn' = [txn EXCEPT ![r] = NoTxn]
  /\ before' = [before EXCEPT ![r] = NoPast]

(* An error response rolls the transaction back.                                 *)
Reject(r) == Finish(r) /\ UNCHANGED <<rows, ghosts>>

(* A read, or a write of the transaction's own: the request goes on.             *)
Hold(r, held, step) ==
  /\ req' = [req EXCEPT ![r] = held]
  /\ Goto(r, step)
  /\ UNCHANGED <<rows, txn, ghosts, before>>
Write(r, written, step) ==
  /\ txn' = [txn EXCEPT ![r] = written]
  /\ Goto(r, step)
  /\ UNCHANGED <<rows, req, ghosts, before>>

(* Mutant of EmailTaken: the email column has no unique index.                   *)
EmailTakenNever(a) == FALSE

EmailTaken(a) == HasEmail(a) # {}

(* A new user is verified when an OAuth provider says so. After register come    *)
(* the signup mails, after _resolve_user the link.                               *)
NewUser(r) == [email |-> req[r].address, verified |-> req[r].info.verified, password |-> None]
AfterSignup(r) == IF Op(r) = "register" THEN "scan" ELSE "link"

(* UserRepository.add: INSERT of the new user.                                   *)
InsertUser(r, u) ==
  /\ At(r, "insert")
  /\ FreshUser(u) /\ EmailFree(r, req[r].address)
  /\ IF EmailTaken(req[r].address) THEN Reject(r)
     ELSE /\ txn' = [txn EXCEPT ![r].user = u, ![r].cols = Columns, ![r].new = NewUser(r)]
          /\ req' = [req EXCEPT ![r].user = u]
          /\ Goto(r, AfterSignup(r))
          /\ UNCHANGED <<rows, ghosts, before>>

(* Whom the transaction's reads and writes rest on: the mail that brought the    *)
(* token, or the provider.                                                       *)
Vouched(r) ==
  (IF txn[r].used = None THEN {} ELSE {<<tokens[txn[r].used].user, mailed[txn[r].used]>>})
  \cup (IF Op(r) = "callback" /\ txn[r].user # None /\ req[r].info.verified
          THEN {<<txn[r].user, req[r].info.email>>} ELSE {})

Updated(old, cols, new) ==
  [email |-> IF "email" \in cols THEN new.email ELSE old.email,
   verified |-> IF "verified" \in cols THEN new.verified ELSE old.verified,
   password |-> IF "password" \in cols THEN new.password ELSE old.password]

IssuedRow(r) ==
  [user |-> req[r].user, purpose |-> req[r].purpose,
   email |-> IF req[r].purpose = "change" THEN req[r].address ELSE None, status |-> "unused"]

(* The response is out and the mails are sent: now the transaction commits.      *)
Commit(r) ==
  LET w == txn[r] IN
  /\ At(r, "commit")
  /\ users' = [u \in Uids |-> IF u = w.user THEN Updated(users[u], w.cols, w.new) ELSE users[u]]
  /\ tokens' = [t \in Tids |->
       IF t = w.issued THEN IssuedRow(r)
       ELSE IF t = w.used THEN [tokens[t] EXCEPT !.status = "used"]
       ELSE IF t \in w.dropped THEN [tokens[t] EXCEPT !.status = "deleted"]
       ELSE tokens[t]]
  /\ links' = links \cup w.link
  /\ proven' = proven \cup Vouched(r)
  /\ had' = IF ChangesEmail(r) THEN had \cup {<<w.user, w.new.email>>} ELSE had
  /\ Finish(r)
  /\ UNCHANGED mailed

Abort(r) == At(r, "commit") /\ Reject(r)
===============================================================================
