--------------------------------- MODULE OAuth ---------------------------------
(* Login and linking with an OAuth provider: states in Redis, the callback, and  *)
(* whom it finds, links or creates. The provider's answer is an input.           *)
EXTENDS AccountRows

VARIABLES
  states,           \* Redis: the OAuth states
  popped            \* states a callback has deleted

oauth == <<states, popped>>

NoState == [status |-> "fresh", mode |-> "none", user |-> None]
State == [status : {"fresh", "set", "gone"}, mode : {"none", "login", "link"},
          user : Uids \cup {None}]
OAuthSteps == {"get", "del", "exchange", "lookup", "insert", "link", "commit"}

(* The authorize route asks for a login, the link route for a link to the user   *)
(* who is logged in.                                                             *)
LoginState == [status |-> "set", mode |-> "login", user |-> None]
LinkState(u) == [status |-> "set", mode |-> "link", user |-> u]

(* start_authorization: the state goes to Redis and to the provider.             *)
Authorize(s, state) ==
  /\ s \in First({n \in States : states[n] = NoState})
  /\ \/ state = LoginState /\ "authorize" \in load.ops
     \/ "link" \in load.ops /\ \E u \in Uids : users[u] # NoUser /\ state = LinkState(u)
  /\ states' = [states EXCEPT ![s] = state]
  /\ UNCHANGED <<rows, pc, req, txn, ghosts, before, popped>>

BeginCallback(r) ==
  /\ At(r, "idle") /\ "callback" \in load.ops
  /\ req' = [req EXCEPT ![r].op = "callback"]
  /\ before' = [before EXCEPT ![r].states = popped]
  /\ Goto(r, "get")
  /\ UNCHANGED <<rows, txn, ghosts, oauth>>

(* _pop_state: GET ...                                                           *)
GetState(r, s) ==
  /\ At(r, "get")
  /\ IF states[s].status = "set"
       THEN Hold(r, [req[r] EXCEPT !.state = s, !.mode = states[s].mode,
                                   !.user = states[s].user], "del")
       ELSE Reject(r)
  /\ UNCHANGED oauth

(* Mutant of Deleted: the state stays until its time is over.                    *)
DeletedNever(s) == states

Deleted(s) == [states EXCEPT ![s].status = "gone"]

(* ... then DELETE; a state of another provider is gone as well, and refused.    *)
DelState(r) ==
  /\ At(r, "del")
  /\ states' = Deleted(req[r].state)
  /\ popped' = popped \cup {req[r].state}
  /\ Hold(r, req[r], "exchange") \/ Reject(r)

(* What the providers' answers become: Google's word on its address, GitHub's    *)
(* primary address and its word on it, or an unverified public one.              *)
GoogleInfo(p) == [account |-> p.account, email |-> p.primary, verified |-> p.verified]
GitHubInfo(p) ==
  IF p.public # None THEN [account |-> p.account, email |-> p.public, verified |-> FALSE]
  ELSE [account |-> p.account, email |-> p.primary, verified |-> p.verified /\ p.primary # None]

(* exchange_code and fetch_user_info, over HTTP: who has logged in there.        *)
Exchange(r, p) ==
  LET i == IF p.provider = "google" THEN GoogleInfo(p) ELSE GitHubInfo(p) IN
  /\ At(r, "exchange")
  /\ Hold(r, [req[r] EXCEPT !.info = i, !.address = i.email], "lookup") \/ Reject(r)
  /\ UNCHANGED oauth

-------------------------------------------------------------------------------
LinkOf(p) == {l \in links : l.account = p}
NewLink(r, u, a) == {[account |-> req[r].info.account, user |-> u, via |-> a]}

(* Mutant of Foreign: a link request takes what is linked already.               *)
ForeignNever(r, l) == FALSE

Foreign(r, l) == req[r].mode = "link" /\ l.user # req[r].user

(* handle_callback: an account that is linked logs its user in.                  *)
LookupLinked(r, l) ==
  /\ At(r, "lookup") /\ l \in LinkOf(req[r].info.account)
  /\ IF Foreign(r, l) THEN Reject(r)
     ELSE Hold(r, [req[r] EXCEPT !.user = IF req[r].mode = "link" THEN @ ELSE l.user], "commit")
  /\ UNCHANGED oauth

(* Mutant of MayAutoLink: the user's own address need not be verified.           *)
MayAutoLinkUnverified(r, u) == req[r].info.verified

MayAutoLink(r, u) == req[r].info.verified /\ users[u].verified

(* _resolve_user: the user who asked for the link, the one with this address, or *)
(* a new one.                                                                    *)
LookupNew(r) ==
  LET a == req[r].info.email IN
  /\ At(r, "lookup") /\ LinkOf(req[r].info.account) = {}
  /\ CASE req[r].mode = "link" -> Hold(r, [req[r] EXCEPT !.address = None], "link")
       [] req[r].mode = "login" /\ a # None /\ HasEmail(a) = {} -> Hold(r, req[r], "insert")
       [] req[r].mode = "login" /\ \E u \in HasEmail(a) : MayAutoLink(r, u) ->
            Hold(r, [req[r] EXCEPT !.user = CHOOSE u \in HasEmail(a) : TRUE], "link")
       [] OTHER -> Reject(r)
  /\ UNCHANGED oauth

(* Mutant of AccountTaken: no constraint on provider and account.                *)
AccountTakenNever(p) == FALSE

AccountTaken(p) == LinkOf(p) # {}

(* INSERT of the link; uq_provider_account makes the second one fail.            *)
InsertLink(r) ==
  LET p == req[r].info.account
      auto == IF txn[r].user = None THEN req[r].address ELSE None
  IN
  /\ At(r, "link")
  /\ AccountFree(r, p)
  /\ IF AccountTaken(p) THEN Reject(r)
     ELSE Write(r, [txn[r] EXCEPT !.link = NewLink(r, req[r].user, auto)], "commit")
  /\ UNCHANGED oauth

OAuthStep(r) ==
  \/ BeginCallback(r) \/ DelState(r) \/ LookupNew(r) \/ InsertLink(r)
  \/ \E s \in States : GetState(r, s)
  \/ \E p \in Profiles : Exchange(r, p)
  \/ \E l \in links : LookupLinked(r, l)

-------------------------------------------------------------------------------
(* _pop_state: a state serves two callbacks only if they overlap.                *)
StateReuseOverlaps ==
  \A r \in Requests : pc[r] \in OAuthSteps /\ Op(r) = "callback" =>
    req[r].state \notin before[r].states

(* An account at a provider belongs to one user.                                 *)
AccountBelongsToOne == \A k, l \in links : k.account = l.account => k = l

(* A callback logs in, or reports as linked, the user the account is linked to.  *)
AnsweredIsLinked ==
  \A r \in Requests : Op(r) = "callback" /\ At(r, "commit") =>
    \E l \in links \cup txn[r].link :
      l.account = req[r].info.account /\ l.user = req[r].user

(* A provider's word on an address opens an account that exists only when that   *)
(* account has proven the address itself.                                        *)
AutoLinkProven ==
  \A l \in links : l.via # None => <<l.user, l.via>> \in proven
===============================================================================
