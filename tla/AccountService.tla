---------------------------- MODULE AccountService ----------------------------
(* Registration, mailed tokens and OAuth on one database.                        *)
EXTENDS EmailAccount, OAuth

vars == <<load, rows, pc, req, txn, ghosts, before, oauth>>

Init == RowsInit /\ states = [s \in States |-> NoState] /\ popped = {}

Step(r) ==
  \/ EmailStep(r) /\ UNCHANGED oauth
  \/ OAuthStep(r)
  \/ (\E u \in Uids : InsertUser(r, u)) /\ UNCHANGED oauth
  \/ (Commit(r) \/ Abort(r)) /\ UNCHANGED oauth

Next ==
  /\ \/ \E r \in Requests : Step(r)
     \/ \E s \in States, state \in {LoginState} \cup {LinkState(u) : u \in Uids} : Authorize(s, state)
  /\ UNCHANGED load
Spec == Init /\ [][Next]_vars

Steps == {"idle"} \cup EmailSteps \cup OAuthSteps

OneHolder(r, q) ==
  /\ txn[r].user = None \/ txn[r].user # txn[q].user
  /\ txn[r].used = None \/ txn[r].used \notin {txn[q].used} \cup txn[q].dropped
  /\ ChangesEmail(r) /\ ChangesEmail(q) => txn[r].new.email # txn[q].new.email

(* Type invariant of the rows, the Redis states and the requests under way; a    *)
(* row lock and an email address that is being written have one holder.          *)
TypeOK ==
  /\ load \in Workloads
  /\ users \in [Uids -> User] /\ tokens \in [Tids -> Token] /\ links \subseteq Link
  /\ states \in [States -> State] /\ popped \subseteq States
  /\ pc \in [Requests -> Steps]
  /\ req \in [Requests -> Request] /\ txn \in [Requests -> Transaction]
  /\ \A r, q \in Requests : r # q => OneHolder(r, q)
  /\ mailed \in [Tids -> Addresses \cup {None}]
  /\ proven \subseteq Uids \X Addresses /\ had \subseteq Uids \X Addresses
===============================================================================
