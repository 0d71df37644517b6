------------------------- MODULE AccountServiceSafety -------------------------
(* The inductive invariant of AccountServiceProofs is kept by every step, and    *)
(* what follows from it.                                                         *)
EXTENDS AccountServiceProofs

-------------------------------------------------------------------------------
(* What transactions write fits the rows that are there.                        *)
LEMMA FitsFrame ==
  ASSUME NEW q \in Requests, Fits(q), UNCHANGED <<users, tokens, links, proven>>, txn'[q] = txn[q]
  PROVE  Fits(q)'
<1>1. UserWrite(q)'
  BY DEF Fits, UserWrite, Exists, ChangesEmail, HasEmail
<1>2. TokenWrite(q)'
  BY DEF Fits, TokenWrite, Issued
<1>3. LinkWrite(q)'
  BY DEF Fits, LinkWrite, LinkOf
<1>. QED
  BY <1>1, <1>2, <1>3 DEF Fits

LEMMA FitsStep ==
  ASSUME IInv, NEW r \in Requests, Step(r)
  PROVE  Fits(r)'
<1>0. /\ req[r] \in Request /\ txn[r] \in Transaction /\ Typed /\ Control(r) /\ Fits(r)
      /\ PastOK(r)
      /\ \A t \in Tids : TokenOK(t)
  BY DEF IInv, Typed, TypeOK, RowsOK
<1>f. Finish(r) => Fits(r)'
  BY <1>0, FinishAll
<1>s. \/ Finish(r)
      \/ /\ UNCHANGED <<users, tokens, links, proven, had>>
         /\ At(r, "mail") \/ UNCHANGED mailed
  BY StepRows
<1>1. CASE (\E o \in EmailOps : BeginEmail(r, o))
           \/ (\E a \in Addresses : RegisterCheck(r, a))
           \/ (\E u \in Uids, a \in Addresses : LoadUser(r, u, a))
  BY <1>1, <1>0, <1>f, <1>s, FitsFrame, BeginEmailLocal, RegisterCheckLocal, LoadUserLocal
  DEF At
<1>2. CASE IssueScan(r) \/ Mail(r)
  BY <1>2, <1>0, <1>f, <1>s, FitsFrame, IssueScanLocal, MailLocal DEF At
<1>3. ASSUME NEW t \in Tids, IssueToken(r, t) PROVE Fits(r)'
  <2>1. CASE ~Finish(r)
    <3>u. users' = users /\ tokens' = tokens /\ links' = links /\ proven' = proven
      BY <1>s, <2>1
    <3>1. /\ FreshToken(t) /\ txn'[r].dropped = {d \in req[r].doomed : Live(d)}
          /\ txn'[r].issued = t
          /\ txn'[r].user = txn[r].user /\ txn'[r].cols = txn[r].cols
          /\ txn'[r].new = txn[r].new
          /\ txn'[r].used = txn[r].used /\ txn'[r].link = txn[r].link
      BY <1>0, <1>3, <2>1, IssueTokenLocal
    <3>2. ~Issued(t)
      BY <3>1 DEF FreshToken, First, NewTokens, Issued
    <3>3. \A d \in txn'[r].dropped : Issued(d)
      BY <3>1 DEF Live, Issued, NoToken
    <3>4. UserWrite(r)'
      BY <1>0, <3>1, <3>u DEF Fits, UserWrite, Exists, ChangesEmail, HasEmail
    <3>5. TokenWrite(r)'
      BY <1>0, <3>1, <3>2, <3>3, <3>u DEF Fits, TokenWrite, Issued
    <3>6. LinkWrite(r)'
      BY <1>0, <3>1, <3>u DEF Fits, LinkWrite, LinkOf
    <3>. QED
      BY <3>4, <3>5, <3>6 DEF Fits
  <2>. QED
    BY <1>f, <2>1
<1>4. CASE (\E t \in Tids : Consume(r, t)) \/ LoadOwner(r)
  BY <1>4, <1>0, <1>f, <1>s, FitsFrame, ConsumeLocal, LoadOwnerLocal DEF At
<1>5. CASE BurnToken(r)
  <2>1. CASE ~Finish(r)
    <3>u. users' = users /\ tokens' = tokens /\ links' = links /\ proven' = proven
      BY <1>s, <2>1
    <3>1. /\ Live(req[r].token) /\ txn'[r].used = req[r].token
          /\ txn'[r].user = txn[r].user /\ txn'[r].cols = txn[r].cols
          /\ txn'[r].new = txn[r].new
          /\ txn'[r].issued = txn[r].issued /\ txn'[r].dropped = txn[r].dropped
          /\ txn'[r].link = txn[r].link
      BY <1>0, <1>5, <2>1, BurnTokenLocal
    <3>4. UserWrite(r)'
      BY <1>0, <3>1, <3>u DEF Fits, UserWrite, Exists, ChangesEmail, HasEmail
    <3>5. TokenWrite(r)'
      BY <1>0, <3>1, <3>u DEF Fits, TokenWrite, Issued, Live
    <3>6. LinkWrite(r)'
      BY <1>0, <3>1, <3>u DEF Fits, LinkWrite, LinkOf
    <3>. QED
      BY <3>4, <3>5, <3>6 DEF Fits
  <2>. QED
    BY <1>f, <2>1
<1>6. CASE WriteOwner(r)
  <2>1. CASE ~Finish(r)
    <3>u. users' = users /\ tokens' = tokens /\ links' = links /\ proven' = proven
      BY <1>s, <2>1
    <3>1. CASE txn'[r] = txn[r]
      BY <1>0, <3>1, <3>u, FitsFrame
    <3>2. CASE txn'[r] # txn[r]
      <4>1. /\ At(r, "write") /\ txn'[r].user = req[r].user /\ txn'[r].cols = Changes(r)
            /\ txn'[r].new = Values(r) /\ txn'[r].used = txn[r].used
            /\ txn'[r].issued = txn[r].issued
            /\ txn'[r].dropped = txn[r].dropped /\ txn'[r].link = txn[r].link
            /\ Op(r) = "confirm" => HasEmail(req[r].address) = {}
        BY <1>0, <1>6, <2>1, <3>2, WriteOwnerLocal
      <4>2. Op(r) \in Confirmers /\ Holds(r) /\ (Op(r) = "confirm" => req[r].address \in Addresses)
        BY <1>0, <4>1 DEF Control, OpAt, Uses, At
      <4>3. Exists(req[r].user) /\ req[r].user \in Uids
        BY <1>0, <4>2 DEF Holds, TokenOK
      <4>4. "password" \in Changes(r) => "email" \notin Changes(r)
        BY <4>2 DEF Confirmers, Changes, Verified, NewPassword, NewEmail
      <4>5. Changes(r) # Columns
        BY <4>4 DEF Columns
      <4>6. "email" \in Changes(r) => Op(r) = "confirm"
        BY <4>2 DEF Confirmers, Changes, Verified, NewPassword
      <4>7. Values(r).email = req[r].address
        BY DEF Values
      <4>8. req[r].user # None
        BY <4>3, NoneAssumption
      <4>9. ChangesEmail(r)' => /\ txn'[r].user # None /\ txn'[r].new.email \in Addresses
                                /\ HasEmail(txn[r].new.email)' = {}
        BY <3>u, <4>1, <4>2, <4>6, <4>7, <4>8 DEF ChangesEmail, HasEmail
      <4>10. txn'[r].user # None => (txn'[r].cols = Columns <=> ~Exists(txn[r].user)')
        BY <3>u, <4>1, <4>3, <4>5 DEF Exists
      <4>11. UserWrite(r)'
        BY <4>9, <4>10 DEF UserWrite
      <4>12. TokenWrite(r)'
        BY <1>0, <4>1, <3>u DEF Fits, TokenWrite, Issued
      <4>13. LinkWrite(r)'
        BY <1>0, <4>1, <3>u DEF Fits, LinkWrite, LinkOf
      <4>. QED
        BY <4>11, <4>12, <4>13 DEF Fits
    <3>. QED
      BY <3>1, <3>2
  <2>. QED
    BY <1>f, <2>1
<1>7. CASE BeginCallback(r) \/ (\E s \in States : GetState(r, s)) \/ DelState(r)
           \/ (\E p \in Profiles : Exchange(r, p))
  BY <1>7, <1>0, <1>f, <1>s, FitsFrame, BeginCallbackLocal, GetStateLocal, DelStateLocal,
     ExchangeLocal
  DEF At
<1>8. CASE (\E l \in links : LookupLinked(r, l)) \/ LookupNew(r)
  BY <1>8, <1>0, <1>f, <1>s, FitsFrame, LookupLinkedLocal, LookupNewLocal DEF At
<1>9. CASE InsertLink(r)
  <2>1. CASE ~Finish(r)
    <3>u. users' = users /\ tokens' = tokens /\ links' = links /\ proven' = proven
      BY <1>s, <2>1
    <3>. DEFINE auto == IF txn[r].user = None THEN req[r].address ELSE None
    <3>1. /\ At(r, "link") /\ LinkOf(req[r].info.account) = {}
          /\ txn'[r].link = NewLink(r, req[r].user, auto)
          /\ txn'[r].user = txn[r].user /\ txn'[r].cols = txn[r].cols
          /\ txn'[r].new = txn[r].new
          /\ txn'[r].used = txn[r].used /\ txn'[r].issued = txn[r].issued
          /\ txn'[r].dropped = txn[r].dropped
      BY <1>0, <1>9, <2>1, InsertLinkLocal
    <3>2. auto # None => <<req[r].user, auto>> \in proven
      <4>1. Op(r) = "callback"
        BY <1>0, <3>1 DEF Control, OpAt, At
      <4>2. Creates(r) \/ Joins(r)
        BY <1>0, <3>1, <4>1 DEF Control, Calls, At
      <4>3. req[r].user \in Uids
        BY <1>0, <3>1, <4>1 DEF Control, Calls, At
      <4>. QED
        BY <3>1, <4>2, <4>3, NoneAssumption DEF Creates, Joins, At
    <3>. DEFINE k == [account |-> req[r].info.account, user |-> req[r].user, via |-> auto]
    <3>3. txn'[r].link = {k}
      BY <3>1 DEF NewLink
    <3>4. k.account = req[r].info.account /\ k.user = req[r].user /\ k.via = auto
      OBVIOUS
    <3>. HIDE DEF k, auto
    <3>5. {l \in links : l.account = k.account} = {}
      BY <3>1, <3>4 DEF LinkOf
    <3>6. LinkWrite(r)'
      BY <3>2, <3>3, <3>4, <3>5, <3>u DEF LinkWrite, LinkOf
    <3>7. UserWrite(r)'
      BY <1>0, <3>1, <3>u DEF Fits, UserWrite, Exists, ChangesEmail, HasEmail
    <3>8. TokenWrite(r)'
      BY <1>0, <3>1, <3>u DEF Fits, TokenWrite, Issued
    <3>. QED
      BY <3>6, <3>7, <3>8 DEF Fits
  <2>. QED
    BY <1>f, <2>1
<1>10. ASSUME NEW u \in Uids, InsertUser(r, u) PROVE Fits(r)'
  <2>1. CASE ~Finish(r)
    <3>u. users' = users /\ tokens' = tokens /\ links' = links /\ proven' = proven
      BY <1>s, <2>1
    <3>1. /\ At(r, "insert") /\ FreshUser(u) /\ HasEmail(req[r].address) = {}
          /\ txn'[r].user = u
          /\ txn'[r].cols = Columns /\ txn'[r].new = NewUser(r)
          /\ txn'[r].used = txn[r].used
          /\ txn'[r].link = txn[r].link /\ txn'[r].issued = txn[r].issued
          /\ txn'[r].dropped = txn[r].dropped
      BY <1>0, <1>10, <2>1, InsertUserLocal
    <3>2. ~Exists(u) /\ u # None
      BY <1>10, <3>1, NoneAssumption DEF FreshUser, First, NewUsers, Exists
    <3>3. req[r].address \in Addresses
      BY <1>0, <3>1 DEF Control, OpAt, Issues, Calls, At, Issuers, Request
    <3>4. NewUser(r).email = req[r].address
      BY DEF NewUser
    <3>5. HasEmail(txn[r].new.email)' = {}
      BY <3>1, <3>4, <3>u DEF HasEmail
    <3>6. UserWrite(r)'
      BY <3>1, <3>2, <3>3, <3>4, <3>5, <3>u DEF UserWrite, Exists
    <3>7. TokenWrite(r)'
      BY <1>0, <3>1, <3>u DEF Fits, TokenWrite, Issued
    <3>8. LinkWrite(r)'
      BY <1>0, <3>1, <3>u DEF Fits, LinkWrite, LinkOf
    <3>. QED
      BY <3>6, <3>7, <3>8 DEF Fits
  <2>. QED
    BY <1>f, <2>1
<1>11. CASE Commit(r) \/ Abort(r)
  BY <1>11, <1>f DEF Commit, Abort, Reject
<1>. QED
  BY <1>1, <1>2, <1>3, <1>4, <1>5, <1>6, <1>7, <1>8, <1>9, <1>10, <1>11
  DEF Step, EmailStep, OAuthStep

(* What was over when a request came stays over.                                *)
LEMMA PastFrame ==
  ASSUME IInv, NEW r \in Requests, Step(r), NEW q \in Requests,
         before'[q] = before[q], req'[q].purpose = req[q].purpose
  PROVE  PastOK(q)'
<1>1. PastOK(q)
  BY DEF IInv
<1>2. ASSUME NEW t \in before[q].spent PROVE tokens'[t].status \in {"used", "deleted"}
  <2>1. t \in Tids /\ tokens[t].status \in {"used", "deleted"}
    BY <1>1 DEF PastOK, IInv, Typed, Past
  <2>. QED
    BY <2>1, StatusStays
<1>3. ASSUME NEW t \in before[q].valid
      PROVE  Issued(t)' /\ tokens'[t].purpose = req[q].purpose
  <2>1. t \in Tids /\ Issued(t) /\ tokens[t].purpose = req[q].purpose
    BY <1>1 DEF PastOK, IInv, Typed, Past
  <2>. QED
    BY <2>1, TokensStay
<1>4. popped \subseteq popped'
  <2>1. CASE DelState(r)
    BY <2>1 DEF DelState
  <2>2. CASE ~DelState(r)
    BY <2>2, StatesFrame DEF oauth
  <2>. QED
    BY <2>1, <2>2
<1>. QED
  BY <1>1, <1>2, <1>3, <1>4 DEF PastOK

LEMMA PastStep ==
  ASSUME IInv, NEW r \in Requests, Step(r)
  PROVE  PastOK(r)'
<1>0. /\ req[r] \in Request /\ txn[r] \in Transaction /\ Typed /\ Control(r) /\ Fits(r)
      /\ PastOK(r)
      /\ Supersedes(r) /\ before[r] \in Past /\ \A t \in Tids : TokenOK(t) /\ tokens[t] \in Token
  BY DEF IInv, Typed, TypeOK, RowsOK
<1>f. Finish(r) => PastOK(r)'
  BY <1>0, FinishAll
<1>s. \/ Finish(r)
      \/ /\ UNCHANGED <<users, tokens, links, proven, had>>
         /\ At(r, "mail") \/ UNCHANGED mailed
  BY StepRows
<1>p. popped \subseteq popped'
  <2>1. CASE DelState(r)
    BY <2>1 DEF DelState
  <2>2. CASE ~DelState(r)
    BY <2>2, StatesFrame DEF oauth
  <2>. QED
    BY <2>1, <2>2
<1>1. CASE (\E a \in Addresses : RegisterCheck(r, a))
           \/ (\E u \in Uids, a \in Addresses : LoadUser(r, u, a))
  BY <1>1, <1>0, <1>f, PastFrame, RegisterCheckLocal, LoadUserLocal DEF At
<1>2. ASSUME NEW o \in EmailOps, BeginEmail(r, o) PROVE PastOK(r)'
  <2>1. CASE ~Finish(r)
    <3>1. /\ before'[r].spent = {t \in Tids : tokens[t].status = "used"}
          /\ before'[r].states = before[r].states
          /\ before'[r].valid = {t \in Tids :
                tokens[t].status = "unused" /\ tokens[t].purpose = PurposeOf(o)}
          /\ req'[r].purpose = PurposeOf(o)
      BY <1>0, <1>2, <2>1, BeginEmailLocal
    <3>2. tokens' = tokens /\ popped \subseteq popped'
      BY <1>s, <1>p, <1>0, <1>2, BeginEmailLocal, <2>1 DEF At
    <3>3. NoToken.status = "none"
      BY DEF NoToken
    <3>. QED
      BY <1>0, <3>1, <3>2, <3>3 DEF PastOK, Issued
  <2>. QED
    BY <1>f, <2>1
<1>3. CASE IssueScan(r) \/ (\E t \in Tids : IssueToken(r, t)) \/ Mail(r)
  BY <1>3, <1>0, <1>f, PastFrame, IssueScanLocal, IssueTokenLocal, MailLocal DEF At
<1>4. ASSUME NEW t \in Tids, Consume(r, t) PROVE PastOK(r)'
  BY <1>4, <1>0, <1>f, PastFrame, ConsumeLocal DEF At
<1>5. CASE BurnToken(r)
  BY <1>5, <1>0, <1>f, PastFrame, BurnTokenLocal DEF At
<1>6. CASE LoadOwner(r)
  BY <1>6, <1>0, <1>f, PastFrame, LoadOwnerLocal DEF At
<1>7. CASE WriteOwner(r)
  BY <1>7, <1>0, <1>f, PastFrame, WriteOwnerLocal DEF At
<1>8. CASE (\E s \in States : GetState(r, s)) \/ DelState(r)
           \/ (\E p \in Profiles : Exchange(r, p))
  BY <1>8, <1>0, <1>f, PastFrame, GetStateLocal, DelStateLocal, ExchangeLocal DEF At
<1>9. CASE BeginCallback(r)
  <2>1. CASE ~Finish(r)
    <3>1. /\ before'[r].spent = before[r].spent /\ before'[r].states = popped
          /\ before'[r].valid = before[r].valid /\ req'[r].purpose = req[r].purpose
      BY <1>0, <1>9, <2>1, BeginCallbackLocal
    <3>2. tokens' = tokens /\ popped \subseteq popped'
      BY <1>s, <1>p, <1>0, <1>9, BeginCallbackLocal, <2>1 DEF At
    <3>. QED
      BY <1>0, <3>1, <3>2 DEF PastOK, Issued
  <2>. QED
    BY <1>f, <2>1
<1>10. ASSUME NEW l \in links, LookupLinked(r, l) PROVE PastOK(r)'
  BY <1>10, <1>0, <1>f, PastFrame, LookupLinkedLocal DEF At
<1>11. CASE LookupNew(r)
  BY <1>11, <1>0, <1>f, PastFrame, LookupNewLocal DEF At
<1>12. CASE InsertLink(r)
  BY <1>12, <1>0, <1>f, PastFrame, InsertLinkLocal DEF At
<1>13. ASSUME NEW u \in Uids, InsertUser(r, u) PROVE PastOK(r)'
  BY <1>13, <1>0, <1>f, PastFrame, InsertUserLocal DEF At
<1>14. CASE Commit(r) \/ Abort(r)
  BY <1>14, <1>f DEF Commit, Abort, Reject
<1>. QED
  BY <1>1, <1>2, <1>3, <1>4, <1>5, <1>6, <1>7, <1>8, <1>9, <1>10, <1>11, <1>12, <1>13, <1>14
  DEF Step, EmailStep, OAuthStep

LEMMA SupersedesFrame ==
  ASSUME IInv, NEW r \in Requests, Step(r), NEW q \in Requests,
         pc'[q] = pc[q], req'[q] = req[q], txn'[q] = txn[q], before'[q] = before[q]
  PROVE  Supersedes(q)'
<1>1. Supersedes(q) /\ PastOK(q) /\ before[q] \in Past
  BY DEF IInv, Typed
<1>2. ASSUME NEW t \in before[q].valid
      PROVE  /\ tokens'[t].user = tokens[t].user
             /\ tokens[t].status = "deleted" => tokens'[t].status = "deleted"
  <2>1. t \in Tids /\ Issued(t)
    BY <1>1 DEF PastOK, Past
  <2>. QED
    BY <2>1, TokensStay, StatusStays
<1>. QED
  BY <1>1, <1>2 DEF Supersedes, At, Op

(* _issue: tokens that were valid when the request came end up in its DELETE,   *)
(* or dead.                                                                     *)
LEMMA SupersedesStep ==
  ASSUME IInv, NEW r \in Requests, Step(r)
  PROVE  Supersedes(r)'
<1>0. /\ req[r] \in Request /\ txn[r] \in Transaction /\ Typed /\ Control(r) /\ Fits(r)
      /\ PastOK(r)
      /\ Supersedes(r) /\ before[r] \in Past /\ \A t \in Tids : TokenOK(t) /\ tokens[t] \in Token
  BY DEF IInv, Typed, TypeOK, RowsOK
<1>f. Finish(r) => Supersedes(r)'
  BY <1>0, FinishAll
<1>s. \/ Finish(r)
      \/ /\ UNCHANGED <<users, tokens, links, proven, had>>
         /\ At(r, "mail") \/ UNCHANGED mailed
  BY StepRows
<1>1. CASE (\E o \in EmailOps : BeginEmail(r, o))
           \/ (\E a \in Addresses : RegisterCheck(r, a))
           \/ (\E u \in Uids, a \in Addresses : LoadUser(r, u, a))
  BY <1>1, <1>0, <1>f, <1>s, BeginEmailLocal, RegisterCheckLocal, LoadUserLocal
  DEF Control, OpAt, Supersedes, At, Op, Issuers, Confirmers, EmailOps
<1>2. CASE IssueScan(r)
  <2>1. CASE ~Finish(r)
    <3>1. /\ pc'[r] = "sweep" /\ req'[r].doomed = Superseded(r)
          /\ req'[r].user = req[r].user
          /\ req'[r].purpose = req[r].purpose /\ before'[r] = before[r] /\ tokens' = tokens
      BY <1>0, <1>2, <1>s, <2>1, IssueScanLocal DEF At
    <3>2. ASSUME NEW t \in before[r].valid, tokens[t].user = req[r].user
          PROVE  t \in Superseded(r) \/ tokens[t].status = "deleted"
      <4>1. t \in Tids /\ Issued(t) /\ tokens[t].purpose = req[r].purpose
        BY <1>0 DEF PastOK, Past
      <4>2. tokens[t].status \in {"unused", "used", "deleted"}
        BY <1>0, <4>1 DEF TokenOK, Token
      <4>. QED
        BY <3>2, <4>1, <4>2 DEF Superseded, Live
    <3>. QED
      BY <3>1, <3>2 DEF Supersedes, At
  <2>. QED
    BY <1>f, <2>1
<1>3. ASSUME NEW t \in Tids, IssueToken(r, t) PROVE Supersedes(r)'
  <2>1. CASE ~Finish(r)
    <3>1. /\ At(r, "sweep") /\ pc'[r] = "mail" /\ req'[r] = req[r] /\ before'[r] = before[r]
          /\ tokens' = tokens
          /\ txn'[r].dropped = {d \in req[r].doomed : Live(d)}
      BY <1>0, <1>3, <1>s, <2>1, IssueTokenLocal DEF At
    <3>2. ASSUME NEW x \in before[r].valid, tokens[x].user = req[r].user
          PROVE  x \in {d \in req[r].doomed : Live(d)} \/ tokens[x].status = "deleted"
      <4>1. x \in Tids /\ Issued(x)
        BY <1>0 DEF PastOK, Past
      <4>2. tokens[x].status \in {"unused", "used", "deleted"}
        BY <1>0, <4>1 DEF TokenOK, Token
      <4>3. x \in req[r].doomed \/ tokens[x].status = "deleted"
        BY <1>0, <3>1, <3>2 DEF Supersedes
      <4>. QED
        BY <4>2, <4>3 DEF Live
    <3>. QED
      BY <3>1, <3>2 DEF Supersedes, At
  <2>. QED
    BY <1>f, <2>1
<1>4. CASE Mail(r)
  <2>1. CASE ~Finish(r)
    <3>1. /\ At(r, "mail") /\ pc'[r] = "commit" /\ req'[r] = req[r]
          /\ before'[r] = before[r] /\ tokens' = tokens
          /\ txn'[r] = txn[r]
      BY <1>0, <1>4, <1>s, <2>1, MailLocal
    <3>2. Op(r) \in Issuers
      BY <1>0, <3>1 DEF Control, OpAt, At
    <3>. QED
      BY <1>0, <3>1, <3>2 DEF Supersedes, At, Op
  <2>. QED
    BY <1>f, <2>1
<1>5. ASSUME NEW t \in Tids, Consume(r, t) PROVE Supersedes(r)'
  BY <1>5, <1>0, <1>f, <1>s, ConsumeLocal
  DEF Control, OpAt, Supersedes, At, Op, Issuers, Confirmers, EmailOps
<1>6. CASE BurnToken(r)
  BY <1>6, <1>0, <1>f, <1>s, BurnTokenLocal
  DEF Control, OpAt, Supersedes, At, Op, Issuers, Confirmers, EmailOps
<1>7. CASE LoadOwner(r)
  BY <1>7, <1>0, <1>f, <1>s, LoadOwnerLocal
  DEF Control, OpAt, Supersedes, At, Op, Issuers, Confirmers, EmailOps
<1>8. CASE WriteOwner(r)
  BY <1>8, <1>0, <1>f, <1>s, WriteOwnerLocal
  DEF Control, OpAt, Supersedes, At, Op, Issuers, Confirmers, EmailOps
<1>9. CASE BeginCallback(r) \/ (\E s \in States : GetState(r, s)) \/ DelState(r)
           \/ (\E p \in Profiles : Exchange(r, p))
  BY <1>9, <1>0, <1>f, <1>s, BeginCallbackLocal, GetStateLocal, DelStateLocal, ExchangeLocal
  DEF Control, OpAt, Supersedes, At, Op, Issuers, Confirmers, EmailOps
<1>10. ASSUME NEW l \in links, LookupLinked(r, l) PROVE Supersedes(r)'
  BY <1>10, <1>0, <1>f, <1>s, LookupLinkedLocal
  DEF Control, OpAt, Supersedes, At, Op, Issuers, Confirmers, EmailOps
<1>11. CASE LookupNew(r)
  BY <1>11, <1>0, <1>f, <1>s, LookupNewLocal
  DEF Control, OpAt, Supersedes, At, Op, Issuers, Confirmers, EmailOps
<1>12. CASE InsertLink(r)
  BY <1>12, <1>0, <1>f, <1>s, InsertLinkLocal
  DEF Control, OpAt, Supersedes, At, Op, Issuers, Confirmers, EmailOps
<1>13. ASSUME NEW u \in Uids, InsertUser(r, u) PROVE Supersedes(r)'
  BY <1>13, <1>0, <1>f, <1>s, InsertUserLocal
  DEF Control, OpAt, Supersedes, At, Op, Issuers, Confirmers, EmailOps, AfterSignup
<1>14. CASE Commit(r) \/ Abort(r)
  BY <1>14, <1>f DEF Commit, Abort, Reject
<1>. QED
  BY <1>1, <1>2, <1>3, <1>4, <1>5, <1>6, <1>7, <1>8, <1>9, <1>10, <1>11, <1>12, <1>13, <1>14
  DEF Step, EmailStep, OAuthStep

(* Two transactions do not issue one token and do not link one account.         *)
LEMMA ApartStep ==
  ASSUME IInv, NEW r \in Requests, NEW q \in Requests \ {r}, Step(r)
  PROVE  Apart(r, q)' /\ Apart(q, r)'
<1>0. /\ txn'[q] = txn[q] /\ Apart(r, q) /\ Apart(q, r) /\ req[r] \in Request
      /\ txn[r] \in Transaction
      /\ Typed /\ q \in Others(r)
  BY Frame DEF IInv, Typed, TypeOK, Others
<1>f. Finish(r) => Apart(r, q)' /\ Apart(q, r)'
  BY <1>0, FinishApart
<1>1. CASE (\E o \in EmailOps : BeginEmail(r, o))
           \/ (\E a \in Addresses : RegisterCheck(r, a))
           \/ (\E u \in Uids, a \in Addresses : LoadUser(r, u, a))
  BY <1>1, <1>0, <1>f, BeginEmailLocal, RegisterCheckLocal, LoadUserLocal DEF Apart
<1>2. CASE IssueScan(r) \/ Mail(r)
  BY <1>2, <1>0, <1>f, IssueScanLocal, MailLocal DEF Apart
<1>3. ASSUME NEW t \in Tids, IssueToken(r, t) PROVE Apart(r, q)' /\ Apart(q, r)'
  <2>1. FreshToken(t) /\ txn'[r].issued = t /\ txn'[r].link = txn[r].link
    BY <1>0, <1>3, IssueTokenLocal
  <2>2. t # txn[q].issued
    BY <2>1 DEF FreshToken, First, NewTokens
  <2>. QED
    BY <1>0, <2>1, <2>2 DEF Apart
<1>4. ASSUME NEW t \in Tids, Consume(r, t) PROVE Apart(r, q)' /\ Apart(q, r)'
  BY <1>4, <1>0, <1>f, ConsumeLocal DEF Apart
<1>5. CASE BurnToken(r)
  <2>1. Finish(r) \/ (txn'[r].issued = txn[r].issued /\ txn'[r].link = txn[r].link)
    BY <1>0, <1>5, BurnTokenLocal
  <2>. QED
    BY <1>0, <1>f, <2>1 DEF Apart
<1>6. CASE LoadOwner(r)
  BY <1>6, <1>0, <1>f, LoadOwnerLocal DEF Apart
<1>7. CASE WriteOwner(r)
  BY <1>7, <1>0, <1>f, WriteOwnerLocal DEF Apart
<1>8. CASE BeginCallback(r) \/ (\E s \in States : GetState(r, s)) \/ DelState(r)
           \/ (\E p \in Profiles : Exchange(r, p))
  BY <1>8, <1>0, <1>f, BeginCallbackLocal, GetStateLocal, DelStateLocal, ExchangeLocal
  DEF Apart
<1>9. ASSUME NEW l \in links, LookupLinked(r, l) PROVE Apart(r, q)' /\ Apart(q, r)'
  BY <1>9, <1>0, <1>f, LookupLinkedLocal DEF Apart
<1>10. CASE LookupNew(r)
  <2>1. Finish(r) \/ (txn'[r].issued = txn[r].issued /\ txn'[r].link = txn[r].link)
    BY <1>0, <1>10, LookupNewLocal
  <2>. QED
    BY <1>0, <1>f, <2>1 DEF Apart
<1>11. CASE InsertLink(r)
  <2>1. CASE ~Finish(r)
    <3>. DEFINE auto == IF txn[r].user = None THEN req[r].address ELSE None
                k == [account |-> req[r].info.account, user |-> req[r].user, via |-> auto]
    <3>1. /\ AccountFree(r, req[r].info.account) /\ txn'[r].issued = txn[r].issued
          /\ txn'[r].link = NewLink(r, req[r].user, auto)
      BY <1>0, <1>11, <2>1, InsertLinkLocal
    <3>2. txn'[r].link = {k} /\ k.account = req[r].info.account
      BY <3>1 DEF NewLink
    <3>3. \A l \in txn[q].link : l.account # req[r].info.account
      BY <1>0, <3>1 DEF AccountFree
    <3>. HIDE DEF k, auto
    <3>. QED
      BY <1>0, <3>1, <3>2, <3>3 DEF Apart
  <2>. QED
    BY <1>f, <2>1
<1>12. ASSUME NEW u \in Uids, InsertUser(r, u) PROVE Apart(r, q)' /\ Apart(q, r)'
  BY <1>12, <1>0, <1>f, InsertUserLocal DEF Apart
<1>13. CASE Commit(r) \/ Abort(r)
  BY <1>13, <1>f DEF Commit, Abort, Reject
<1>. QED
  BY <1>1, <1>2, <1>3, <1>4, <1>5, <1>6, <1>7, <1>8, <1>9, <1>10, <1>11, <1>12, <1>13
  DEF Step, EmailStep, OAuthStep

-------------------------------------------------------------------------------
(* The other requests: what they hold stays true of the rows that a commit      *)
(* changes.                                                                     *)
LEMMA OtherControl ==
  ASSUME IInv, NEW r \in Requests, NEW q \in Requests \ {r}, Step(r)
  PROVE  Control(q)'
<1>0. /\ pc'[q] = pc[q] /\ req'[q] = req[q] /\ txn'[q] = txn[q] /\ before'[q] = before[q]
      /\ req[q] \in Request /\ txn[q] \in Transaction /\ before[q] \in Past /\ Typed
      /\ Control(q) /\ Fits(q)
      /\ \A t \in Tids : TokenOK(t)
  BY Frame DEF IInv, Typed, TypeOK, RowsOK
<1>1. OpAt(q)'
  BY <1>0 DEF Control, OpAt, At, Op
<1>2. Issues(q)'
  <2>1. txn[q].issued \in Tids => mailed'[txn[q].issued] = mailed[txn[q].issued]
    <3>1. CASE Mail(r)
      <4>1. Apart(q, r) /\ (txn[q].issued \in Tids => txn[q].issued # None)
        BY NoneAssumption DEF IInv
      <4>. QED
        BY <1>0, <3>1, <4>1, MailLocal DEF Apart
    <3>2. CASE Commit(r)
      BY <3>2 DEF Commit
    <3>3. CASE ~Mail(r) /\ ~Commit(r)
      BY <3>3, RowsFrame
    <3>. QED
      BY <3>1, <3>2, <3>3
  <2>2. SignsUp(q) => SignsUp(q)'
    BY <1>0 DEF SignsUp
  <2>3. ASSUME req[q].user \in Uids, req[q].address \in Addresses, WritesTo(q)
        PROVE  WritesTo(q)'
    <3>1. users'[req[q].user] # NoUser
      BY <2>3, UsersStay DEF WritesTo, Exists
    <3>2. Op(q) = "resend" =>
            \/ users'[req[q].user].email = req[q].address
            \/ <<req[q].user, users'[req[q].user].email>> \in proven'
      BY <2>3, SpeaksStays DEF WritesTo, Speaks, Settled
    <3>3. Op(q) = "forgot" => <<req[q].user, req[q].address>> \in had'
      BY <2>3, SetsGrow DEF WritesTo
    <3>. QED
      BY <1>0, <2>3, <3>1, <3>2, <3>3 DEF WritesTo, Exists, Speaks, Settled, Op
  <2>. QED
    BY <1>0, <2>1, <2>2, <2>3 DEF Control, Issues, At, Op
<1>3. Uses(q)'
  <2>1. Holds(q) => /\ Holds(q)'
                    /\ tokens'[req[q].token].email = tokens[req[q].token].email
    <3>1. ASSUME Holds(q)
          PROVE  /\ tokens'[req[q].token] # NoToken
                 /\ tokens'[req[q].token].user = tokens[req[q].token].user
                 /\ tokens'[req[q].token].purpose = tokens[req[q].token].purpose
                 /\ tokens'[req[q].token].email = tokens[req[q].token].email
      BY <3>1, TokensStay DEF Holds, Issued
    <3>. QED
      BY <1>0, <3>1 DEF Holds, Issued
  <2>2. Values(q)' = Values(q)
    BY <1>0 DEF Values
  <2>3. Writes(q) => Writes(q)'
    BY <1>0, <2>2 DEF Writes, Op
  <2>. QED
    BY <1>0, <2>1, <2>3 DEF Control, Uses, At, Op
<1>4. Calls(q)'
  <2>1. Creates(q) => Creates(q)'
    BY <1>0 DEF Creates
  <2>2. Joins(q) => Joins(q)'
    BY <1>0, SetsGrow DEF Joins, At
  <2>3. (\E l \in links \cup txn[q].link : l.account = req[q].info.account /\ l.user = req[q].user)
          => \E l \in (links \cup txn[q].link)' :
               l.account = req'[q].info.account /\ l.user = req'[q].user
    BY <1>0, SetsGrow
  <2>. QED
    BY <1>0, <2>1, <2>2, <2>3 DEF Control, Calls, At, Op
<1>. QED
  BY <1>1, <1>2, <1>3, <1>4 DEF Control

LEMMA OtherFits ==
  ASSUME IInv, NEW r \in Requests, NEW q \in Requests \ {r}, Step(r)
  PROVE  Fits(q)'
<1>0. /\ pc'[q] = pc[q] /\ req'[q] = req[q] /\ txn'[q] = txn[q] /\ before'[q] = before[q]
      /\ req[q] \in Request /\ txn[q] \in Transaction /\ before[q] \in Past /\ Typed
      /\ Control(q) /\ Fits(q)
      /\ \A t \in Tids : TokenOK(t)
  BY Frame DEF IInv, Typed, TypeOK, RowsOK
<1>1. CASE ~Commit(r)
  BY <1>0, <1>1, RowsFrame, FitsFrame DEF Mail, rows
<1>2. CASE Commit(r)
  <2>0. /\ OneHolder(r, q) /\ OneHolder(q, r) /\ Apart(r, q) /\ Apart(q, r) /\ Fits(r)
        /\ txn[r] \in Transaction /\ txn[q].user \in Uids \cup {None}
        /\ txn[q].issued \in Tids \cup {None} /\ txn[q].used \in Tids \cup {None}
    BY DEF IInv, Typed, TypeOK, Transaction
  <2>1. UserWrite(q)'
    <3>1. txn[q].user # None => users'[txn[q].user] = users[txn[q].user]
      BY <1>0, <1>2, <2>0, CommitUsers DEF OneHolder
    <3>2. ChangesEmail(q) => {u \in Uids : users'[u].email = txn[q].new.email} = {}
      BY <1>0, <1>2, <2>0, CommitEmails DEF OneHolder, Fits, UserWrite, HasEmail
    <3>. QED
      BY <1>0, <3>1, <3>2 DEF Fits, UserWrite, ChangesEmail, HasEmail, Exists
  <2>2. TokenWrite(q)'
    <3>1. ASSUME txn[q].issued # None PROVE tokens'[txn[q].issued] = tokens[txn[q].issued]
      <4>1. /\ txn[q].issued \in Tids /\ ~Issued(txn[q].issued)
            /\ txn[q].issued # txn[r].issued
        BY <1>0, <2>0, <3>1 DEF Fits, TokenWrite, Apart
      <4>2. txn[q].issued # txn[r].used
        BY <2>0, <3>1, <4>1 DEF Fits, TokenWrite, Issued, NoToken
      <4>3. txn[q].issued \notin txn[r].dropped
        BY <2>0, <4>1 DEF Fits, TokenWrite
      <4>. QED
        BY <1>2, <4>1, <4>2, <4>3 DEF Commit
    <3>2. ASSUME txn[q].used # None PROVE tokens'[txn[q].used].status \in {"unused", "used"}
      <4>1. /\ txn[q].used \in Tids /\ tokens[txn[q].used].status \in {"unused", "used"}
            /\ txn[q].used \notin txn[r].dropped /\ txn[q].used # txn[r].used
        BY <1>0, <2>0, <3>2 DEF Fits, TokenWrite, OneHolder
      <4>2. txn[q].used # txn[r].issued
        BY <2>0, <3>2, <4>1 DEF Fits, TokenWrite, Issued, NoToken
      <4>. QED
        BY <1>2, <4>1, <4>2 DEF Commit
    <3>3. ASSUME NEW t \in txn[q].dropped PROVE Issued(t)'
      <4>1. t \in Tids /\ Issued(t)
        BY <1>0, <3>3 DEF Fits, TokenWrite, Transaction
      <4>. QED
        BY <4>1, TokensStay
    <3>. QED
      BY <1>0, <3>1, <3>2, <3>3 DEF Fits, TokenWrite, Issued
  <2>3. LinkWrite(q)'
    <3>1. ASSUME NEW l \in txn[q].link PROVE {k \in links' : k.account = l.account} = {}
      BY <1>0, <1>2, <2>0, <3>1 DEF Commit, Fits, LinkWrite, LinkOf, Apart
    <3>. QED
      BY <1>0, <3>1, SetsGrow DEF Fits, LinkWrite, LinkOf
  <2>. QED
    BY <2>1, <2>2, <2>3 DEF Fits
<1>. QED
  BY <1>1, <1>2

LEMMA OtherStep ==
  ASSUME IInv, NEW r \in Requests, NEW q \in Requests \ {r}, Step(r)
  PROVE  Control(q)' /\ Fits(q)' /\ PastOK(q)' /\ Supersedes(q)'
<1>1. pc'[q] = pc[q] /\ req'[q] = req[q] /\ txn'[q] = txn[q] /\ before'[q] = before[q]
  BY Frame DEF IInv
<1>. QED
  BY <1>1, OtherControl, OtherFits, PastFrame, SupersedesFrame

-------------------------------------------------------------------------------
LEMMA CommitWrites ==
  ASSUME IInv, NEW r \in Requests, Commit(r), txn[r].user # None, Exists(txn[r].user)
  PROVE  /\ Op(r) \in Confirmers /\ Holds(r) /\ txn[r].user = req[r].user
         /\ txn[r].new.password = req[r].token
         /\ Op(r) = "verify" => txn[r].cols = {"verified"}
         /\ Op(r) = "reset" => txn[r].cols = {"password"}
         /\ Op(r) = "confirm" =>
              "email" \in txn[r].cols /\ txn[r].cols \subseteq {"email", "verified"}
         /\ req[r].purpose = PurposeOf(Op(r))
<1>1. txn[r].cols # Columns
  BY DEF IInv, Fits, UserWrite
<1>2. Op(r) \in Confirmers
  BY <1>1, CommitOps DEF SignsUp, WritesTo, Creates, Joins
<1>3. Holds(r) /\ Writes(r)
  BY <1>2, CommitOps
<1>4. Values(r).password = req[r].token
  BY DEF Values
<1>5. req[r].purpose = PurposeOf(Op(r))
  BY <1>2 DEF IInv, Control, OpAt, EmailOps, Confirmers
<1>. QED
  BY <1>2, <1>3, <1>4, <1>5 DEF Writes

(* The users' rows.                                                             *)
LEMMA UserCommit ==
  ASSUME IInv, NEW r \in Requests, Commit(r), Step(r), NEW u \in Uids
  PROVE  UserOK(u)'
<1>0. /\ Typed /\ UserOK(u) /\ users[u] \in User /\ txn[r] \in Transaction
      /\ txn[r].user # None => (txn[r].cols = Columns <=> ~Exists(txn[r].user))
      /\ u # None /\ users' \in [Uids -> User]
  BY RowsType, NoneAssumption DEF IInv, Typed, TypeOK, RowsOK, Fits, UserWrite
<1>1. users'[u].email = IF u = txn[r].user /\ ChangesEmail(r) THEN txn[r].new.email
                        ELSE users[u].email
  BY <1>0, CommitEmails
<1>c. /\ users'[u].verified = IF u = txn[r].user /\ "verified" \in txn[r].cols
                                THEN txn[r].new.verified ELSE users[u].verified
      /\ users'[u].password = IF u = txn[r].user /\ "password" \in txn[r].cols
                                THEN txn[r].new.password ELSE users[u].password
  BY <1>0, CommitColumns
<1>2. Exists(u)' => users'[u].email \in Addresses /\ <<u, users'[u].email>> \in had'
  <2>1. CASE u = txn[r].user /\ ChangesEmail(r)
    BY <1>1, <2>1 DEF Commit, IInv, Fits, UserWrite
  <2>2. CASE u = txn[r].user /\ ~ChangesEmail(r)
    <3>1. Exists(u)
      BY <1>0, <2>2 DEF ChangesEmail, Columns
    <3>. QED
      BY <1>0, <1>1, <2>2, <3>1, SetsGrow DEF UserOK
  <2>3. CASE u # txn[r].user
    <3>1. users'[u] = users[u]
      BY <1>0, <2>3, CommitUsers
    <3>. QED
      BY <1>0, <3>1, SetsGrow DEF UserOK, Exists
  <2>. QED
    BY <2>1, <2>2, <2>3
<1>3. users'[u].verified => <<u, users'[u].email>> \in proven'
  <2>1. CASE u # txn[r].user
    BY <1>0, <1>1, <1>c, <2>1, SetsGrow DEF UserOK, Settled
  <2>2. CASE u = txn[r].user /\ Exists(u) /\ ChangesEmail(r)
    BY <1>1, <2>2, NewEmailProven
  <2>3. CASE u = txn[r].user /\ Exists(u) /\ ~ChangesEmail(r)
    <3>1. CASE users[u].verified
      BY <1>0, <1>1, <2>3, <3>1, SetsGrow DEF UserOK, Settled
    <3>2. CASE "verified" \in txn[r].cols
      <4>1. Op(r) = "verify" /\ Holds(r) /\ u = req[r].user /\ req[r].purpose = "verify"
        BY <1>0, <2>3, <3>2, CommitWrites DEF ChangesEmail, Confirmers, PurposeOf
      <4>2. Speaks(u, mailed[req[r].token])
        BY <4>1 DEF IInv, RowsOK, TokenOK, Holds
      <4>3. <<u, mailed[req[r].token]>> \in proven'
        BY <4>1, VouchedGrows DEF Confirmers
      <4>. QED
        BY <1>1, <2>3, <4>2, <4>3, SetsGrow DEF Speaks, Settled
    <3>3. CASE ~users[u].verified /\ "verified" \notin txn[r].cols
      BY <1>c, <3>3
    <3>. QED
      BY <3>1, <3>2, <3>3
  <2>4. CASE u = txn[r].user /\ ~Exists(u)
    <3>1. txn[r].cols = Columns /\ "verified" \in txn[r].cols /\ ChangesEmail(r)
      BY <1>0, <2>4 DEF Columns, ChangesEmail
    <3>2. "register" \in Issuers /\ "callback" \notin Issuers \cup Confirmers
      BY DEF Issuers, Confirmers
    <3>3. CASE Op(r) \in Confirmers
      <4>1. Writes(r)
        BY <3>3, CommitOps
      <4>. QED
        BY <1>0, <2>4, <3>1, <3>3, <4>1 DEF Writes, Confirmers, Columns
    <3>4. CASE Op(r) \in Issuers
      <4>1. SignsUp(r)
        BY <1>0, <2>4, <3>4, CommitOps DEF WritesTo
      <4>2. txn[r].new.verified = FALSE
        BY <4>1 DEF SignsUp
      <4>. QED
        BY <1>c, <2>4, <3>1, <4>2
    <3>5. CASE Op(r) = "callback"
      <4>1. Creates(r)
        BY <1>0, <2>4, <3>5, CommitOps DEF Joins
      <4>2. /\ txn[r].new.verified = req[r].info.verified
            /\ txn[r].new.email = req[r].info.email
        BY <4>1 DEF Creates
      <4>. QED
        BY <1>0, <1>1, <1>c, <2>4, <3>1, <3>5, <4>2, VouchedGrows
    <3>. QED
      BY <3>3, <3>4, <3>5, CommitOps
  <2>. QED
    BY <2>1, <2>2, <2>3, <2>4
<1>4. users'[u].password # None =>
        Issued(users[u].password)' /\ <<u, mailed'[users'[u].password]>> \in had'
  <2>1. ASSUME NEW t \in Tids, users'[u].password = t, Issued(t), <<u, mailed[t]>> \in had
        PROVE  Issued(users[u].password)' /\ <<u, mailed'[users'[u].password]>> \in had'
    BY <2>1, TokensStay, SetsGrow DEF Issued
  <2>2. CASE users'[u].password = users[u].password
    BY <1>0, <2>1, <2>2 DEF UserOK, User
  <2>3. CASE users'[u].password # users[u].password
    <3>1. /\ u = txn[r].user /\ "password" \in txn[r].cols
          /\ users'[u].password = txn[r].new.password
      BY <1>c, <2>3
    <3>2. CASE Exists(u)
      <4>1. Op(r) = "reset" /\ Holds(r) /\ u = req[r].user /\ req[r].purpose = "reset"
            /\ users'[u].password = req[r].token
        BY <1>0, <3>1, <3>2, CommitWrites DEF Confirmers, PurposeOf
      <4>2. /\ req[r].token \in Tids /\ Issued(req[r].token)
            /\ <<u, mailed[req[r].token]>> \in had
        BY <4>1 DEF IInv, RowsOK, TokenOK, Holds
      <4>. QED
        BY <2>1, <4>1, <4>2
    <3>3. CASE ~Exists(u)
      <4>0. txn[r].cols = Columns
        BY <1>0, <3>1, <3>3
      <4>1. CASE Op(r) \in Confirmers
        <5>1. Writes(r)
          BY <4>1, CommitOps
        <5>. QED
          BY <1>0, <3>1, <4>0, <4>1, <5>1 DEF Writes, Confirmers, Columns
      <4>2. CASE Op(r) \notin Confirmers
        <5>1. SignsUp(r) \/ Creates(r)
          BY <1>0, <3>1, <4>2, CommitOps DEF WritesTo, Joins
        <5>2. txn[r].new.password = None
          BY <5>1 DEF SignsUp, Creates
        <5>. QED
          BY <3>1, <5>2
      <4>. QED
        BY <4>1, <4>2
    <3>. QED
      BY <3>2, <3>3
  <2>. QED
    BY <2>2, <2>3
<1>. QED
  BY <1>2, <1>3, <1>4 DEF UserOK, Settled

LEMMA UserStep ==
  ASSUME IInv, NEW r \in Requests, Step(r)
  PROVE  \A u \in Uids : UserOK(u)'
<1>1. CASE Commit(r)
  BY <1>1, UserCommit
<1>2. ASSUME ~Commit(r), NEW u \in Uids PROVE UserOK(u)'
  <2>1. users' = users /\ tokens' = tokens /\ proven' = proven /\ had' = had
    BY <1>2, RowsFrame DEF Mail, rows
  <2>2. UserOK(u) /\ users[u] \in User
    BY DEF IInv, Typed, TypeOK, RowsOK
  <2>3. users[u].password # None => mailed'[users[u].password] = mailed[users[u].password]
    BY <2>2, TokensStay DEF UserOK, User
  <2>. QED
    BY <2>1, <2>2, <2>3 DEF UserOK, Settled, Exists, Issued
<1>. QED
  BY <1>1, <1>2

(* The tokens' rows: a new one goes to an address that its user has, had, or    *)
(* asks for.                                                                    *)
LEMMA TokenNew ==
  ASSUME IInv, NEW r \in Requests, Commit(r), Step(r), txn[r].issued # None
  PROVE  LET t == txn[r].issued
             u == tokens'[t].user
         IN  /\ u \in Uids /\ users'[u] # NoUser
             /\ mailed'[t] \in Addresses /\ tokens'[t].status # "none"
             /\ tokens'[t].purpose \in Purposes
             /\ tokens'[t].purpose = "verify" =>
                  users'[u].email = mailed'[t] \/ <<u, users'[u].email>> \in proven'
             /\ tokens'[t].purpose = "reset" => <<u, mailed'[t]>> \in had'
             /\ tokens'[t].purpose = "change" => tokens'[t].email = mailed'[t]
<1>. DEFINE t == txn[r].issued
           u == req[r].user
           a == req[r].address
<1>0. Typed /\ req[r] \in Request /\ t \in Tids
  BY DEF IInv, Typed, TypeOK, Transaction
<1>1. Op(r) \in Issuers
  <2>1. At(r, "commit") /\ Control(r)
    BY DEF Commit, IInv
  <2>2. Op(r) \in Confirmers => txn[r].issued = None
    BY <2>1 DEF Control, Uses
  <2>3. Op(r) = "callback" => txn[r].issued = None
    BY <2>1 DEF Control, Calls
  <2>. QED
    BY <2>2, <2>3, CommitOps
<1>2. /\ mailed[t] = a /\ u \in Uids /\ a \in Addresses
      /\ IF Op(r) = "register" THEN SignsUp(r) ELSE WritesTo(r)
  BY <1>1, CommitOps
<1>3. req[r].purpose = PurposeOf(Op(r))
  BY <1>1 DEF IInv, Control, OpAt, EmailOps, Issuers
<1>4. tokens'[t] = IssuedRow(r) /\ mailed' = mailed
  BY <1>0 DEF Commit
<1>5. /\ tokens'[t].user = u /\ tokens'[t].purpose = req[r].purpose
      /\ tokens'[t].status = "unused"
      /\ req[r].purpose = "change" => tokens'[t].email = a
  BY <1>4 DEF IssuedRow
<1>6. /\ Op(r) = "register" => users'[u].email = a /\ users'[u] # NoUser
      /\ Op(r) # "register" => users'[u] # NoUser
      /\ Op(r) = "resend" => users'[u].email = a \/ <<u, users'[u].email>> \in proven'
  <2>1. CASE Op(r) = "register"
    <3>1. u = txn[r].user /\ ChangesEmail(r) /\ txn[r].new.email = a
      BY <1>2, <2>1 DEF SignsUp, ChangesEmail, Columns
    <3>2. users'[u].email = a
      BY <1>0, <1>2, <3>1, CommitEmails
    <3>. QED
      BY <1>2, <2>1, <3>2, NoneAssumption DEF NoUser
  <2>2. CASE Op(r) # "register"
    <3>1. users'[u] # NoUser
      BY <1>2, <2>2, UsersStay DEF WritesTo, Exists
    <3>2. Op(r) = "resend" =>
            users'[u].email = a \/ <<u, users'[u].email>> \in proven'
      BY <1>2, <2>2, SpeaksStays DEF WritesTo, Speaks, Settled
    <3>. QED
      BY <2>2, <3>1, <3>2
  <2>. QED
    BY <2>1, <2>2
<1>7. Op(r) = "forgot" => <<u, a>> \in had'
  BY <1>2, SetsGrow DEF WritesTo
<1>8. /\ req[r].purpose \in Purposes
      /\ req[r].purpose = "verify" => Op(r) \in {"register", "resend"}
      /\ req[r].purpose = "reset" => Op(r) = "forgot"
  BY <1>1, <1>3 DEF Issuers, PurposeOf, Purposes
<1>9. tokens'[t].user = u
  BY <1>5
<1>. HIDE DEF u, a
<1>. QED
  BY <1>2, <1>4, <1>5, <1>6, <1>7, <1>8, <1>9

LEMMA TokenStep ==
  ASSUME IInv, NEW r \in Requests, Step(r)
  PROVE  \A t \in Tids : TokenOK(t)'
<1>0. /\ tokens \in [Tids -> Token] /\ \A t \in Tids : TokenOK(t)
      /\ tokens' \in [Tids -> Token]
  BY RowsType DEF IInv, Typed, TypeOK, RowsOK
<1>1. ASSUME NEW t \in Tids, Issued(t) PROVE TokenOK(t)'
  <2>1. /\ mailed'[t] = mailed[t] /\ tokens'[t].user = tokens[t].user
        /\ tokens'[t].purpose = tokens[t].purpose /\ tokens'[t].email = tokens[t].email
    BY <1>1, TokensStay
  <2>2. tokens'[t].status # "none"
    <3>1. CASE Commit(r)
      <4>1. t # txn[r].issued
        BY <1>1, NoneAssumption DEF IInv, Fits, TokenWrite
      <4>2. \/ tokens'[t] = [tokens[t] EXCEPT !.status = "used"]
            \/ tokens'[t] = [tokens[t] EXCEPT !.status = "deleted"]
            \/ tokens'[t] = tokens[t]
        BY <3>1, <4>1 DEF Commit
      <4>. QED
        BY <1>0, <1>1, <4>2 DEF TokenOK, Token
    <3>2. CASE ~Commit(r)
      <4>1. tokens' = tokens
        BY <3>2, RowsFrame DEF Mail, rows
      <4>. QED
        BY <1>0, <1>1, <4>1 DEF TokenOK
    <3>. QED
      BY <3>1, <3>2
  <2>. DEFINE u == tokens[t].user
  <2>3. u \in Uids /\ Exists(u) /\ mailed[t] \in Addresses
    BY <1>0, <1>1 DEF TokenOK
  <2>4. users'[u] # NoUser
    BY <2>3, UsersStay DEF Exists
  <2>5. tokens[t].purpose = "verify" =>
          users'[u].email = mailed[t] \/ <<u, users'[u].email>> \in proven'
    BY <1>0, <1>1, <2>3, SpeaksStays DEF TokenOK, Speaks, Settled
  <2>6. tokens[t].purpose = "reset" => <<u, mailed[t]>> \in had'
    BY <1>0, <1>1, SetsGrow DEF TokenOK
  <2>. QED
    BY <1>0, <1>1, <2>1, <2>2, <2>3, <2>4, <2>5, <2>6 DEF TokenOK, Exists, Speaks, Settled
<1>2. ASSUME NEW t \in Tids, ~Issued(t) PROVE TokenOK(t)'
  <2>1. CASE Commit(r) /\ t = txn[r].issued
    <3>1. txn[r].issued # None
      BY <2>1, NoneAssumption
    <3>. QED
      BY <2>1, <3>1, TokenNew DEF TokenOK, Exists, Speaks, Settled
  <2>2. CASE Commit(r) /\ t # txn[r].issued
    <3>1. t # txn[r].used
      BY <1>2, NoneAssumption DEF IInv, Fits, TokenWrite, Issued, NoToken
    <3>2. t \notin txn[r].dropped
      BY <1>2 DEF IInv, Fits, TokenWrite
    <3>3. tokens'[t] = tokens[t]
      BY <2>2, <3>1, <3>2 DEF Commit
    <3>. QED
      BY <1>2, <3>3 DEF TokenOK, Issued
  <2>3. CASE ~Commit(r)
    <3>1. tokens' = tokens
      BY <2>3, RowsFrame DEF Mail, rows
    <3>. QED
      BY <1>2, <3>1 DEF TokenOK, Issued
  <2>. QED
    BY <2>1, <2>2, <2>3
<1>. QED
  BY <1>1, <1>2

(* Unique indexes and links.                                                    *)
LEMMA UniqueStep ==
  ASSUME IInv, NEW r \in Requests, Step(r)
  PROVE  OneAccountPerEmail'
<1>0. /\ Typed /\ OneAccountPerEmail /\ \A u \in Uids : UserOK(u)' /\ UserOK(u)
      /\ \A u \in Uids : users'[u].email = None \/ users'[u] # NoUser
  BY UserStep DEF IInv, RowsOK, NoUser
<1>1. CASE Commit(r)
  <2>1. SUFFICES ASSUME NEW u \in Uids, NEW v \in Uids, users'[u].email = users'[v].email,
                        users'[u] # NoUser, u # v
                 PROVE  FALSE
    BY DEF OneAccountPerEmail
  <2>2. users'[u].email # None
    BY <1>0, <2>1, NoneAssumption DEF UserOK, Exists
  <2>3. /\ users'[u].email = IF u = txn[r].user /\ ChangesEmail(r) THEN txn[r].new.email
                             ELSE users[u].email
        /\ users'[v].email = IF v = txn[r].user /\ ChangesEmail(r) THEN txn[r].new.email
                             ELSE users[v].email
    BY <1>0, <1>1, CommitEmails
  <2>4. ChangesEmail(r) => \A w \in Uids : users[w].email # txn[r].new.email
    BY DEF IInv, Fits, UserWrite, HasEmail
  <2>5. users'[u].email = users[u].email /\ users'[v].email = users[v].email
    BY <2>1, <2>3, <2>4
  <2>6. users[u] # NoUser
    BY <2>2, <2>5 DEF NoUser
  <2>. QED
    BY <1>0, <2>1, <2>5, <2>6 DEF OneAccountPerEmail
<1>2. CASE ~Commit(r)
  BY <1>0, <1>2, RowsFrame DEF Mail, rows, OneAccountPerEmail
<1>. QED
  BY <1>1, <1>2

LEMMA LinksStep ==
  ASSUME IInv, NEW r \in Requests, Step(r)
  PROVE  AccountBelongsToOne' /\ AutoLinkProven'
<1>0. LinkWrite(r) /\ AccountBelongsToOne /\ AutoLinkProven
  BY DEF IInv, Fits, RowsOK
<1>1. CASE Commit(r)
  <2>1. links' = links \cup txn[r].link
    BY <1>1 DEF Commit
  <2>2. \A k \in links, l \in txn[r].link : k.account # l.account
    BY <1>0 DEF LinkWrite, LinkOf
  <2>3. AccountBelongsToOne'
    BY <1>0, <2>1, <2>2 DEF AccountBelongsToOne, LinkWrite
  <2>4. AutoLinkProven'
    BY <1>0, <2>1, SetsGrow DEF AutoLinkProven, LinkWrite
  <2>. QED
    BY <2>3, <2>4
<1>2. CASE ~Commit(r)
  BY <1>0, <1>2, RowsFrame DEF Mail, rows, AccountBelongsToOne, AutoLinkProven
<1>. QED
  BY <1>1, <1>2

(* OAuth states.                                                                *)
LEMMA StateStep ==
  ASSUME IInv, NEW r \in Requests, Step(r)
  PROVE  \A s \in States : StateOK(s)'
<1>0. states \in [States -> State] /\ \A s \in States : StateOK(s)
  BY DEF IInv, Typed, TypeOK, RowsOK
<1>1. ASSUME DelState(r), NEW s \in States PROVE StateOK(s)'
  <2>1. /\ popped' = popped \cup {req[r].state}
        /\ states' = [states EXCEPT ![req[r].state].status = "gone"]
    BY <1>1 DEF DelState, Deleted
  <2>2. CASE s = req[r].state
    <3>1. states'[s] = [states[s] EXCEPT !.status = "gone"]
      BY <1>0, <1>1, <2>1, <2>2
    <3>. QED
      BY <1>0, <1>1, <3>1 DEF StateOK, State
  <2>3. CASE s # req[r].state
    BY <1>0, <2>1, <2>3 DEF StateOK
  <2>. QED
    BY <2>2, <2>3
<1>2. CASE ~DelState(r)
  BY <1>0, <1>2, StatesFrame DEF oauth, StateOK
<1>. QED
  BY <1>1, <1>2

-------------------------------------------------------------------------------
(* The inductive invariant.                                                     *)
LEMMA InitIInv ==
  Init => IInv
<1>. SUFFICES ASSUME Init PROVE IInv
  OBVIOUS
<1>0. /\ load \in Workloads /\ users = [u \in Uids |-> NoUser]
      /\ tokens = [t \in Tids |-> NoToken] /\ links = {}
      /\ pc = [r \in Requests |-> "idle"] /\ req = [r \in Requests |-> NoReq]
      /\ txn = [r \in Requests |-> NoTxn] /\ before = [r \in Requests |-> NoPast]
      /\ mailed = [t \in Tids |-> None] /\ proven = {} /\ had = {}
      /\ states = [s \in States |-> NoState] /\ popped = {}
  BY DEF Init, RowsInit
<1>1. NoUser \in User /\ NoToken \in Token /\ NoState \in State /\ NoPast \in Past
  BY DEF NoUser, User, NoToken, Token, NoState, State, NoPast, Past
<1>2. NoReq \in Request /\ NoTxn \in Transaction
  BY <1>1 DEF NoReq, Request, NoTxn, Transaction
<1>3. /\ NoTxn.user = None /\ NoTxn.cols = {} /\ NoTxn.used = None /\ NoTxn.issued = None
      /\ NoTxn.dropped = {} /\ NoTxn.link = {} /\ NoReq.op = "idle"
      /\ NoPast.spent = {} /\ NoPast.valid = {} /\ NoPast.states = {}
      /\ NoUser.verified = FALSE /\ NoUser.password = None
      /\ NoState.status = "fresh" /\ NoState.mode = "none"
  BY DEF NoTxn, NoReq, NoPast, NoUser, NoState
<1>4. Typed
  BY <1>0, <1>1, <1>2, <1>3 DEF Typed, TypeOK, OneHolder, ChangesEmail, Steps
<1>5. ASSUME NEW r \in Requests PROVE Control(r) /\ Fits(r) /\ PastOK(r) /\ Supersedes(r)
  <2>1. pc[r] = "idle" /\ req[r] = NoReq /\ txn[r] = NoTxn /\ before[r] = NoPast
    BY <1>0
  <2>2. Op(r) = "idle"
    BY <1>3, <2>1 DEF Op
  <2>3. Control(r)
    BY <2>1, <2>2 DEF Control, OpAt, Issues, Uses, Calls, At, Issuers, Confirmers, EmailOps
  <2>4. Fits(r)
    BY <1>3, <2>1 DEF Fits, UserWrite, TokenWrite, LinkWrite, ChangesEmail
  <2>5. PastOK(r) /\ Supersedes(r)
    BY <1>3, <2>1 DEF PastOK, Supersedes
  <2>. QED
    BY <2>3, <2>4, <2>5
<1>6. ASSUME NEW r \in Requests, NEW q \in Requests PROVE Apart(r, q)
  BY <1>0, <1>3 DEF Apart
<1>7. RowsOK
  <2>1. \A u \in Uids : UserOK(u)
    BY <1>0, <1>3 DEF UserOK, Exists
  <2>2. \A t \in Tids : TokenOK(t)
    BY <1>0 DEF TokenOK, Issued
  <2>3. OneAccountPerEmail /\ AccountBelongsToOne /\ AutoLinkProven
    BY <1>0 DEF OneAccountPerEmail, AccountBelongsToOne, AutoLinkProven
  <2>4. \A s \in States : StateOK(s)
    BY <1>0, <1>3 DEF StateOK
  <2>. QED
    BY <2>1, <2>2, <2>3, <2>4 DEF RowsOK
<1>. QED
  BY <1>4, <1>5, <1>6, <1>7 DEF IInv

LEMMA RequestStep ==
  ASSUME IInv, NEW r \in Requests, Step(r), load' = load
  PROVE  IInv'
<1>t. Typed
  BY DEF IInv
<1>1. Typed'
  <2>1. pc' \in [Requests -> Steps] /\ before' \in [Requests -> Past]
    BY <1>t, PcType, PastType
  <2>2. req' \in [Requests -> Request] /\ txn' \in [Requests -> Transaction]
    BY ReqType, TxnType
  <2>3. /\ users' \in [Uids -> User] /\ tokens' \in [Tids -> Token] /\ links' \subseteq Link
        /\ mailed' \in [Tids -> Addresses \cup {None}]
        /\ proven' \subseteq Uids \X Addresses /\ had' \subseteq Uids \X Addresses
    BY RowsType
  <2>4. states' \in [States -> State] /\ popped' \subseteq States
    BY StatesType
  <2>5. ASSUME NEW p \in Requests, NEW q \in Requests, p # q PROVE OneHolder(p, q)'
    <3>1. CASE p = r \/ q = r
      BY <2>5, <3>1, HolderStep
    <3>2. CASE p # r /\ q # r
      <4>1. txn'[p] = txn[p] /\ txn'[q] = txn[q]
        BY <1>t, <3>2, Frame
      <4>. QED
        BY <2>5, <4>1 DEF IInv, Typed, TypeOK, OneHolder, ChangesEmail
    <3>. QED
      BY <3>1, <3>2
  <2>6. load' \in Workloads
    BY DEF IInv, Typed, TypeOK
  <2>. QED
    BY <2>1, <2>2, <2>3, <2>4, <2>5, <2>6 DEF Typed, TypeOK
<1>2. RowsOK'
  BY UserStep, TokenStep, UniqueStep, LinksStep, StateStep DEF RowsOK
<1>3. ASSUME NEW q \in Requests
      PROVE  Control(q)' /\ Fits(q)' /\ PastOK(q)' /\ Supersedes(q)'
  <2>1. CASE q = r
    <3>1. Control(r)'
      BY OpAtStep, IssuesStep, UsesStep, CallsStep DEF Control
    <3>. QED
      BY <2>1, <3>1, FitsStep, PastStep, SupersedesStep
  <2>2. CASE q # r
    BY <2>2, OtherStep
  <2>. QED
    BY <2>1, <2>2
<1>4. ASSUME NEW p \in Requests, NEW q \in Requests PROVE Apart(p, q)'
  <2>1. CASE p # q /\ (p = r \/ q = r)
    BY <2>1, ApartStep
  <2>2. CASE p # q /\ p # r /\ q # r
    <3>1. txn'[p] = txn[p] /\ txn'[q] = txn[q]
      BY <1>t, <2>2, Frame
    <3>. QED
      BY <3>1 DEF IInv, Apart
  <2>3. CASE p = q
    BY <2>3 DEF Apart
  <2>. QED
    BY <2>1, <2>2, <2>3
<1>. QED
  BY <1>1, <1>2, <1>3, <1>4 DEF IInv

(* A step that touches no request: the authorize and link routes, or nothing.   *)
LEMMA Still ==
  ASSUME IInv, UNCHANGED <<load, rows, pc, req, txn, ghosts, before, popped>>,
         states' \in [States -> State], \A s \in States : StateOK(s)'
  PROVE  IInv'
<1>1. Typed'
  BY DEF IInv, Typed, TypeOK, rows, ghosts, OneHolder, ChangesEmail
<1>2. (\A u \in Uids : UserOK(u)') /\ (\A t \in Tids : TokenOK(t)')
  BY DEF IInv, RowsOK, rows, ghosts, UserOK, TokenOK, Exists, Issued, Settled, Speaks
<1>3. OneAccountPerEmail' /\ AccountBelongsToOne' /\ AutoLinkProven'
  BY DEF IInv, RowsOK, rows, ghosts, OneAccountPerEmail, AccountBelongsToOne, AutoLinkProven
<1>4. ASSUME NEW q \in Requests
      PROVE  Control(q)' /\ Fits(q)' /\ PastOK(q)' /\ Supersedes(q)'
  <2>0. /\ users' = users /\ tokens' = tokens /\ links' = links /\ pc' = pc /\ req' = req
        /\ txn' = txn
        /\ mailed' = mailed /\ proven' = proven /\ had' = had /\ before' = before
        /\ popped' = popped
    BY DEF rows, ghosts
  <2>1. Control(q) /\ Fits(q) /\ PastOK(q) /\ Supersedes(q)
    BY DEF IInv
  <2>2. OpAt(q)'
    BY <2>0, <2>1 DEF Control, OpAt, At, Op
  <2>3. Issues(q)'
    BY <2>0, <2>1 DEF Control, Issues, At, Op, SignsUp, WritesTo, Exists, Speaks, Settled
  <2>4. Uses(q)'
    BY <2>0, <2>1 DEF Control, Uses, At, Op, Holds, Writes, Values, Issued
  <2>5. Calls(q)'
    BY <2>0, <2>1 DEF Control, Calls, At, Op, Creates, Joins
  <2>6. Fits(q)'
    BY <2>0, <2>1, FitsFrame
  <2>7. PastOK(q)' /\ Supersedes(q)'
    BY <2>0, <2>1 DEF PastOK, Supersedes, At, Op, Issued
  <2>. QED
    BY <2>2, <2>3, <2>4, <2>5, <2>6, <2>7 DEF Control
<1>5. ASSUME NEW p \in Requests, NEW q \in Requests PROVE Apart(p, q)'
  BY DEF IInv, Apart
<1>. QED
  BY <1>1, <1>2, <1>3, <1>4, <1>5 DEF IInv, RowsOK

LEMMA IInvStep ==
  IInv /\ [Next]_vars => IInv'
<1>. SUFFICES ASSUME IInv, [Next]_vars PROVE IInv'
  OBVIOUS
<1>0. states \in [States -> State] /\ \A s \in States : StateOK(s)
  BY DEF IInv, Typed, TypeOK, RowsOK
<1>1. ASSUME NEW r \in Requests, Step(r), load' = load PROVE IInv'
  BY <1>1, RequestStep
<1>2. ASSUME NEW s \in States, NEW state \in {LoginState} \cup {LinkState(u) : u \in Uids},
             Authorize(s, state), load' = load
      PROVE  IInv'
  <2>1. /\ state \in State /\ state.mode \in {"login", "link"}
        /\ (state.mode = "link" => state.user \in Uids)
    <3>1. ASSUME NEW u \in Uids
          PROVE  LinkState(u) \in State /\ LinkState(u).mode = "link" /\ LinkState(u).user = u
      BY DEF LinkState, State
    <3>2. LoginState \in State /\ LoginState.mode = "login"
      BY DEF LoginState, State
    <3>. QED
      BY <3>1, <3>2
  <2>2. states' = [states EXCEPT ![s] = state] /\ states[s] = NoState
    BY <1>2 DEF Authorize, First
  <2>3. UNCHANGED <<load, rows, pc, req, txn, ghosts, before, popped>>
    BY <1>2 DEF Authorize
  <2>4. s \notin popped
    BY <1>0, <2>2 DEF StateOK, NoState
  <2>5. ASSUME NEW x \in States PROVE StateOK(x)'
    <3>1. popped' = popped
      BY <2>3
    <3>2. CASE x = s
      <4>1. states'[x] = state
        BY <1>0, <2>2, <3>2
      <4>. QED
        BY <2>1, <2>4, <3>1, <3>2, <4>1 DEF StateOK
    <3>3. CASE x # s
      BY <1>0, <2>2, <3>1, <3>3 DEF StateOK
    <3>. QED
      BY <3>2, <3>3
  <2>. QED
    BY <1>0, <2>1, <2>2, <2>3, <2>5, Still
<1>3. CASE UNCHANGED vars
  BY <1>0, <1>3, Still DEF vars, oauth, StateOK
<1>. QED
  BY <1>1, <1>2, <1>3 DEF Next

(* IInv: types, rows, and every request's place, writes and past are            *)
(* consistent, for any number of requests, users, addresses, tokens, accounts   *)
(* and states.                                                                  *)
THEOREM InvariantHolds ==
  Spec => []IInv
BY InitIInv, IInvStep, PTL DEF Spec

(* TypeOK (AccountService): the rows, the states and the requests have their    *)
(* types, and a row lock or an address that is being written has one holder.    *)
THEOREM AccountTypes ==
  Spec => []TypeOK
<1>1. IInv => TypeOK
  BY DEF IInv, Typed
<1>. QED
  BY <1>1, InvariantHolds, PTL

(* OneAccountPerEmail (register, confirm_email_change, OAuth callback): no two  *)
(* users have one address, however their checks and their inserts interleave.   *)
THEOREM AddressesAreUnique ==
  Spec => []OneAccountPerEmail
<1>1. IInv => OneAccountPerEmail
  BY DEF IInv, RowsOK
<1>. QED
  BY <1>1, InvariantHolds, PTL

(* Which steps an operation goes through.                                       *)
LEMMA WhoseStep ==
  ASSUME IInv, NEW r \in Requests
  PROVE  /\ Op(r) \in {"idle", "callback"} \cup Issuers \cup Confirmers
         /\ Op(r) \in Confirmers => pc[r] \in {"consume", "burn", "load", "write", "commit"}
         /\ Op(r) \in Issuers =>
              pc[r] \in {"exists", "insert", "user", "scan", "sweep", "mail", "commit"}
         /\ Op(r) = "idle" => txn[r] = NoTxn
<1>1. OpAt(r) /\ pc[r] \in Steps /\ req[r] \in Request
  BY DEF IInv, Typed, TypeOK, Control
<1>2. Op(r) \in {"idle", "callback"} \cup Issuers \cup Confirmers
  BY <1>1 DEF Op, Request, EmailOps, Issuers, Confirmers
<1>3. At(r, "idle") => Op(r) = "idle" /\ txn[r] = NoTxn
  BY <1>1 DEF OpAt, Op, NoReq
<1>. QED
  BY <1>1, <1>2, <1>3 DEF OpAt, At, Steps, EmailSteps, OAuthSteps, Issuers, Confirmers

(* TokenReuseOverlaps (_consume): a token that was used when a request came is  *)
(* not used by it.                                                              *)
THEOREM TokensReusedOverlap ==
  Spec => []TokenReuseOverlaps
<1>1. IInv => TokenReuseOverlaps
  <2>. SUFFICES ASSUME IInv PROVE TokenReuseOverlaps
    OBVIOUS
  <2>1. ASSUME NEW r \in Requests, txn[r].used # None
        PROVE  txn[r].used \notin before[r].spent
    <3>1. Control(r) /\ NoTxn.used = None
      BY DEF IInv, NoTxn
    <3>2. Op(r) \in Confirmers
      BY <2>1, <3>1, WhoseStep DEF Control, Issues, Calls
    <3>3. pc[r] \in {"load", "write", "commit"}
      BY <2>1, <3>1, <3>2, WhoseStep DEF Control, Uses
    <3>4. Holds(r) /\ txn[r].used = req[r].token
      BY <3>1, <3>2, <3>3 DEF Control, Uses
    <3>. QED
      BY <3>4 DEF Holds
  <2>. QED
    BY <2>1 DEF TokenReuseOverlaps
<1>. QED
  BY <1>1, InvariantHolds, PTL

(* SupersededTokenDead (_issue, _consume): a deleted token is used by nobody,   *)
(* even by a request that had read it before.                                   *)
THEOREM SupersededTokensDie ==
  Spec => []SupersededTokenDead
<1>1. IInv => SupersededTokenDead
  BY DEF IInv, Fits, TokenWrite, SupersededTokenDead
<1>. QED
  BY <1>1, InvariantHolds, PTL

(* IssueSupersedes (_issue): when a token is issued, those of its user and      *)
(* purpose that were valid when the request came are dead.                      *)
THEOREM IssuingSupersedes ==
  Spec => []IssueSupersedes
<1>1. IInv => IssueSupersedes
  <2>. SUFFICES ASSUME IInv PROVE IssueSupersedes
    OBVIOUS
  <2>1. ASSUME NEW r \in Requests, At(r, "commit"), txn[r].issued # None,
               NEW t \in before[r].valid, tokens[t].user = req[r].user
        PROVE  t \in txn[r].dropped \/ ~Live(t)
    <3>1. Control(r) /\ Supersedes(r) /\ NoTxn.issued = None
      BY DEF IInv, NoTxn
    <3>2. Op(r) \in Issuers
      BY <2>1, <3>1, WhoseStep DEF Control, Uses, Calls
    <3>3. t \in txn[r].dropped \/ tokens[t].status = "deleted"
      BY <2>1, <3>1, <3>2 DEF Supersedes, At
    <3>. QED
      BY <3>3 DEF Live
  <2>. QED
    BY <2>1 DEF IssueSupersedes
<1>. QED
  BY <1>1, InvariantHolds, PTL

(* VerifiedWasProven (verify_email, confirm_email_change, OAuth): a verified    *)
(* address is one that a mail or a provider has vouched for, for this user.     *)
THEOREM VerifiedAddressesAreProven ==
  Spec => []VerifiedWasProven
<1>1. IInv => VerifiedWasProven
  BY DEF IInv, RowsOK, UserOK, Settled, VerifiedWasProven
<1>. QED
  BY <1>1, InvariantHolds, PTL

(* ResetByOwnMail (reset_password): a password is reset with a mail to an       *)
(* address that the user had.                                                   *)
THEOREM PasswordsAreResetByOwnMail ==
  Spec => []ResetByOwnMail
<1>1. IInv => ResetByOwnMail
  BY DEF IInv, RowsOK, UserOK, ResetByOwnMail
<1>. QED
  BY <1>1, InvariantHolds, PTL

(* StateReuseOverlaps (_pop_state): a state that was gone when a callback came  *)
(* does not serve it.                                                           *)
THEOREM StatesReusedOverlap ==
  Spec => []StateReuseOverlaps
<1>1. IInv => StateReuseOverlaps
  BY DEF IInv, Control, Calls, StateReuseOverlaps
<1>. QED
  BY <1>1, InvariantHolds, PTL

(* AccountBelongsToOne (uq_provider_account): an account at a provider has one  *)
(* link.                                                                        *)
THEOREM AccountsBelongToOne ==
  Spec => []AccountBelongsToOne
<1>1. IInv => AccountBelongsToOne
  BY DEF IInv, RowsOK
<1>. QED
  BY <1>1, InvariantHolds, PTL

(* AnsweredIsLinked (handle_callback): the user a callback answers for is the   *)
(* one the account is linked to.                                                *)
THEOREM AnswersAreLinked ==
  Spec => []AnsweredIsLinked
<1>1. IInv => AnsweredIsLinked
  BY DEF IInv, Control, Calls, AnsweredIsLinked
<1>. QED
  BY <1>1, InvariantHolds, PTL

(* AutoLinkProven (_resolve_user): a link that nobody asked for was made for a  *)
(* user who has proven the address.                                             *)
THEOREM AutoLinksAreProven ==
  Spec => []AutoLinkProven
<1>1. IInv => AutoLinkProven
  BY DEF IInv, RowsOK
<1>. QED
  BY <1>1, InvariantHolds, PTL
===============================================================================
