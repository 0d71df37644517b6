---------------------------- MODULE SessionLedger ----------------------------
(* What the session store promises, whatever the requests, the cache and the  *)
(* failures do: a session is opened once, belongs to one user, and once ended *)
(* stays ended; a single commit only ends sessions of one user.               *)
CONSTANTS Users, Sids, Owner

VARIABLE ledger     \* the committed state of every session

Status == {"absent", "active", "ended"}

Init == ledger = [s \in Sids |-> "absent"]

Open(s) ==
  /\ ledger[s] = "absent"
  /\ ledger' = [ledger EXCEPT ![s] = "active"]

End(S) ==
  /\ \A s \in S : ledger[s] = "active"
  /\ \E u \in Users : \A s \in S : Owner[s] = u
  /\ ledger' = [s \in Sids |-> IF s \in S THEN "ended" ELSE ledger[s]]

Next ==
  \/ \E s \in Sids : Open(s)
  \/ \E S \in SUBSET Sids : End(S)

Spec == Init /\ [][Next]_ledger
==============================================================================
