--------------------------- MODULE MCAccountService ---------------------------
(* Small instances of AccountService: the mailed tokens alone, OAuth with        *)
(* registration and verification, and OAuth logins while addresses change.       *)
EXTENDS AccountService, TLC

CONSTANTS a1, a2, p1, p2

Mails == [ops |-> EmailOps, users |-> 2, tokens |-> 3]
Providers ==
  [ops |-> {"register", "verify", "authorize", "link", "callback"}, users |-> 2, tokens |-> 1]
Moves ==
  [ops |-> {"register", "change", "confirm", "authorize", "callback"}, users |-> 2, tokens |-> 2]

AllWorkloads == {Mails, Providers, Moves}

(* One person at Google, one at GitHub, who shows an address there at times.     *)
GitHubProfile(shown) ==
  [provider |-> "github", account |-> p1, public |-> shown, primary |-> a1, verified |-> TRUE]
MCProfiles ==
  {[provider |-> "google", account |-> p2, public |-> None, primary |-> a1, verified |-> TRUE],
   GitHubProfile(None), GitHubProfile(a2)}

Symmetry == Permutations(Requests)
===============================================================================
