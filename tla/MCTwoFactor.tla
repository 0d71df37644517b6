------------------------------ MODULE MCTwoFactor ------------------------------
(* Small instances of TwoFactor: logins and setups with two secrets for as long  *)
(* as an OTP can be valid, and recovery codes with one secret.                   *)
EXTENDS TwoFactor, TLC

Logins == [ops |-> {"login", "login_otp", "setup", "confirm", "disable"},
           secrets |-> 2, until |-> 2]
RecoveryCodes ==
  [ops |-> {"login_code", "setup", "confirm", "generate", "regenerate", "disable"},
   secrets |-> 1, until |-> 1]
Lasting == [ops |-> {"login_otp", "setup", "confirm"}, secrets |-> 1, until |-> 3]
Setups == [ops |-> {"setup", "confirm"}, secrets |-> 2, until |-> 0]

AllWorkloads == {Logins, RecoveryCodes, Lasting}
SetupWorkload == {Setups}

Symmetry == Permutations(Requests) \cup Permutations(Secrets)
===============================================================================
