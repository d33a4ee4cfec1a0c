------------------------------ MODULE Accounts -----------------------------
(***************************************************************************)
(* What registration promises, without requests, retries and failures:     *)
(* an account is opened once for an e-mail address and whole, with its     *)
(* profile, settings, security row and role, and never taken back; only    *)
(* then verification mails go out, at most Tries of them.                  *)
(***************************************************************************)
EXTENDS Naturals

CONSTANTS Email, Tenant, Tries

VARIABLES account,  \* the account of an address, [tenant, rows]
          mails     \* the verification mails sent to an address

Whole == {"user", "profile", "settings", "security", "role"}
NoAccount == [tenant |-> "none", rows |-> {}]

Init == account = [e \in Email |-> NoAccount] /\ mails = [e \in Email |-> 0]

Open(e, t) ==
  /\ account[e] = NoAccount
  /\ account' = [account EXCEPT ![e] = [tenant |-> t, rows |-> Whole]]
  /\ UNCHANGED mails

Verify(e) ==
  /\ account[e] # NoAccount /\ mails[e] < Tries
  /\ mails' = [mails EXCEPT ![e] = @ + 1]
  /\ UNCHANGED account

Next == \E e \in Email : Verify(e) \/ \E t \in Tenant : Open(e, t)

Spec == Init /\ [][Next]_<<account, mails>>
=============================================================================
