---------------------------- MODULE Registration ---------------------------
(***************************************************************************)
(* The handler of POST /auth/register: its transaction, the event after    *)
(* the commit, the mail the event leads to, and the answer.                *)
(*                                                                         *)
(* The address is looked up before the transaction and within the tenant,  *)
(* the index on users.email is unique over all tenants: the INSERT waits   *)
(* for an uncommitted one of the same address and fails after its commit.  *)
(***************************************************************************)
EXTENDS Requests

CONSTANTS Chosen,     \* EMAIL_PROVIDER
          Configured  \* the providers that have their settings

ASSUME RegistrationAssumption ==
  Chosen \in {"ses", "sendgrid", "smtp"} /\ Configured \subseteq {"ses", "sendgrid", "smtp"}

VARIABLES account,  \* the committed rows of an address
          rows,     \* the rows a request has written and not committed
          try,      \* the number of providers it has tried
          mails     \* the verification mails sent to an address

registerVars == <<account, rows, try, mails>>

(* The chosen provider if configured, then SMTP as last resort.            *)
Providers ==
  LET first == IF Chosen \in Configured THEN <<Chosen>> ELSE <<>>
  IN IF "smtp" \in Configured /\ Chosen # "smtp" THEN first \o <<"smtp">> ELSE first

(* What a provider may do and answer: smtplib and the SendGrid client may  *)
(* fail after the mail has gone, and every exception is answered with      *)
(* False; SES lets all but ClientError through.                            *)
SmtpOutcomes == {<<TRUE, "true">>, <<TRUE, "false">>, <<FALSE, "false">>}
SendGridOutcomes == {<<TRUE, "true">>, <<TRUE, "false">>, <<FALSE, "false">>}
SesOutcomes == {<<TRUE, "true">>, <<FALSE, "false">>, <<TRUE, "raised">>, <<FALSE, "raised">>}

Outcomes(provider) ==
  IF provider = "ses" THEN SesOutcomes
  ELSE IF provider = "smtp" THEN SmtpOutcomes ELSE SendGridOutcomes

Whole == {"user", "profile", "settings", "security", "role"}
NoAccount == [tenant |-> None, rows |-> {}]

RegistrationInit ==
  /\ account = [e \in Email |-> NoAccount]
  /\ rows = [r \in Request |-> {}]
  /\ try = [r \in Request |-> 0]
  /\ mails = [e \in Email |-> 0]

Registered(e) == account[e] # NoAccount
Mine(r) == of[r].body

(* Mutant: the transaction is left open.                                   *)
RaiseOpen(r) ==
  /\ Reply(r, 500, None, "leave")
  /\ UNCHANGED <<of, cache, active, hits, account, rows, try, mails>>

(* Out of the unit of work with an exception: rollback.                    *)
Raise(r) ==
  /\ Reply(r, 500, None, "leave")
  /\ rows' = [rows EXCEPT ![r] = {}]
  /\ UNCHANGED <<of, cache, active, hits, account, try, mails>>

(* get_by_email.                                                           *)
Check(r) ==
  /\ at[r] = "check"
  /\ IF Registered(Mine(r)) /\ account[Mine(r)].tenant = of[r].tenant
     THEN Answered(r, 400, None)
     ELSE Goto(r, "insert") /\ UNCHANGED answer
  /\ UNCHANGED <<of, cache, active, hits, registerVars>>

(* Mutant: no unique index, the check alone tells.                         *)
InsertUnindexed(r) ==
  /\ at[r] = "insert"
  /\ Goto(r, "grant")
  /\ rows' = [rows EXCEPT ![r] = Whole \ {"role"}]
  /\ UNCHANGED <<of, answer, cache, active, hits, account, try, mails>>

(* save(): the user, and once its INSERT has passed the index, the         *)
(* profile, settings and security rows.                                    *)
Insert(r) ==
  /\ at[r] = "insert"
  /\ \A s \in Request : Mine(s) = Mine(r) => rows[s] = {}
  /\ IF Registered(Mine(r)) THEN Raise(r)
     ELSE /\ Goto(r, "grant")
          /\ rows' = [rows EXCEPT ![r] = Whole \ {"role"}]
          /\ UNCHANGED <<of, answer, cache, active, hits, account, try, mails>>

(* assign_role.                                                            *)
Grant(r) ==
  /\ at[r] = "grant"
  /\ Goto(r, "commit")
  /\ rows' = [rows EXCEPT ![r] = @ \cup {"role"}]
  /\ UNCHANGED <<of, answer, cache, active, hits, account, try, mails>>

Commit(r) ==
  /\ at[r] = "commit"
  /\ account' = [account EXCEPT ![Mine(r)] = [tenant |-> of[r].tenant, rows |-> rows[r]]]
  /\ rows' = [rows EXCEPT ![r] = {}]
  /\ Goto(r, "mail")
  /\ UNCHANGED <<of, answer, cache, active, hits, try, mails>>

(* The route makes its answer without the fields its schema requires: an   *)
(* exception after all that was done, and never a 201.                     *)
AnswerFails(r) == Reply(r, 500, None, "leave")

(* The event's handler tries the next provider.  What it raises the bus    *)
(* catches, and no other provider is tried.                                *)
Send(r, sent, outcome) ==
  /\ at[r] = "mail" /\ try[r] < Len(Providers)
  /\ <<sent, outcome>> \in Outcomes(Providers[try[r] + 1])
  /\ mails' = IF sent THEN [mails EXCEPT ![Mine(r)] = @ + 1] ELSE mails
  /\ IF outcome = "false"
     THEN /\ try' = [try EXCEPT ![r] = @ + 1]
          /\ UNCHANGED <<at, answer>>
     ELSE UNCHANGED try /\ AnswerFails(r)
  /\ UNCHANGED <<of, cache, active, hits, account, rows>>

(* No provider is left; the failure is printed.                            *)
Unsent(r) ==
  /\ at[r] = "mail" /\ try[r] = Len(Providers)
  /\ AnswerFails(r)
  /\ UNCHANGED <<of, cache, active, hits, registerVars>>

(* The database fails, the tenant has no default role, the client has gone:*)
(* an exception before the COMMIT.                                         *)
AbortRegister(r) == at[r] \in {"check", "insert", "grant", "commit"} /\ Raise(r)

(* The COMMIT went through, its confirmation was lost.                     *)
CommitUnconfirmed(r) ==
  /\ at[r] = "commit"
  /\ account' = [account EXCEPT ![Mine(r)] = [tenant |-> of[r].tenant, rows |-> rows[r]]]
  /\ rows' = [rows EXCEPT ![r] = {}]
  /\ Reply(r, 500, None, "leave")
  /\ UNCHANGED <<of, cache, active, hits, try, mails>>

Register(r) ==
  \/ Check(r) \/ Insert(r) \/ Grant(r) \/ Commit(r) \/ CommitUnconfirmed(r)
  \/ \E sent \in BOOLEAN, outcome \in {"true", "false", "raised"} : Send(r, sent, outcome)
  \/ Unsent(r)
=============================================================================
