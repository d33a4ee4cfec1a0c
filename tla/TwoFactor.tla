------------------------------ MODULE TwoFactor ------------------------------
(***************************************************************************)
(* TwoFactorAuthService: the row of user_security of one user, as its      *)
(* operations change it.  TOTP set-up and e-mail codes share the column    *)
(* two_factor_secret.                                                      *)
(*                                                                         *)
(* Every operation reads the row, decides, and hands a whole entity to     *)
(* save_security.  That reads the row again and assigns every column; the  *)
(* flush then updates the columns whose value differs from what was read   *)
(* the second time.  Hence three steps: Load, Reselect, Save, the last     *)
(* with the commit (nobody sees an UPDATE before its commit, and another   *)
(* UPDATE of the row waits for it).                                        *)
(*                                                                         *)
(* Codes: whoever has the authenticator of secret s presents s; a code     *)
(* that does not fit ends an operation without effect.                     *)
(***************************************************************************)
EXTENDS Integers, FiniteSets

CONSTANTS
    Request,     \* operations in flight at once
    Secret,      \* TOTP secrets (a bound on how many are ever generated)
    EmailCode,   \* codes sent by e-mail, with their timestamp (a bound)
    Batches,     \* sets of backup codes generated together (a bound)
    None,
    Overlap      \* whether operations may overlap

BackupCode == UNION Batches

ASSUME TwoFactorAssumption ==
    /\ Secret \cap EmailCode = {}
    /\ None \notin Secret \cup EmailCode \cup BackupCode
    /\ BackupCode \cap (Secret \cup EmailCode) = {}
    /\ \A a, b \in Batches : a = b \/ a \cap b = {}
    /\ Overlap \in BOOLEAN

VARIABLES
    row,        \* user_security, committed
    job,        \* the operations in flight
    made,       \* secrets, codes and batches generated so far
    fresh,      \* e-mail codes at most ten minutes old
    confirmed,  \* history: secrets verify_totp_setup saw a code of
    latest,     \* history: the backup codes last handed out
    spent       \* history: one-time codes that were accepted

vars == <<row, job, made, fresh, confirmed, latest, spent>>

Code == Secret \cup EmailCode \cup BackupCode

Row == [secret : Secret \cup EmailCode \cup {None},
        enabled : BOOLEAN,
        backup : SUBSET BackupCode]      \* {}: NULL or the empty string

Column == {"secret", "enabled", "backup"}

NoRow == [secret |-> None, enabled |-> FALSE, backup |-> {}]

Job == [op : {"idle", "setup", "enable", "disable", "send", "email", "backup",
              "regenerate"},
        code : Code \cup {None},
        out : SUBSET BackupCode,         \* the backup codes the answer will carry
        new : Row,
        saving : BOOLEAN,
        dirty : SUBSET Column]

Idle == [op |-> "idle", code |-> None, out |-> {}, new |-> NoRow,
         saving |-> FALSE, dirty |-> {}]

TypeOK ==
    /\ row \in Row
    /\ job \in [Request -> Job]
    /\ made \subseteq Secret \cup EmailCode \cup Batches
    /\ fresh \subseteq EmailCode
    /\ confirmed \subseteq Secret
    /\ latest \subseteq BackupCode
    /\ spent \subseteq EmailCode \cup BackupCode

\* What registration makes.
Init ==
    /\ row = NoRow
    /\ job = [r \in Request |-> Idle]
    /\ made = {}
    /\ fresh = {}
    /\ confirmed = {}
    /\ latest = {}
    /\ spent = {}

history == <<confirmed, latest, spent>>

-----------------------------------------------------------------------------
(* The operations, up to the entity they hand to save_security.             *)

Load(r, op, code, out, new) ==
    /\ job[r] = Idle
    /\ Overlap \/ \A q \in Request : job[q] = Idle
    /\ job' = [job EXCEPT ![r] = [Idle EXCEPT !.op = op, !.code = code,
                                            !.out = out, !.new = new]]
    /\ UNCHANGED <<row, history>>

Generate(x) ==
    /\ x \notin made
    /\ made' = made \cup {x}

\* Mutant: without "two_factor_enabled = False".
SetupTotpEnabled(r, s) ==
    /\ Generate(s)
    /\ Load(r, "setup", None, {}, [row EXCEPT !.secret = s])
    /\ UNCHANGED fresh

SetupTotp(r, s) ==
    /\ Generate(s)
    /\ Load(r, "setup", None, {}, [row EXCEPT !.secret = s, !.enabled = FALSE])
    /\ UNCHANGED fresh

VerifyTotpSetup(r, s, b) ==
    /\ row.secret = s
    /\ Generate(b)
    /\ Load(r, "enable", s, b, [row EXCEPT !.enabled = TRUE, !.backup = b])
    /\ UNCHANGED fresh

\* Either a backup code or a TOTP code.
DisableTotp(r, c) ==
    /\ row.enabled
    /\ c \in row.backup \/ (c \in Secret /\ c = row.secret)
    /\ Load(r, "disable", c, {}, NoRow)
    /\ UNCHANGED <<made, fresh>>

\* The code takes the place of whatever secret there is.
SendEmailCode(r, e) ==
    /\ Generate(e)
    /\ fresh' = fresh \cup {e}
    /\ Load(r, "send", None, {}, [row EXCEPT !.secret = e])

VerifyEmailCode(r, e) ==
    /\ row.secret = e
    /\ e \in fresh
    /\ Load(r, "email", e, {}, [row EXCEPT !.secret = None])
    /\ UNCHANGED <<made, fresh>>

\* Mutant: the list is not assigned back.
VerifyBackupCodeUnsaved(r, c) ==
    /\ c \in row.backup
    /\ Load(r, "backup", c, {}, row)
    /\ UNCHANGED <<made, fresh>>

\* verify_2fa_code, method "backup"; it does not ask whether 2FA is enabled.
VerifyBackupCode(r, c) ==
    /\ c \in row.backup
    /\ Load(r, "backup", c, {}, [row EXCEPT !.backup = @ \ {c}])
    /\ UNCHANGED <<made, fresh>>

\* Mutant: the new codes are added to the old ones.
RegenerateAppended(r, s, b) ==
    /\ row.enabled
    /\ row.secret # None => row.secret = s
    /\ Generate(b)
    /\ Load(r, "regenerate", s, b, [row EXCEPT !.backup = @ \cup b])
    /\ UNCHANGED fresh

\* The TOTP code is asked for only if there is a secret; the string of an
\* e-mail code is no secret, and verifying with it raises.
RegenerateBackupCodes(r, s, b) ==
    /\ row.enabled
    /\ row.secret # None => row.secret = s
    /\ Generate(b)
    /\ Load(r, "regenerate", s, b, [row EXCEPT !.backup = b])
    /\ UNCHANGED fresh

-----------------------------------------------------------------------------
(* save_security, the commit, and the answer.                               *)

Reselect(r) ==
    /\ job[r].op # "idle" /\ ~job[r].saving
    /\ job' = [job EXCEPT ![r].saving = TRUE,
                          ![r].dirty = {c \in Column : job[r].new[c] # row[c]}]
    /\ UNCHANGED <<row, made, fresh, history>>

Accepted(r) ==
    /\ confirmed' = IF job[r].op = "enable" THEN confirmed \cup {job[r].code} ELSE confirmed
    /\ latest' = IF job[r].op \in {"enable", "regenerate"} THEN job[r].out ELSE latest
    /\ spent' = IF job[r].op \in {"disable", "email", "backup"}
                THEN spent \cup ({job[r].code} \ Secret) ELSE spent

\* Mutant: the columns are assigned crosswise.
SaveCrosswise(r) ==
    /\ job[r].saving
    /\ row' = [row EXCEPT !.secret = job[r].new.backup]
    /\ Accepted(r)
    /\ job' = [job EXCEPT ![r] = Idle]
    /\ UNCHANGED <<made, fresh>>

Save(r) ==
    /\ job[r].saving
    /\ row' = [c \in Column |-> IF c \in job[r].dirty THEN job[r].new[c] ELSE row[c]]
    /\ Accepted(r)
    /\ job' = [job EXCEPT ![r] = Idle]
    /\ UNCHANGED <<made, fresh>>

\* A statement raises or the connection is lost.
Abort(r) ==
    /\ job[r] # Idle
    /\ job' = [job EXCEPT ![r] = Idle]
    /\ UNCHANGED <<row, made, fresh, history>>

\* Ten minutes after an e-mail code was made.
Expire(e) ==
    /\ e \in fresh
    /\ fresh' = fresh \ {e}
    /\ UNCHANGED <<row, job, made, history>>

Next ==
    \/ \E r \in Request :
        \/ \E s \in Secret : SetupTotp(r, s)
        \/ \E s \in Secret, b \in Batches : VerifyTotpSetup(r, s, b)
        \/ \E s \in Secret, b \in Batches : RegenerateBackupCodes(r, s, b)
        \/ \E c \in Secret \cup BackupCode : DisableTotp(r, c)
        \/ \E e \in EmailCode : SendEmailCode(r, e) \/ VerifyEmailCode(r, e)
        \/ \E c \in BackupCode : VerifyBackupCode(r, c)
        \/ Reselect(r) \/ Save(r) \/ Abort(r)
    \/ \E e \in EmailCode : Expire(e)

Spec == Init /\ [][Next]_vars

-----------------------------------------------------------------------------
(* Properties.                                                              *)

\* A backup code or e-mail code that was accepted is never stored again, by
\* whichever operation it was spent and whatever is written after.
SpentCodesGone == spent \cap (row.backup \cup {row.secret}) = {}

\* two_factor_router.py:205, "This will invalidate all previous backup codes":
\* the codes that work are among those last handed out.
OnlyLatestCodes == row.backup \subseteq latest

\* Two-factor is never on with an authenticator that was not shown to work:
\* a new set-up turns it off until verify_totp_setup has seen a code.
EnabledConfirmed == row.enabled /\ row.secret \in Secret => row.secret \in confirmed

\* two_factor_auth.py:298, "Current TOTP code for verification": while
\* two-factor is on there is a secret that such a code can be checked with.
EnabledHasSecret == row.enabled => row.secret \in Secret
=============================================================================
