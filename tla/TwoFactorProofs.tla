--------------------------- MODULE TwoFactorProofs ---------------------------
(***************************************************************************)
(* Proofs about TwoFactor: types for every behaviour, and, when operations *)
(* do not overlap, that spent and superseded codes stay away and that an   *)
(* unconfirmed secret never counts.                                        *)
(***************************************************************************)
EXTENDS TwoFactor, TLAPS

USE TwoFactorAssumption

-----------------------------------------------------------------------------
(* The inductive invariant.                                                 *)

\* An operation that will record a code has one to record.
CodeOK(j) ==
    /\ j.op = "enable" => j.code \in Secret
    /\ j.op \in {"disable", "email", "backup"} => j.code \in Code

TypeInv == TypeOK /\ \A q \in Request : CodeOK(job[q])

\* What Accepted will make of the history.
SpentBy(op, code) ==
    IF op \in {"disable", "email", "backup"} THEN spent \cup ({code} \ Secret) ELSE spent
LatestBy(op, out) == IF op \in {"enable", "regenerate"} THEN out ELSE latest
ConfirmedBy(op, code) == IF op = "enable" THEN confirmed \cup {code} ELSE confirmed

\* The entity of an operation may be saved: the three properties hold of it.
Safe(op, code, out, new) ==
    /\ SpentBy(op, code) \cap (new.backup \cup {new.secret}) = {}
    /\ new.backup \subseteq LatestBy(op, out)
    /\ new.enabled /\ new.secret \in Secret => new.secret \in ConfirmedBy(op, code)

\* One-time codes come from nowhere but send_email_2fa_code and the batches.
MadeCodes == (made \cap EmailCode) \cup UNION (made \cap Batches)
Known(x) == x.backup \subseteq MadeCodes /\ (x.secret \in EmailCode => x.secret \in MadeCodes)
AllKnown ==
    /\ Known(row) /\ spent \subseteq MadeCodes
    /\ \A q \in Request : Known(job[q].new) /\ SpentBy(job[q].op, job[q].code) \subseteq MadeCodes

\* One operation at a time, so the entity is built on the current row.
Alone == \A q, s \in Request : job[q] # Idle /\ job[s] # Idle => q = s
Exact ==
    \A q \in Request :
        job[q].saving => job[q].dirty = {c \in Column : job[q].new[c] # row[c]}

Good == SpentCodesGone /\ OnlyLatestCodes /\ EnabledConfirmed

AllSafe == \A q \in Request : Safe(job[q].op, job[q].code, job[q].out, job[q].new)

IInv == TypeInv /\ Good /\ AllKnown /\ Alone /\ Exact /\ AllSafe

-----------------------------------------------------------------------------
(* Types, whether operations overlap or not.                                *)

LEMMA IdleIsAJob == Idle \in Job /\ CodeOK(Idle) /\ Idle.op = "idle" /\ Idle.saving = FALSE
                    /\ Idle.new = NoRow
BY DEF Idle, Job, CodeOK, NoRow, Row

\* What Load puts into the slot.
LEMMA Loaded ==
    ASSUME NEW op, NEW code, NEW out, NEW new,
           op \in {"setup", "enable", "disable", "send", "email", "backup", "regenerate"},
           code \in Code \cup {None}, out \subseteq BackupCode, new \in Row,
           NEW j, j = [Idle EXCEPT !.op = op, !.code = code, !.out = out, !.new = new]
    PROVE  /\ j \in Job /\ ~j.saving
           /\ j.op = op /\ j.code = code /\ j.out = out /\ j.new = new
BY DEF Idle, Job

\* The columns of a row, written one by one.
LEMMA RowByColumn ==
    ASSUME NEW x \in Row, NEW y \in Row, NEW D,
           NEW z, z = [c \in Column |-> IF c \in D THEN x[c] ELSE y[c]]
    PROVE  /\ z \in Row
           /\ D = {c \in Column : x[c] # y[c]} => z = x
<1>1. z = [secret |-> IF "secret" \in D THEN x.secret ELSE y.secret,
           enabled |-> IF "enabled" \in D THEN x.enabled ELSE y.enabled,
           backup |-> IF "backup" \in D THEN x.backup ELSE y.backup]
    BY DEF Column
<1>2. z \in Row
    BY <1>1 DEF Row
<1>3. ASSUME D = {c \in Column : x[c] # y[c]} PROVE z = x
    <2>1. z.secret = x.secret /\ z.enabled = x.enabled /\ z.backup = x.backup
        BY <1>1, <1>3 DEF Column
    <2>. QED BY <2>1, <1>2 DEF Row
<1>. QED BY <1>2, <1>3

LEMMA InitTypeInv == Init => TypeInv
BY IdleIsAJob DEF Init, TypeInv, TypeOK, NoRow, Row

\* An operation that loads a job of the right kind.
LEMMA LoadType ==
    ASSUME TypeInv, NEW r \in Request, NEW op, NEW code, NEW out, NEW new,
           Load(r, op, code, out, new),
           op \in {"setup", "enable", "disable", "send", "email", "backup", "regenerate"},
           code \in Code \cup {None}, out \subseteq BackupCode, new \in Row,
           op = "enable" => code \in Secret,
           op \in {"disable", "email", "backup"} => code \in Code,
           made' \subseteq Secret \cup EmailCode \cup Batches, fresh' \subseteq EmailCode
    PROVE  TypeInv'
<1>. DEFINE j == [Idle EXCEPT !.op = op, !.code = code, !.out = out, !.new = new]
<1>1. j \in Job /\ j.op = op /\ j.code = code
    BY DEF Idle, Job
<1>2. CodeOK(j)
    BY <1>1 DEF CodeOK
<1>3. job' = [job EXCEPT ![r] = j] /\ UNCHANGED <<row, history>>
    BY DEF Load
<1>. HIDE DEF j
<1>4. job' \in [Request -> Job] /\ \A q \in Request : CodeOK(job'[q])
    BY <1>1, <1>2, <1>3 DEF TypeInv, TypeOK
<1>. QED BY <1>3, <1>4 DEF TypeInv, TypeOK, history, CodeOK

\* The operations, one by one, load such a job.
LEMMA OperationsType ==
    ASSUME TypeInv, NEW r \in Request
    PROVE  /\ \A s \in Secret : SetupTotp(r, s) => TypeInv'
           /\ \A s \in Secret, b \in Batches : VerifyTotpSetup(r, s, b) => TypeInv'
           /\ \A s \in Secret, b \in Batches : RegenerateBackupCodes(r, s, b) => TypeInv'
           /\ \A c \in Secret \cup BackupCode : DisableTotp(r, c) => TypeInv'
           /\ \A e \in EmailCode : SendEmailCode(r, e) => TypeInv'
           /\ \A e \in EmailCode : VerifyEmailCode(r, e) => TypeInv'
           /\ \A c \in BackupCode : VerifyBackupCode(r, c) => TypeInv'
<1>. row \in Row /\ made \subseteq Secret \cup EmailCode \cup Batches /\ fresh \subseteq EmailCode
    BY DEF TypeInv, TypeOK
<1>1. ASSUME NEW s \in Secret, SetupTotp(r, s) PROVE TypeInv'
    <2>1. [row EXCEPT !.secret = s, !.enabled = FALSE] \in Row
        BY DEF Row
    <2>2. made' \subseteq Secret \cup EmailCode \cup Batches /\ fresh' \subseteq EmailCode
        BY <1>1 DEF SetupTotp, Generate
    <2>. QED BY <1>1, <2>1, <2>2, LoadType DEF SetupTotp, Code
<1>2. ASSUME NEW s \in Secret, NEW b \in Batches, VerifyTotpSetup(r, s, b) PROVE TypeInv'
    <2>1. [row EXCEPT !.enabled = TRUE, !.backup = b] \in Row /\ b \subseteq BackupCode
        BY DEF Row, BackupCode
    <2>2. made' \subseteq Secret \cup EmailCode \cup Batches /\ fresh' \subseteq EmailCode
        BY <1>2 DEF VerifyTotpSetup, Generate
    <2>. QED BY <1>2, <2>1, <2>2, LoadType DEF VerifyTotpSetup, Code
<1>3. ASSUME NEW s \in Secret, NEW b \in Batches, RegenerateBackupCodes(r, s, b) PROVE TypeInv'
    <2>1. [row EXCEPT !.backup = b] \in Row /\ b \subseteq BackupCode
        BY DEF Row, BackupCode
    <2>2. made' \subseteq Secret \cup EmailCode \cup Batches /\ fresh' \subseteq EmailCode
        BY <1>3 DEF RegenerateBackupCodes, Generate
    <2>. QED BY <1>3, <2>1, <2>2, LoadType DEF RegenerateBackupCodes, Code
<1>4. ASSUME NEW c \in Secret \cup BackupCode, DisableTotp(r, c) PROVE TypeInv'
    <2>1. NoRow \in Row
        BY DEF Row, NoRow
    <2>. QED BY <1>4, <2>1, LoadType DEF DisableTotp, Code
<1>5. ASSUME NEW e \in EmailCode, SendEmailCode(r, e) PROVE TypeInv'
    <2>1. [row EXCEPT !.secret = e] \in Row
        BY DEF Row
    <2>2. made' \subseteq Secret \cup EmailCode \cup Batches /\ fresh' \subseteq EmailCode
        BY <1>5 DEF SendEmailCode, Generate
    <2>. QED BY <1>5, <2>1, <2>2, LoadType DEF SendEmailCode
<1>6. ASSUME NEW e \in EmailCode, VerifyEmailCode(r, e) PROVE TypeInv'
    <2>1. [row EXCEPT !.secret = None] \in Row
        BY DEF Row
    <2>. QED BY <1>6, <2>1, LoadType DEF VerifyEmailCode, Code
<1>7. ASSUME NEW c \in BackupCode, VerifyBackupCode(r, c) PROVE TypeInv'
    <2>1. [row EXCEPT !.backup = @ \ {c}] \in Row
        BY DEF Row
    <2>. QED BY <1>7, <2>1, LoadType DEF VerifyBackupCode, Code
<1>. QED BY <1>1, <1>2, <1>3, <1>4, <1>5, <1>6, <1>7

LEMMA SavesType ==
    ASSUME TypeInv, NEW r \in Request
    PROVE  (Reselect(r) => TypeInv') /\ (Save(r) => TypeInv') /\ (Abort(r) => TypeInv')
<1>. job[r] \in Job /\ CodeOK(job[r]) /\ row \in Row
    BY DEF TypeInv, TypeOK
<1>1. CASE Reselect(r)
    <2>. DEFINE D == {c \in Column : job[r].new[c] # row[c]}
                j == [job[r] EXCEPT !.saving = TRUE, !.dirty = D]
    <2>1. j \in Job /\ CodeOK(j)
        BY DEF Job, CodeOK
    <2>2. job' = [job EXCEPT ![r] = j]
        BY <1>1 DEF Reselect, TypeInv, TypeOK
    <2>. HIDE DEF j
    <2>3. job' \in [Request -> Job] /\ \A q \in Request : CodeOK(job'[q])
        BY <2>1, <2>2 DEF TypeInv, TypeOK
    <2>. QED BY <1>1, <2>3 DEF Reselect, TypeInv, TypeOK, history, CodeOK
<1>2. CASE Save(r)
    <2>1. row' \in Row
        BY <1>2, RowByColumn DEF Save, Job
    <2>2. job' \in [Request -> Job] /\ \A q \in Request : CodeOK(job'[q])
        BY <1>2, IdleIsAJob DEF Save, TypeInv, TypeOK
    <2>3. confirmed' \subseteq Secret /\ latest' \subseteq BackupCode
        BY <1>2 DEF Save, Accepted, CodeOK, Job, TypeInv, TypeOK
    <2>4. spent' \subseteq EmailCode \cup BackupCode
        BY <1>2 DEF Save, Accepted, CodeOK, Job, TypeInv, TypeOK, Code
    <2>. QED BY <1>2, <2>1, <2>2, <2>3, <2>4 DEF Save, TypeInv, TypeOK, CodeOK
<1>3. CASE Abort(r)
    BY <1>3, IdleIsAJob DEF Abort, TypeInv, TypeOK, history, CodeOK
<1>. QED BY <1>1, <1>2, <1>3

LEMMA TypeStep == TypeInv /\ [Next]_vars => TypeInv'
<1>. SUFFICES ASSUME TypeInv, [Next]_vars PROVE TypeInv'
    OBVIOUS
<1>1. CASE UNCHANGED vars
    BY <1>1 DEF vars, TypeInv, TypeOK, CodeOK
<1>2. ASSUME NEW e \in EmailCode, Expire(e) PROVE TypeInv'
    BY <1>2 DEF Expire, TypeInv, TypeOK, CodeOK, history
<1>. QED BY <1>1, <1>2, OperationsType, SavesType DEF Next

\* The types of TwoFactor hold, with and without overlapping operations
\* (save_security and everything it is handed).
THEOREM TypeCorrect == Spec => []TypeOK
<1>1. TypeInv => TypeOK
    BY DEF TypeInv
<1>. QED BY <1>1, InitTypeInv, TypeStep, PTL DEF Spec

-----------------------------------------------------------------------------
(* One operation at a time.                                                 *)

LEMMA InitIInv == Init => IInv
<1>. SUFFICES ASSUME Init PROVE IInv
    OBVIOUS
<1>1. TypeInv
    BY InitTypeInv
<1>2. Good /\ Alone /\ Exact
    BY IdleIsAJob
    DEF Init, Good, SpentCodesGone, OnlyLatestCodes, EnabledConfirmed, Alone, Exact, NoRow
<1>3. AllKnown /\ AllSafe
    BY IdleIsAJob
    DEF Init, AllKnown, Known, AllSafe, Safe, SpentBy, LatestBy, ConfirmedBy, NoRow
<1>. QED BY <1>1, <1>2, <1>3 DEF IInv

LEMMA MoreMade ==
    ASSUME made \subseteq made'
    PROVE  MadeCodes \subseteq MadeCodes'
BY DEF MadeCodes

\* A code that is generated now was never spent.
LEMMA FreshBatch ==
    ASSUME TypeInv, AllKnown, NEW b \in Batches, b \notin made
    PROVE  spent \cap b = {}
<1>. SUFFICES ASSUME NEW x \in spent, x \in b PROVE FALSE
    OBVIOUS
<1>1. x \in BackupCode /\ x \notin EmailCode
    BY DEF BackupCode
<1>2. PICK a \in made \cap Batches : x \in a
    BY <1>1 DEF AllKnown, MadeCodes
<1>. QED BY <1>2

LEMMA FreshEmail ==
    ASSUME TypeInv, AllKnown, NEW e \in EmailCode, e \notin made
    PROVE  e \notin spent
<1>1. e \notin UNION (made \cap Batches)
    BY DEF BackupCode
<1>. QED BY <1>1 DEF AllKnown, MadeCodes

\* An operation that finds all others idle and loads a safe entity.
LEMMA LoadSafe ==
    ASSUME IInv, ~Overlap, NEW r \in Request, NEW op, NEW code, NEW out, NEW new,
           Load(r, op, code, out, new),
           op \in {"setup", "enable", "disable", "send", "email", "backup", "regenerate"},
           code \in Code \cup {None}, out \subseteq BackupCode, new \in Row,
           Safe(op, code, out, new),
           made \subseteq made',
           new.backup \subseteq MadeCodes',
           new.secret \in EmailCode => new.secret \in MadeCodes',
           SpentBy(op, code) \subseteq MadeCodes',
           TypeInv'
    PROVE  IInv'
<1>. DEFINE j == [Idle EXCEPT !.op = op, !.code = code, !.out = out, !.new = new]
<1>1. /\ j \in Job /\ ~j.saving
      /\ j.op = op /\ j.code = code /\ j.out = out /\ j.new = new
    BY DEF Idle, Job
<1>2. job' = [job EXCEPT ![r] = j] /\ UNCHANGED <<row, confirmed, latest, spent>>
    BY DEF Load, history
<1>3. \A q \in Request : job[q] = Idle
    BY DEF Load
<1>. HIDE DEF j
<1>4. /\ job'[r] = j
      /\ \A q \in Request : q # r => job'[q] = Idle
    BY <1>2, <1>3 DEF IInv, TypeInv, TypeOK
<1>5. Good'
    BY <1>2 DEF IInv, Good, SpentCodesGone, OnlyLatestCodes, EnabledConfirmed
<1>6. AllKnown'
    <2>1. Known(row)' /\ spent' \subseteq MadeCodes'
        BY <1>2, MoreMade DEF IInv, AllKnown, Known
    <2>2. Known(job[r].new)' /\ SpentBy(job[r].op, job[r].code)' \subseteq MadeCodes'
        BY <1>1, <1>2, <1>4 DEF Known, SpentBy
    <2>3. ASSUME NEW q \in Request, q # r
          PROVE  Known(job[q].new)' /\ SpentBy(job[q].op, job[q].code)' \subseteq MadeCodes'
        BY <1>4, <2>1, <2>3, IdleIsAJob DEF Known, SpentBy, NoRow
    <2>. QED BY <2>1, <2>2, <2>3 DEF AllKnown
<1>7. Alone' /\ Exact'
    BY <1>1, <1>4, IdleIsAJob DEF Alone, Exact
<1>8. AllSafe'
    <2>1. Safe(job[r].op, job[r].code, job[r].out, job[r].new)'
        BY <1>1, <1>2, <1>4 DEF Safe, SpentBy, LatestBy, ConfirmedBy
    <2>2. ASSUME NEW q \in Request, q # r
          PROVE  Safe(job[q].op, job[q].code, job[q].out, job[q].new)'
        <3>1. None \notin spent'
            BY DEF TypeInv, TypeOK
        <3>. QED
            BY <1>4, <2>2, <3>1, IdleIsAJob DEF Safe, SpentBy, LatestBy, ConfirmedBy, NoRow
    <2>. QED BY <2>1, <2>2 DEF AllSafe
<1>. QED BY <1>5, <1>6, <1>7, <1>8 DEF IInv

\* Setting up and confirming: a new secret turns two-factor off, a confirmed
\* one comes with a new batch.
LEMMA SetupSafe ==
    ASSUME IInv, ~Overlap, NEW r \in Request
    PROVE  /\ \A s \in Secret : SetupTotp(r, s) => IInv'
           /\ \A s \in Secret, b \in Batches : VerifyTotpSetup(r, s, b) => IInv'
           /\ \A s \in Secret, b \in Batches : RegenerateBackupCodes(r, s, b) => IInv'
<1>. /\ row \in Row /\ TypeInv /\ AllKnown /\ Good
     /\ spent \subseteq EmailCode \cup BackupCode
    BY DEF IInv, TypeInv, TypeOK
<1>1. ASSUME NEW s \in Secret, SetupTotp(r, s) PROVE IInv'
    <2>. DEFINE new == [row EXCEPT !.secret = s, !.enabled = FALSE]
    <2>1. new \in Row /\ new.secret = s /\ ~new.enabled /\ new.backup = row.backup
        BY DEF Row
    <2>2. made \subseteq made' /\ Load(r, "setup", None, {}, new)
        BY <1>1 DEF SetupTotp, Generate
    <2>. HIDE DEF new
    <2>3. Safe("setup", None, {}, new)
        BY <2>1 DEF Safe, SpentBy, LatestBy, ConfirmedBy, Good, SpentCodesGone, OnlyLatestCodes
    <2>4. new.backup \subseteq MadeCodes' /\ SpentBy("setup", None) \subseteq MadeCodes'
        BY <2>1, <2>2, MoreMade DEF AllKnown, Known, SpentBy
    <2>. QED
        BY <1>1, <2>1, <2>2, <2>3, <2>4, OperationsType, LoadSafe
<1>2. ASSUME NEW s \in Secret, NEW b \in Batches, VerifyTotpSetup(r, s, b) PROVE IInv'
    <2>. DEFINE new == [row EXCEPT !.enabled = TRUE, !.backup = b]
    <2>1. new \in Row /\ new.secret = s /\ new.backup = b /\ b \subseteq BackupCode
        BY <1>2 DEF Row, VerifyTotpSetup, BackupCode
    <2>2. made \subseteq made' /\ b \in made' /\ b \notin made /\ Load(r, "enable", s, b, new)
        BY <1>2 DEF VerifyTotpSetup, Generate
    <2>. HIDE DEF new
    <2>3. Safe("enable", s, b, new)
        BY <2>1, <2>2, FreshBatch DEF Safe, SpentBy, LatestBy, ConfirmedBy
    <2>4. new.backup \subseteq MadeCodes' /\ SpentBy("enable", s) \subseteq MadeCodes'
        BY <2>1, <2>2, MoreMade DEF AllKnown, MadeCodes, SpentBy
    <2>. QED
        BY <1>2, <2>1, <2>2, <2>3, <2>4, OperationsType, LoadSafe DEF Code
<1>3. ASSUME NEW s \in Secret, NEW b \in Batches, RegenerateBackupCodes(r, s, b) PROVE IInv'
    <2>. DEFINE new == [row EXCEPT !.backup = b]
    <2>1. /\ new \in Row /\ new.secret = row.secret /\ new.enabled = row.enabled
          /\ new.backup = b /\ b \subseteq BackupCode
        BY DEF Row, BackupCode
    <2>2. made \subseteq made' /\ b \in made' /\ b \notin made /\ Load(r, "regenerate", s, b, new)
        BY <1>3 DEF RegenerateBackupCodes, Generate
    <2>. HIDE DEF new
    <2>3. Safe("regenerate", s, b, new)
        BY <2>1, <2>2, FreshBatch
        DEF Safe, SpentBy, LatestBy, ConfirmedBy, Good, SpentCodesGone, EnabledConfirmed
    <2>4. /\ new.backup \subseteq MadeCodes' /\ SpentBy("regenerate", s) \subseteq MadeCodes'
          /\ new.secret \in EmailCode => new.secret \in MadeCodes'
        BY <2>1, <2>2, MoreMade DEF AllKnown, Known, MadeCodes, SpentBy
    <2>. QED
        BY <1>3, <2>1, <2>2, <2>3, <2>4, OperationsType, LoadSafe DEF Code
<1>. QED BY <1>1, <1>2, <1>3

\* Spending a code: it is gone from the entity.
LEMMA SpendSafe ==
    ASSUME IInv, ~Overlap, NEW r \in Request
    PROVE  /\ \A c \in Secret \cup BackupCode : DisableTotp(r, c) => IInv'
           /\ \A e \in EmailCode : SendEmailCode(r, e) => IInv'
           /\ \A e \in EmailCode : VerifyEmailCode(r, e) => IInv'
           /\ \A c \in BackupCode : VerifyBackupCode(r, c) => IInv'
<1>. /\ row \in Row /\ TypeInv /\ AllKnown /\ Good
     /\ spent \subseteq EmailCode \cup BackupCode
    BY DEF IInv, TypeInv, TypeOK
<1>1. ASSUME NEW c \in Secret \cup BackupCode, DisableTotp(r, c) PROVE IInv'
    <2>1. NoRow \in Row /\ NoRow.secret = None /\ ~NoRow.enabled /\ NoRow.backup = {}
        BY DEF Row, NoRow
    <2>2. made' = made /\ Load(r, "disable", c, {}, NoRow)
        BY <1>1 DEF DisableTotp
    <2>3. Safe("disable", c, {}, NoRow)
        BY <2>1 DEF Safe, SpentBy, LatestBy, ConfirmedBy
    <2>4. SpentBy("disable", c) \subseteq MadeCodes'
        BY <1>1, <2>2, MoreMade DEF DisableTotp, AllKnown, Known, SpentBy
    <2>. QED
        BY <1>1, <2>1, <2>2, <2>3, <2>4, OperationsType, LoadSafe DEF Code
<1>2. ASSUME NEW e \in EmailCode, SendEmailCode(r, e) PROVE IInv'
    <2>. DEFINE new == [row EXCEPT !.secret = e]
    <2>1. new \in Row /\ new.secret = e /\ new.backup = row.backup
        BY DEF Row
    <2>2. made \subseteq made' /\ e \in made' /\ e \notin made /\ Load(r, "send", None, {}, new)
        BY <1>2 DEF SendEmailCode, Generate
    <2>. HIDE DEF new
    <2>3. Safe("send", None, {}, new)
        BY <2>1, <2>2, FreshEmail
        DEF Safe, SpentBy, LatestBy, ConfirmedBy, Good, SpentCodesGone, OnlyLatestCodes
    <2>4. /\ new.backup \subseteq MadeCodes' /\ SpentBy("send", None) \subseteq MadeCodes'
          /\ e \in MadeCodes'
        BY <2>1, <2>2, MoreMade DEF AllKnown, Known, MadeCodes, SpentBy
    <2>. QED
        BY <1>2, <2>1, <2>2, <2>3, <2>4, OperationsType, LoadSafe
<1>3. ASSUME NEW e \in EmailCode, VerifyEmailCode(r, e) PROVE IInv'
    <2>. DEFINE new == [row EXCEPT !.secret = None]
    <2>1. new \in Row /\ new.secret = None /\ new.backup = row.backup
        BY DEF Row
    <2>2. made' = made /\ row.secret = e /\ Load(r, "email", e, {}, new)
        BY <1>3 DEF VerifyEmailCode
    <2>. HIDE DEF new
    <2>3. e \notin row.backup
        BY DEF Row
    <2>4. Safe("email", e, {}, new)
        BY <2>1, <2>3
        DEF Safe, SpentBy, LatestBy, ConfirmedBy, Good, SpentCodesGone, OnlyLatestCodes
    <2>5. new.backup \subseteq MadeCodes' /\ SpentBy("email", e) \subseteq MadeCodes'
        BY <2>1, <2>2, MoreMade DEF AllKnown, Known, SpentBy
    <2>. QED
        BY <1>3, <2>1, <2>2, <2>4, <2>5, OperationsType, LoadSafe DEF Code
<1>4. ASSUME NEW c \in BackupCode, VerifyBackupCode(r, c) PROVE IInv'
    <2>. DEFINE new == [row EXCEPT !.backup = @ \ {c}]
    <2>1. /\ new \in Row /\ new.secret = row.secret /\ new.enabled = row.enabled
          /\ new.backup = row.backup \ {c}
        BY DEF Row
    <2>2. made' = made /\ c \in row.backup /\ Load(r, "backup", c, {}, new)
        BY <1>4 DEF VerifyBackupCode
    <2>. HIDE DEF new
    <2>3. c # row.secret
        BY DEF Row
    <2>4. Safe("backup", c, {}, new)
        BY <2>1, <2>3
        DEF Safe, SpentBy, LatestBy, ConfirmedBy, Good, SpentCodesGone, OnlyLatestCodes,
            EnabledConfirmed
    <2>5. /\ new.backup \subseteq MadeCodes' /\ SpentBy("backup", c) \subseteq MadeCodes'
          /\ new.secret \in EmailCode => new.secret \in MadeCodes'
        BY <2>1, <2>2, MoreMade DEF AllKnown, Known, SpentBy
    <2>. QED
        BY <1>4, <2>1, <2>2, <2>4, <2>5, OperationsType, LoadSafe DEF Code
<1>. QED BY <1>1, <1>2, <1>3, <1>4

\* Nothing has come between the read of an operation and its save: the row
\* becomes the entity.
LEMMA SaveSafe ==
    ASSUME IInv, NEW r \in Request, Save(r)
    PROVE  IInv'
<1>. DEFINE j == job[r]
<1>1. /\ j \in Job /\ j.saving /\ row \in Row /\ TypeInv /\ AllKnown
      /\ Safe(j.op, j.code, j.out, j.new) /\ Known(j.new)
      /\ SpentBy(j.op, j.code) \subseteq MadeCodes
    BY DEF IInv, TypeInv, TypeOK, AllSafe, AllKnown, Save
<1>2. row' = j.new
    <2>1. j.dirty = {c \in Column : j.new[c] # row[c]} /\ j.new \in Row
        BY <1>1 DEF IInv, Exact, Job
    <2>2. row' = [c \in Column |-> IF c \in j.dirty THEN j.new[c] ELSE row[c]]
        BY DEF Save
    <2>. HIDE DEF j
    <2>. QED BY <1>1, <2>1, <2>2, RowByColumn
<1>3. /\ spent' = SpentBy(j.op, j.code) /\ latest' = LatestBy(j.op, j.out)
      /\ confirmed' = ConfirmedBy(j.op, j.code) /\ made' = made
    BY DEF Save, Accepted, SpentBy, LatestBy, ConfirmedBy
<1>4. \A q \in Request : job'[q] = Idle
    BY <1>1, IdleIsAJob DEF IInv, Alone, Save, TypeInv, TypeOK
<1>. HIDE DEF j
<1>5. TypeInv'
    BY <1>1, SavesType
<1>6. Good'
    BY <1>1, <1>2, <1>3 DEF Safe, Good, SpentCodesGone, OnlyLatestCodes, EnabledConfirmed
<1>7. AllKnown'
    BY <1>1, <1>2, <1>3, <1>4, IdleIsAJob DEF AllKnown, Known, MadeCodes, SpentBy, NoRow
<1>8. Alone' /\ Exact'
    BY <1>4, IdleIsAJob DEF Alone, Exact
<1>9. AllSafe'
    <2>1. None \notin spent'
        BY <1>5 DEF TypeInv, TypeOK
    <2>. QED
        BY <1>4, <2>1, IdleIsAJob DEF AllSafe, Safe, SpentBy, LatestBy, ConfirmedBy, NoRow
<1>. QED BY <1>5, <1>6, <1>7, <1>8, <1>9 DEF IInv

LEMMA ReselectSafe ==
    ASSUME IInv, NEW r \in Request, Reselect(r)
    PROVE  IInv'
<1>1. TypeInv' /\ TypeInv
    BY SavesType DEF IInv
<1>2. /\ job[r] # Idle /\ UNCHANGED <<row, made, confirmed, latest, spent>>
      /\ job'[r].saving /\ job'[r].dirty = {c \in Column : job'[r].new[c] # row[c]}
      /\ \A q \in Request :
            /\ job'[q].op = job[q].op /\ job'[q].code = job[q].code
            /\ job'[q].out = job[q].out /\ job'[q].new = job[q].new
            /\ q # r => job'[q] = job[q]
    <2>. DEFINE D == {c \in Column : job[r].new[c] # row[c]}
                j == [job[r] EXCEPT !.saving = TRUE, !.dirty = D]
    <2>1. job[r] \in Job /\ job \in [Request -> Job] /\ job[r] # Idle
        BY <1>1, IdleIsAJob DEF TypeInv, TypeOK, Reselect
    <2>2. /\ j.op = job[r].op /\ j.code = job[r].code /\ j.out = job[r].out
          /\ j.new = job[r].new /\ j.saving /\ j.dirty = D
        BY <2>1 DEF Job
    <2>3. job' = [job EXCEPT ![r] = j] /\ UNCHANGED <<row, made, confirmed, latest, spent>>
        BY <2>1 DEF Reselect, history
    <2>. HIDE DEF j
    <2>4. job'[r] = j /\ \A q \in Request : q # r => job'[q] = job[q]
        BY <2>1, <2>3
    <2>. QED BY <2>1, <2>2, <2>3, <2>4
<1>3. Good' /\ AllSafe'
    BY <1>2 DEF IInv, Good, SpentCodesGone, OnlyLatestCodes, EnabledConfirmed,
                AllSafe, Safe, SpentBy, LatestBy, ConfirmedBy
<1>4. AllKnown'
    BY <1>2 DEF IInv, AllKnown, Known, MadeCodes, SpentBy
<1>5. Alone' /\ Exact'
    BY <1>2 DEF IInv, Alone, Exact
<1>. QED BY <1>1, <1>3, <1>4, <1>5 DEF IInv

LEMMA AbortSafe ==
    ASSUME IInv, NEW r \in Request, Abort(r)
    PROVE  IInv'
<1>1. TypeInv' /\ TypeInv
    BY SavesType DEF IInv
<1>2. /\ UNCHANGED <<row, made, confirmed, latest, spent>>
      /\ \A q \in Request : job'[q] = IF q = r THEN Idle ELSE job[q]
    BY <1>1 DEF Abort, history, TypeInv, TypeOK
<1>3. Good' /\ Alone' /\ Exact'
    BY <1>2, IdleIsAJob
    DEF IInv, Good, SpentCodesGone, OnlyLatestCodes, EnabledConfirmed, Alone, Exact
<1>4. AllKnown'
    BY <1>2, IdleIsAJob DEF IInv, AllKnown, Known, MadeCodes, SpentBy, NoRow
<1>5. AllSafe'
    BY <1>1, <1>2, IdleIsAJob
    DEF IInv, AllSafe, Safe, SpentBy, LatestBy, ConfirmedBy, NoRow, TypeInv, TypeOK
<1>. QED BY <1>1, <1>3, <1>4, <1>5 DEF IInv

\* Neither the clock nor a stutter is seen by the invariant.
LEMMA RestSafe ==
    ASSUME IInv, UNCHANGED <<row, job, made, confirmed, latest, spent>>, TypeInv'
    PROVE  IInv'
BY DEF IInv, Good, SpentCodesGone, OnlyLatestCodes, EnabledConfirmed, AllKnown, Known,
       MadeCodes, SpentBy, LatestBy, ConfirmedBy, Alone, Exact, AllSafe, Safe

LEMMA StepIInv == ~Overlap /\ IInv /\ [Next]_vars => IInv'
<1>. SUFFICES ASSUME ~Overlap, IInv, [Next]_vars PROVE IInv'
    OBVIOUS
<1>1. TypeInv'
    BY TypeStep DEF IInv
<1>2. CASE UNCHANGED vars
    BY <1>1, <1>2, RestSafe DEF vars
<1>3. ASSUME NEW e \in EmailCode, Expire(e) PROVE IInv'
    BY <1>1, <1>3, RestSafe DEF Expire, history
<1>. QED
    BY <1>2, <1>3, SetupSafe, SpendSafe, SaveSafe, ReselectSafe, AbortSafe DEF Next

LEMMA SerialInvariant == ~Overlap => (Spec => []IInv)
<1>. SUFFICES ASSUME ~Overlap PROVE Spec => []IInv
    OBVIOUS
<1>1. IInv /\ [Next]_vars => IInv'
    BY StepIInv
<1>. QED BY <1>1, InitIInv, PTL DEF Spec

\* As long as operations come one at a time, a backup code or e-mail code that
\* was accepted is never stored again (save_security writes the whole row).
THEOREM SpentStayGone == ~Overlap => (Spec => []SpentCodesGone)
<1>1. IInv => SpentCodesGone
    BY DEF IInv, Good
<1>. QED BY <1>1, SerialInvariant, PTL

\* As long as operations come one at a time, regenerating or confirming again
\* invalidates all previous backup codes (two_factor_router.py:205).
THEOREM OldBatchesGone == ~Overlap => (Spec => []OnlyLatestCodes)
<1>1. IInv => OnlyLatestCodes
    BY DEF IInv, Good
<1>. QED BY <1>1, SerialInvariant, PTL

\* As long as operations come one at a time, two-factor is never on with a
\* TOTP secret that verify_totp_setup has not seen a code of.
THEOREM OnlyConfirmedSecrets == ~Overlap => (Spec => []EnabledConfirmed)
<1>1. IInv => EnabledConfirmed
    BY DEF IInv, Good
<1>. QED BY <1>1, SerialInvariant, PTL
=============================================================================
