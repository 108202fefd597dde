------------------------------ MODULE Accounts ------------------------------
(* The account's row and its second factor, the Worker's HTTP handlers over a *)
(* database whose statements are atomic (apps/worker/src/routes/auth.ts,      *)
(* totp.ts, and enrollment in index.ts). A handler waits at every statement,  *)
(* so any two requests interleave between theirs.                             *)
EXTENDS Integers, FiniteSets

CONSTANTS
  Request,      \* HTTP requests
  FirstSecret,  \* the secret of an account that has a second factor already
  MaxStep,      \* bound on the time steps of authenticator codes
  MaxAttempts,  \* MFA_MAX_ATTEMPTS
  Absent        \* SQL's NULL

ASSUME AccountAssumption ==
  /\ MaxStep \in Nat /\ MaxAttempts \in Nat
  /\ FirstSecret \notin Request /\ Absent \notin Request \cup {FirstSecret}

VARIABLES
  users,       \* requests whose signup made an account
  row,         \* the account: totp_secret, totp_pending, totp_last_step
  codes,       \* its unused recovery codes, one of each batch, by batch
  challenges,  \* by the login that made it: whether it is there, and its attempts
  devices,     \* devices enrolled with the one install link
  link,        \* whether the link is unused
  req,         \* by request, how far its handler has come and what it has read
  clock,       \* the present time step
  accepted,    \* history: who accepted which code, and in which era of the factor
  checked,     \* history: by challenge, codes checked against it
  era          \* history: times the second factor was turned on or off

accountVars == <<users, row, codes, challenges, devices, link, req, clock, accepted, checked, era>>

\* A secret, like a batch of recovery codes, is named after the request that made it.
Secret == Request \cup {FirstSecret}
Step == 0 .. MaxStep
Code == [k : {"totp"}, secret : Secret, step : Step] \cup [k : {"recovery"}, batch : Secret]
Kind == {"login", "mfa", "setup", "enable", "disable", "codes", "enroll"}
Stage == {"new", "reading", "claimed", "read", "verified", "cleared", "done", "refused"}
Row == [totp : Secret \cup {Absent}, pending : Secret \cup {Absent}, last : Step \cup {-1}]

Fresh == [kind |-> "login", st |-> "new", ch |-> FirstSecret, code |-> Absent,
          secret |-> Absent]

\* No account yet; one without a second factor; one with it, and a login that has
\* come as far as its challenge.
AccountInit ==
  /\ \/ users = {} /\ row = [totp |-> Absent, pending |-> Absent, last |-> -1] /\ codes = {}
     \/ users = {FirstSecret} /\ row = [totp |-> Absent, pending |-> Absent, last |-> -1] /\ codes = {}
     \/ users = {FirstSecret} /\ row = [totp |-> FirstSecret, pending |-> Absent, last |-> -1]
        /\ codes = {FirstSecret}
  /\ challenges = [c \in Secret |-> [live |-> c = FirstSecret /\ row.totp # Absent, attempts |-> 0]]
  /\ devices = {} /\ link = TRUE
  /\ req = [r \in Request |-> Fresh]
  /\ clock = 0
  /\ accepted = {}
  /\ checked = [c \in Secret |-> 0]
  /\ era = 0

-----------------------------------------------------------------------------

Goes(r, st) == req' = [req EXCEPT ![r].st = st]
Same(vs) == UNCHANGED vs

\* The codes a user can type: those of an authenticator at its present step, and
\* recovery codes, used or not.
Answered(kinds) == {FirstSecret} \cup {r \in Request : req[r].st = "done" /\ req[r].kind \in kinds}
Typed == [k : {"totp"}, secret : Answered({"setup"}), step : {clock}]
         \cup [k : {"recovery"}, batch : Answered({"enable", "codes"})]

Tick ==
  /\ clock < MaxStep /\ clock' = clock + 1
  /\ Same(<<users, row, codes, challenges, devices, link, req, accepted, checked, era>>)

\* signup: the insert happens only while the table is empty.
Signup(r) ==
  /\ req[r].st = "new"
  /\ users' = IF users = {} THEN {r} ELSE users
  /\ Goes(r, IF users = {} THEN "done" ELSE "refused")
  /\ Same(<<row, codes, challenges, devices, link, clock, accepted, checked, era>>)

\* A signed-in user's request, or a login whose password is right, reads the row.
ReadRow(r, kind, code) ==
  /\ req[r].st = "new" /\ users # {} /\ kind \in Kind \ {"mfa", "enroll"}
  /\ kind \in {"login", "setup"} => code = Absent
  /\ kind \in {"enable", "codes"} => code # Absent /\ code.k = "totp"
  /\ kind = "disable" => code # Absent
  /\ LET s == IF kind = "enable" THEN row.pending ELSE row.totp
         refused == CASE kind = "login" -> FALSE
                      [] kind = "setup" -> s # Absent
                      [] OTHER -> s = Absent
     IN req' = [req EXCEPT ![r] = [@ EXCEPT !.kind = kind, !.code = code, !.secret = s,
                                            !.st = IF refused THEN "refused" ELSE "read"]]
  /\ Same(<<users, row, codes, challenges, devices, link, clock, accepted, checked, era>>)

\* login: a challenge if there was a second factor, else a session.
LoginAnswers(r) ==
  /\ req[r].kind = "login" /\ req[r].st = "read"
  /\ challenges' = IF req[r].secret = Absent THEN challenges
                   ELSE [challenges EXCEPT ![r].live = TRUE]
  /\ Goes(r, "done")
  /\ Same(<<users, row, codes, devices, link, clock, accepted, checked, era>>)

\* login/mfa: the attempt is counted before the code is checked; a challenge that
\* has none left is deleted.
MfaClaims(r, c, code) ==
  /\ req[r].st = "new" /\ (c \in Request => req[c].kind = "login" /\ req[c].st = "done")
  /\ LET x == challenges[c]
         granted == x.live /\ x.attempts < MaxAttempts
     IN /\ challenges' = [challenges EXCEPT ![c] =
             IF granted THEN [x EXCEPT !.attempts = x.attempts + 1] ELSE [x EXCEPT !.live = FALSE]]
        /\ req' = [req EXCEPT ![r] = [@ EXCEPT !.kind = "mfa", !.ch = c, !.code = code,
                                               !.st = IF granted THEN "claimed" ELSE "refused"]]
  /\ Same(<<users, row, codes, devices, link, clock, accepted, checked, era>>)

MfaReads(r) ==
  /\ req[r].st = "claimed" /\ req[r].kind = "mfa"
  /\ req' = [req EXCEPT ![r].st = "read", ![r].secret = row.totp]
  /\ Same(<<users, row, codes, challenges, devices, link, clock, accepted, checked, era>>)

\* verifyTotp: a code of the secret, at most one step off.
Verifies(secret, code) ==
  code.secret = secret /\ code.step \in clock - 1 .. clock + 1

\* Fault: the last step accepted is not looked at.
SecondFactorReplayed(r) ==
  /\ req[r].st = "read" /\ req[r].kind \in {"mfa", "disable", "codes"}
  /\ LET c == req[r].code
         ok == IF c.k = "totp" THEN Verifies(req[r].secret, c) ELSE c.batch \in codes
     IN /\ row' = IF ok /\ c.k = "totp" THEN [row EXCEPT !.last = c.step] ELSE row
        /\ codes' = IF ok /\ c.k = "recovery" THEN codes \ {c.batch} ELSE codes
        /\ accepted' = IF ok THEN accepted \cup {[by |-> r, code |-> c, era |-> era]} ELSE accepted
        /\ Goes(r, IF ok THEN "verified" ELSE "refused")
  /\ checked' = IF req[r].kind = "mfa" THEN [checked EXCEPT ![req[r].ch] = @ + 1] ELSE checked
  /\ Same(<<users, challenges, devices, link, clock, era>>)

\* verifySecondFactor: the secret is the one read, the last step and the recovery
\* codes those of now, each checked and changed by one statement.
SecondFactor(r) ==
  /\ req[r].st = "read" /\ req[r].kind \in {"mfa", "disable", "codes"}
  /\ LET c == req[r].code
         ok == IF c.k = "totp" THEN Verifies(req[r].secret, c) /\ row.last < c.step
                               ELSE c.batch \in codes
     IN /\ row' = IF ok /\ c.k = "totp" THEN [row EXCEPT !.last = c.step] ELSE row
        /\ codes' = IF ok /\ c.k = "recovery" THEN codes \ {c.batch} ELSE codes
        /\ accepted' = IF ok THEN accepted \cup {[by |-> r, code |-> c, era |-> era]} ELSE accepted
        /\ Goes(r, IF ok THEN "verified" ELSE "refused")
  /\ checked' = IF req[r].kind = "mfa" THEN [checked EXCEPT ![req[r].ch] = @ + 1] ELSE checked
  /\ Same(<<users, challenges, devices, link, clock, era>>)

\* The challenge is deleted, then the session made.
MfaClears(r) ==
  /\ req[r].st = "verified" /\ req[r].kind = "mfa"
  /\ challenges' = [challenges EXCEPT ![req[r].ch].live = FALSE]
  /\ Goes(r, "done")
  /\ Same(<<users, row, codes, devices, link, clock, accepted, checked, era>>)

SetupStores(r) ==
  /\ req[r].st = "read" /\ req[r].kind = "setup"
  /\ row' = [row EXCEPT !.pending = r]
  /\ Goes(r, "done")
  /\ Same(<<users, codes, challenges, devices, link, clock, accepted, checked, era>>)

\* 2fa/enable: the code is checked against the pending secret that was read, and
\* what is pending now becomes the secret.
EnableStores(r) ==
  /\ req[r].st = "read" /\ req[r].kind = "enable"
  /\ IF Verifies(req[r].secret, req[r].code)
     THEN /\ row' = [totp |-> row.pending, pending |-> Absent, last |-> req[r].code.step]
          /\ era' = era + 1
          /\ accepted' = accepted \cup {[by |-> r, code |-> req[r].code, era |-> era']}
          /\ Goes(r, "verified")
     ELSE Goes(r, "refused") /\ Same(<<row, era, accepted>>)
  /\ Same(<<users, codes, challenges, devices, link, clock, checked>>)

\* newRecoveryCodes replaces them all.
NewRecoveryCodes(r) ==
  /\ req[r].st = "verified" /\ req[r].kind \in {"enable", "codes"}
  /\ codes' = {r}
  /\ Goes(r, "done")
  /\ Same(<<users, row, challenges, devices, link, clock, accepted, checked, era>>)

DisableStores(r) ==
  /\ req[r].st = "verified" /\ req[r].kind = "disable"
  /\ row' = [totp |-> Absent, pending |-> Absent, last |-> -1]
  /\ codes' = {}
  /\ era' = era + 1
  /\ Goes(r, "done")
  /\ Same(<<users, challenges, devices, link, clock, accepted, checked>>)

\* Fault: the link is used without asking whether it was.
EnrollClaimsAgain(r) ==
  /\ req[r].st = "new" /\ users # {}
  /\ link' = FALSE
  /\ req' = [req EXCEPT ![r].kind = "enroll", ![r].st = "claimed"]
  /\ Same(<<users, row, codes, challenges, devices, clock, accepted, checked, era>>)

\* daemon/enroll: the link is consumed, then the device inserted.
EnrollClaims(r) ==
  /\ req[r].st = "new" /\ users # {}
  /\ link' = FALSE
  /\ req' = [req EXCEPT ![r].kind = "enroll", ![r].st = IF link THEN "claimed" ELSE "refused"]
  /\ Same(<<users, row, codes, challenges, devices, clock, accepted, checked, era>>)

EnrollInserts(r) ==
  /\ req[r].st = "claimed" /\ req[r].kind = "enroll"
  /\ devices' = devices \cup {r}
  /\ Goes(r, "done")
  /\ Same(<<users, row, codes, challenges, link, clock, accepted, checked, era>>)

AccountNext ==
  \/ Tick
  \/ \E r \in Request :
       \/ Signup(r) \/ LoginAnswers(r) \/ MfaReads(r) \/ SecondFactor(r) \/ MfaClears(r)
       \/ SetupStores(r) \/ EnableStores(r) \/ NewRecoveryCodes(r) \/ DisableStores(r)
       \/ EnrollClaims(r) \/ EnrollInserts(r)
       \/ \E kind \in Kind, code \in Typed \cup {Absent} : ReadRow(r, kind, code)
       \/ \E c \in Secret, code \in Typed : MfaClaims(r, c, code)

AccountSpec == AccountInit /\ [][AccountNext]_accountVars

-----------------------------------------------------------------------------

AccountTypeOK ==
  /\ users \subseteq Secret
  /\ row \in Row
  /\ codes \subseteq Secret
  /\ challenges \in [Secret -> [live : BOOLEAN, attempts : 0 .. MaxAttempts]]
  /\ devices \subseteq Request /\ link \in BOOLEAN
  /\ req \in [Request -> [kind : Kind, st : Stage, ch : Secret, code : Code \cup {Absent},
                          secret : Secret \cup {Absent}]]
  /\ clock \in Step
  /\ accepted \subseteq [by : Request, code : Code, era : Nat]
  /\ checked \in [Secret -> Nat]
  /\ era \in Nat

\* "Checks a TOTP code (no replays) or consumes a recovery code" (auth.ts:58): as long
\* as the second factor is neither turned on nor off, no code is accepted twice,
\* however the handlers interleave and the clock ticks.
CodesUsedOnce ==
  \A a, b \in accepted : a.code = b.code /\ a.era = b.era => a.by = b.by

\* What a statement claims, it claims for one request: one account is made, one
\* device enrolled with a link, and no more codes checked against a challenge than
\* MFA_MAX_ATTEMPTS, however many requests come at once.
ClaimedOnce ==
  /\ Cardinality(users) <= 1
  /\ Cardinality(devices) <= 1
  /\ \A c \in Secret : checked[c] <= MaxAttempts

\* Neither a code nor a challenge, a link or the right to the first account serves twice.
NothingUsedTwice == CodesUsedOnce /\ ClaimedOnce
=============================================================================
