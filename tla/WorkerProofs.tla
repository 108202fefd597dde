----------------------------- MODULE WorkerProofs -----------------------------
(* Proofs about the Worker: the account's row and second factor (Accounts),   *)
(* what it keeps for daemons (HubPlugins), what the hub tells its tabs         *)
(* (AccountHub) and what it is sent of a dictation (Dictation), for any number *)
(* of requests, daemons, tabs, sockets and chunks.                             *)
EXTENDS Accounts, HubPlugins, AccountHub, Dictation, FiniteSetTheorems, TLAPS

(* The account: nothing that is claimed or typed serves twice.              *)

\* Requests whose handler is past its check of the account's state.
Under(r) == req[r].st \in {"claimed", "read", "verified"}

\* Handlers that check a code have one, an enrollment has no other claim, and only
\* the authenticator's codes turn the second factor on or replace its codes.
HandlersHaveCodes ==
  \A r \in Request : Under(r) /\ req[r].kind \in {"mfa", "enable", "disable", "codes"} =>
    /\ req[r].code \in Code
    /\ req[r].kind \in {"enable", "codes"} => req[r].code.k = "totp"

\* The step that was accepted last covers every authenticator's code of this era.
StepsPassed ==
  \A a \in accepted : /\ a.era <= era
                      /\ a.code.k = "totp" /\ a.era = era => a.code.step <= row.last

\* A batch is given out once, when the handler that made it is done, and its code
\* leaves the table with its use.
Made(b) == b = FirstSecret \/ req[b].st = "done"
BatchesSpent ==
  /\ \A b \in codes : Made(b)
  /\ \A a \in accepted : a.code.k = "recovery" => Made(a.code.batch) /\ a.code.batch \notin codes

\* The link serves one handler, which alone may insert a device.
Enrolling == devices \cup {r \in Request : req[r].st = "claimed" /\ req[r].kind = "enroll"}
LinkSpent ==
  /\ link => Enrolling = {}
  /\ \A q, r \in Enrolling : q = r

OneUser == \A u, v \in users : u = v

\* Every attempt that was counted against a challenge pays for one check of a code:
\* one that was made or one that is under way.
Checking(c) == {r \in Request : req[r].kind = "mfa" /\ req[r].ch = c /\ req[r].st \in {"claimed", "read"}}
AttemptsPay ==
  \A c \in Secret : /\ IsFiniteSet(Checking(c))
                    /\ checked[c] + Cardinality(Checking(c)) <= challenges[c].attempts

AccountInv ==
  /\ AccountTypeOK /\ HandlersHaveCodes /\ StepsPassed /\ BatchesSpent /\ CodesUsedOnce
  /\ LinkSpent /\ OneUser /\ AttemptsPay

-----------------------------------------------------------------------------

RequestState == [kind : Kind, st : Stage, ch : Secret, code : Code \cup {Absent},
             secret : Secret \cup {Absent}]

(* What a user can type is a code.                                          *)
LEMMA TypedAreCodes ==
  ASSUME AccountTypeOK PROVE Typed \subseteq Code
<1> SUFFICES ASSUME NEW x \in Typed PROVE x \in Code
  OBVIOUS
<1>1. CASE x \in [k : {"totp"}, secret : Answered({"setup"}), step : {clock}]
  BY <1>1 DEF AccountTypeOK, Answered, Secret, Code
<1>2. CASE x \in [k : {"recovery"}, batch : Answered({"enable", "codes"})]
  BY <1>2 DEF Answered, Secret, Code
<1>3. QED
  BY <1>1, <1>2 DEF Typed

(* The two shapes of a code.                                                *)
LEMMA CodeShapes ==
  ASSUME NEW x \in Code
  PROVE  /\ x.k \in {"totp", "recovery"}
         /\ x.k = "totp" => x.secret \in Secret /\ x.step \in Step
         /\ x.k = "recovery" => x.batch \in Secret /\ x = [k |-> "recovery", batch |-> x.batch]
BY DEF Code

(* A handler goes to its next wait, and no other moves.                     *)
LEMMA GoesTo ==
  ASSUME req \in [Request -> RequestState], NEW r \in Request, NEW st \in Stage,
         req' = [req EXCEPT ![r].st = st]
  PROVE  /\ req' \in [Request -> RequestState]
         /\ \A q \in Request : q # r => req'[q] = req[q]
         /\ \A q \in Request : /\ req'[q].kind = req[q].kind /\ req'[q].ch = req[q].ch
                               /\ req'[q].code = req[q].code /\ req'[q].secret = req[q].secret
         /\ req'[r].st = st
<1>1. [req[r] EXCEPT !.st = st] \in RequestState
  BY DEF RequestState
<1>2. req' = [req EXCEPT ![r] = [req[r] EXCEPT !.st = st]]
  OBVIOUS
<1>3. QED
  BY <1>1, <1>2 DEF RequestState

(* A request comes in: its handler has read what it does next with.         *)
LEMMA ComesIn ==
  ASSUME req \in [Request -> RequestState], NEW r \in Request, NEW h \in RequestState,
         req' = [req EXCEPT ![r] = h]
  PROVE  /\ req' \in [Request -> RequestState]
         /\ \A q \in Request : q # r => req'[q] = req[q]
         /\ req'[r] = h
OBVIOUS

LEMMA RequestTypes ==
  ASSUME AccountTypeOK
  PROVE  /\ req \in [Request -> RequestState]
         /\ \A r \in Request : /\ req[r].kind \in Kind /\ req[r].ch \in Secret
                               /\ req[r].code \in Code \cup {Absent}
                               /\ req[r].secret \in Secret \cup {Absent}
BY DEF AccountTypeOK, RequestState

LEMMA RowIn ==
  ASSUME NEW x \in Row, NEW n \in Step, NEW s \in Secret
  PROVE  /\ [x EXCEPT !.last = n] \in Row
         /\ [x EXCEPT !.pending = s] \in Row
         /\ [totp |-> x.pending, pending |-> Absent, last |-> n] \in Row
         /\ [totp |-> Absent, pending |-> Absent, last |-> -1] \in Row
BY DEF Row

-----------------------------------------------------------------------------
(* What each action does to the handlers.                                    *)

Others(r) == /\ req' \in [Request -> RequestState]
             /\ \A q \in Request : q # r => req'[q] = req[q]
Keeps(r) == /\ req'[r].kind = req[r].kind /\ req'[r].ch = req[r].ch /\ req'[r].code = req[r].code

LEMMA Goings ==
  ASSUME AccountTypeOK, NEW r \in Request
  PROVE  /\ \A st \in Stage : Goes(r, st) => Others(r) /\ Keeps(r) /\ req'[r].st = st
         /\ MfaReads(r) => Others(r) /\ Keeps(r) /\ req'[r].st = "read"
         /\ EnrollClaims(r) => /\ Others(r) /\ req'[r].kind = "enroll"
                               /\ req'[r].st = IF link THEN "claimed" ELSE "refused"
<1>1. ASSUME NEW st \in Stage, Goes(r, st) PROVE Others(r) /\ Keeps(r) /\ req'[r].st = st
  BY <1>1, RequestTypes, GoesTo DEF Goes, Others, Keeps
<1>2. ASSUME MfaReads(r) PROVE Others(r) /\ Keeps(r) /\ req'[r].st = "read"
  <2>1. row.totp \in Secret \cup {Absent}
    BY DEF AccountTypeOK, Row
  <2>2. [req[r] EXCEPT !.st = "read", !.secret = row.totp] \in RequestState
    BY <2>1, RequestTypes DEF RequestState, Stage
  <2>3. req' = [req EXCEPT ![r] = [req[r] EXCEPT !.st = "read", !.secret = row.totp]]
    BY <1>2, RequestTypes DEF MfaReads
  <2>4. QED
    BY <2>2, <2>3, RequestTypes, ComesIn DEF Others, Keeps, RequestState
<1>3. ASSUME EnrollClaims(r)
      PROVE  /\ Others(r) /\ req'[r].kind = "enroll"
             /\ req'[r].st = IF link THEN "claimed" ELSE "refused"
  <2> DEFINE st == IF link THEN "claimed" ELSE "refused"
             h == [req[r] EXCEPT !.kind = "enroll", !.st = st]
  <2>1. h \in RequestState /\ h.kind = "enroll" /\ h.st = st
    BY RequestTypes DEF RequestState, Stage, Kind
  <2>2. req' = [req EXCEPT ![r] = h]
    BY <1>3, RequestTypes DEF EnrollClaims
  <2>3. QED
    BY <2>1, <2>2, RequestTypes, ComesIn DEF Others
<1>4. QED
  BY <1>1, <1>2, <1>3

LEMMA ReadGoes ==
  ASSUME AccountTypeOK, NEW r \in Request, NEW kind \in Kind, NEW code \in Typed \cup {Absent},
         ReadRow(r, kind, code)
  PROVE  /\ Others(r)
         /\ req'[r].kind = kind /\ req'[r].code = code /\ req'[r].st \in {"read", "refused"}
<1> DEFINE s == IF kind = "enable" THEN row.pending ELSE row.totp
           refused == CASE kind = "login" -> FALSE
                        [] kind = "setup" -> s # Absent
                        [] OTHER -> s = Absent
           st == IF refused THEN "refused" ELSE "read"
           h == [req[r] EXCEPT !.kind = kind, !.code = code, !.secret = s, !.st = st]
<1>1. s \in Secret \cup {Absent} /\ st \in Stage /\ code \in Code \cup {Absent}
  BY TypedAreCodes DEF AccountTypeOK, Row, Stage
<1>2. req' = [req EXCEPT ![r] = h]
  BY DEF ReadRow
<1>3. st \in {"read", "refused"}
  OBVIOUS
<1> HIDE DEF s, st
<1>4. h \in RequestState /\ h.kind = kind /\ h.code = code /\ h.st = st
  BY <1>1, RequestTypes DEF RequestState
<1>5. QED
  BY <1>2, <1>3, <1>4, RequestTypes, ComesIn DEF Others

LEMMA ClaimGoes ==
  ASSUME AccountTypeOK, NEW r \in Request, NEW c \in Secret, NEW code \in Typed,
         MfaClaims(r, c, code)
  PROVE  /\ Others(r)
         /\ req'[r].kind = "mfa" /\ req'[r].code = code /\ req'[r].ch = c
         /\ req'[r].st \in {"claimed", "refused"}
         /\ req'[r].st = "claimed" =>
              /\ challenges[c].attempts < MaxAttempts
              /\ challenges' = [challenges EXCEPT ![c] =
                                 [challenges[c] EXCEPT !.attempts = challenges[c].attempts + 1]]
         /\ req'[r].st = "refused" =>
              challenges' = [challenges EXCEPT ![c] = [challenges[c] EXCEPT !.live = FALSE]]
<1> DEFINE granted == challenges[c].live /\ challenges[c].attempts < MaxAttempts
           st == IF granted THEN "claimed" ELSE "refused"
           h == [req[r] EXCEPT !.kind = "mfa", !.ch = c, !.code = code, !.st = st]
<1>1. st \in Stage /\ code \in Code \cup {Absent} /\ "mfa" \in Kind
  BY TypedAreCodes DEF Stage, Kind
<1>2. req' = [req EXCEPT ![r] = h]
  BY DEF MfaClaims
<1> DEFINE more == [challenges[c] EXCEPT !.attempts = challenges[c].attempts + 1]
           dead == [challenges[c] EXCEPT !.live = FALSE]
<1>3. /\ granted => challenges' = [challenges EXCEPT ![c] = more]
      /\ ~granted => challenges' = [challenges EXCEPT ![c] = dead]
  BY DEF MfaClaims
<1>4. h \in RequestState /\ h.kind = "mfa" /\ h.code = code /\ h.ch = c /\ h.st = st
  BY <1>1, RequestTypes DEF RequestState
<1>5. QED
  BY <1>2, <1>3, <1>4, RequestTypes, ComesIn DEF Others

-----------------------------------------------------------------------------

(* What SecondFactor has found of the code, and what it does with it.       *)
CodeHolds(r) ==
  IF req[r].code.k = "totp" THEN Verifies(req[r].secret, req[r].code) /\ row.last < req[r].code.step
                            ELSE req[r].code.batch \in codes
Accepts(r, e) == accepted' = accepted \cup {[by |-> r, code |-> req[r].code, era |-> e]}

LEMMA FactorSays ==
  ASSUME AccountTypeOK, HandlersHaveCodes, NEW r \in Request, SecondFactor(r)
  PROVE  /\ req[r].code \in Code /\ req[r].st = "read"
         /\ Others(r) /\ Keeps(r) /\ req'[r].st = IF CodeHolds(r) THEN "verified" ELSE "refused"
         /\ CodeHolds(r) /\ req[r].code.k = "totp" =>
              /\ row' = [row EXCEPT !.last = req[r].code.step] /\ UNCHANGED codes
              /\ row'.last = req[r].code.step /\ row.last < req[r].code.step /\ Accepts(r, era)
         /\ CodeHolds(r) /\ req[r].code.k = "recovery" =>
              /\ codes' = codes \ {req[r].code.batch} /\ req[r].code.batch \in codes
              /\ UNCHANGED row /\ Accepts(r, era)
         /\ ~CodeHolds(r) => UNCHANGED <<row, codes, accepted>>
         /\ UNCHANGED <<users, challenges, devices, link, clock, era>>
         /\ checked' = IF req[r].kind = "mfa" THEN [checked EXCEPT ![req[r].ch] = @ + 1] ELSE checked
<1>1. req[r].st = "read" /\ req[r].code \in Code
  BY DEF SecondFactor, HandlersHaveCodes, Under
<1>2. Goes(r, IF CodeHolds(r) THEN "verified" ELSE "refused")
  BY DEF SecondFactor, CodeHolds
<1>3. Others(r) /\ Keeps(r) /\ req'[r].st = IF CodeHolds(r) THEN "verified" ELSE "refused"
  BY <1>2, Goings DEF Stage
<1>4. /\ row' = IF CodeHolds(r) /\ req[r].code.k = "totp" THEN [row EXCEPT !.last = req[r].code.step] ELSE row
      /\ codes' = IF CodeHolds(r) /\ req[r].code.k = "recovery" THEN codes \ {req[r].code.batch} ELSE codes
      /\ accepted' = IF CodeHolds(r) THEN accepted \cup {[by |-> r, code |-> req[r].code, era |-> era]} ELSE accepted
  BY DEF SecondFactor, CodeHolds
<1>5. /\ UNCHANGED <<users, challenges, devices, link, clock, era>>
      /\ checked' = IF req[r].kind = "mfa" THEN [checked EXCEPT ![req[r].ch] = @ + 1] ELSE checked
  BY DEF SecondFactor, Same
<1>6. row \in Row
  BY DEF AccountTypeOK
<1>7. [row EXCEPT !.last = req[r].code.step].last = req[r].code.step
  BY <1>6 DEF Row
<1>8. req[r].code.k = "totp" /\ CodeHolds(r) => row.last < req[r].code.step
  BY DEF CodeHolds
<1>9. req[r].code.k = "recovery" /\ CodeHolds(r) => req[r].code.batch \in codes
  BY DEF CodeHolds
<1>10. "totp" # "recovery"
  OBVIOUS
<1>11. QED
  BY <1>1, <1>3, <1>4, <1>5, <1>7, <1>8, <1>9, <1>10 DEF Accepts

LEMMA EnableSays ==
  ASSUME AccountTypeOK, HandlersHaveCodes, NEW r \in Request, EnableStores(r)
  PROVE  /\ req[r].code \in Code /\ req[r].code.k = "totp"
         /\ req[r].st = "read" /\ req[r].kind = "enable"
         /\ Others(r) /\ Keeps(r) /\ req'[r].st \in {"verified", "refused"}
         /\ \/ /\ row' = [totp |-> row.pending, pending |-> Absent, last |-> req[r].code.step]
               /\ row'.last = req[r].code.step
               /\ era' = era + 1 /\ Accepts(r, era + 1)
            \/ UNCHANGED <<row, era, accepted>>
         /\ UNCHANGED <<users, codes, challenges, devices, link, clock, checked>>
<1>1. /\ req[r].st = "read" /\ req[r].kind = "enable"
      /\ req[r].code \in Code /\ req[r].code.k = "totp"
  BY DEF EnableStores, HandlersHaveCodes, Under
<1>2. Goes(r, "verified") \/ Goes(r, "refused")
  BY DEF EnableStores
<1>3. QED
  BY <1>1, <1>2, Goings DEF EnableStores, Same, Accepts, Stage

LEMMA AcceptedIn ==
  ASSUME AccountTypeOK, NEW r \in Request, NEW x \in Code, NEW e \in Nat,
         accepted' = accepted \cup {[by |-> r, code |-> x, era |-> e]}
  PROVE  accepted' \subseteq [by : Request, code : Code, era : Nat]
BY DEF AccountTypeOK

(* The account's variables that a request's handler leaves alone.           *)
LEMMA TypeStep ==
  ASSUME AccountTypeOK, HandlersHaveCodes, AccountNext PROVE AccountTypeOK'
<1> USE AccountAssumption
<1>1. ASSUME Tick PROVE AccountTypeOK'
  BY <1>1 DEF Tick, Same, Step, AccountTypeOK
<1> SUFFICES ASSUME NEW r \in Request,
       \/ Signup(r) \/ LoginAnswers(r) \/ MfaReads(r) \/ SecondFactor(r) \/ MfaClears(r)
       \/ SetupStores(r) \/ EnableStores(r) \/ NewRecoveryCodes(r) \/ DisableStores(r)
       \/ EnrollClaims(r) \/ EnrollInserts(r)
       \/ \E kind \in Kind, code \in Typed \cup {Absent} : ReadRow(r, kind, code)
       \/ \E c \in Secret, code \in Typed : MfaClaims(r, c, code)
     PROVE AccountTypeOK'
  BY <1>1 DEF AccountNext
<1> DEFINE Rest == /\ users' \subseteq Secret /\ row' \in Row /\ codes' \subseteq Secret
                   /\ challenges' \in [Secret -> [live : BOOLEAN, attempts : 0 .. MaxAttempts]]
                   /\ devices' \subseteq Request /\ link' \in BOOLEAN
                   /\ clock' \in Step
                   /\ accepted' \subseteq [by : Request, code : Code, era : Nat]
                   /\ checked' \in [Secret -> Nat] /\ era' \in Nat
<1>0. Others(r) /\ Rest => AccountTypeOK'
  BY DEF AccountTypeOK, Others, RequestState
<1> SUFFICES Others(r) /\ Rest
  BY <1>0
<1>2. CASE Signup(r)
  BY <1>2, Goings DEF Signup, Same, Stage, Secret, AccountTypeOK
<1>3. CASE LoginAnswers(r)
  <2>1. [challenges[r] EXCEPT !.live = TRUE] \in [live : BOOLEAN, attempts : 0 .. MaxAttempts]
    <3>1. challenges[r] \in [live : BOOLEAN, attempts : 0 .. MaxAttempts]
      BY DEF AccountTypeOK, Secret
    <3>2. QED
      BY <3>1
  <2>2. challenges' = challenges \/ challenges' = [challenges EXCEPT ![r] = [challenges[r] EXCEPT !.live = TRUE]]
    BY <1>3 DEF LoginAnswers
  <2>3. challenges' \in [Secret -> [live : BOOLEAN, attempts : 0 .. MaxAttempts]]
    BY <2>1, <2>2 DEF AccountTypeOK
  <2>4. QED
    BY <1>3, <2>3, Goings DEF LoginAnswers, Same, Stage, AccountTypeOK
<1>4. CASE MfaReads(r)
  BY <1>4, Goings DEF MfaReads, Same, AccountTypeOK
<1>5. CASE SecondFactor(r)
  <2>1. row' \in Row
    <3>1. row \in Row /\ FirstSecret \in Secret
      BY DEF AccountTypeOK, Secret
    <3>2. req[r].code.k = "totp" => [row EXCEPT !.last = req[r].code.step] \in Row
      BY <1>5, <3>1, FactorSays, CodeShapes, RowIn
    <3>3. QED
      BY <1>5, <3>1, <3>2, FactorSays, CodeShapes
  <2>2. codes' \subseteq Secret
    BY <1>5, FactorSays, CodeShapes DEF AccountTypeOK
  <2>3. accepted' \subseteq [by : Request, code : Code, era : Nat]
    BY <1>5, FactorSays, CodeShapes, AcceptedIn DEF AccountTypeOK, Accepts
  <2>4. checked' \in [Secret -> Nat]
    <3>1. req[r].ch \in Secret /\ checked[req[r].ch] + 1 \in Nat
      BY RequestTypes DEF AccountTypeOK
    <3>2. checked' = checked \/ checked' = [checked EXCEPT ![req[r].ch] = checked[req[r].ch] + 1]
      BY <1>5, FactorSays
    <3>3. QED
      BY <3>1, <3>2 DEF AccountTypeOK
  <2>5. QED
    BY <1>5, <2>1, <2>2, <2>3, <2>4, FactorSays DEF AccountTypeOK
<1>6. CASE MfaClears(r)
  BY <1>6, Goings DEF MfaClears, Same, Stage, AccountTypeOK
<1>7. CASE SetupStores(r)
  BY <1>7, Goings, RowIn DEF SetupStores, Same, Stage, Secret, AccountTypeOK, Step
<1>8. CASE EnableStores(r)
  <2>1. [totp |-> row.pending, pending |-> Absent, last |-> req[r].code.step] \in Row
    <3>1. row \in Row /\ FirstSecret \in Secret /\ req[r].code.step \in Step
      BY <1>8, EnableSays, CodeShapes DEF AccountTypeOK, Secret
    <3>2. QED
      BY <3>1, RowIn
  <2>2. era + 1 \in Nat /\ era \in Nat
    BY DEF AccountTypeOK
  <2>3. Accepts(r, era + 1) => accepted' \subseteq [by : Request, code : Code, era : Nat]
    BY <1>8, <2>2, EnableSays, AcceptedIn DEF Accepts
  <2>4. QED
    BY <1>8, <2>1, <2>2, <2>3, EnableSays DEF AccountTypeOK
<1>9. CASE NewRecoveryCodes(r)
  BY <1>9, Goings DEF NewRecoveryCodes, Same, Stage, Secret, AccountTypeOK
<1>10. CASE DisableStores(r)
  BY <1>10, Goings DEF DisableStores, Same, Stage, Row, AccountTypeOK
<1>11. CASE EnrollClaims(r)
  BY <1>11, Goings DEF EnrollClaims, Same, AccountTypeOK
<1>12. CASE EnrollInserts(r)
  BY <1>12, Goings DEF EnrollInserts, Same, Stage, AccountTypeOK
<1>13. CASE \E kind \in Kind, code \in Typed \cup {Absent} : ReadRow(r, kind, code)
  <2> PICK kind \in Kind, code \in Typed \cup {Absent} : ReadRow(r, kind, code)
    BY <1>13
  <2>1. UNCHANGED <<users, row, codes, challenges, devices, link, clock, accepted, checked, era>>
    BY DEF ReadRow, Same
  <2>2. QED
    BY <2>1, ReadGoes DEF AccountTypeOK
<1>14. CASE \E c \in Secret, code \in Typed : MfaClaims(r, c, code)
  <2> PICK c \in Secret, code \in Typed : MfaClaims(r, c, code)
    BY <1>14
  <2>1. UNCHANGED <<users, row, codes, devices, link, clock, accepted, checked, era>>
    BY DEF MfaClaims, Same
  <2>2. challenges' \in [Secret -> [live : BOOLEAN, attempts : 0 .. MaxAttempts]]
    <3>1. challenges[c] \in [live : BOOLEAN, attempts : 0 .. MaxAttempts]
      BY DEF AccountTypeOK
    <3>2. [challenges[c] EXCEPT !.live = FALSE] \in [live : BOOLEAN, attempts : 0 .. MaxAttempts]
      BY <3>1
    <3>3. challenges[c].attempts < MaxAttempts =>
            [challenges[c] EXCEPT !.attempts = challenges[c].attempts + 1]
              \in [live : BOOLEAN, attempts : 0 .. MaxAttempts]
      BY <3>1
    <3>4. req'[r].st = "claimed" \/ req'[r].st = "refused"
      BY ClaimGoes
    <3>5. ASSUME NEW y \in [live : BOOLEAN, attempts : 0 .. MaxAttempts]
          PROVE  [challenges EXCEPT ![c] = y] \in [Secret -> [live : BOOLEAN, attempts : 0 .. MaxAttempts]]
      BY DEF AccountTypeOK
    <3>6. CASE req'[r].st = "claimed"
      <4>1. /\ challenges[c].attempts < MaxAttempts
            /\ challenges' = [challenges EXCEPT ![c] =
                               [challenges[c] EXCEPT !.attempts = challenges[c].attempts + 1]]
        BY <3>6, ClaimGoes
      <4>2. QED
        BY <3>3, <3>5, <4>1
    <3>7. CASE req'[r].st = "refused"
      <4>1. challenges' = [challenges EXCEPT ![c] = [challenges[c] EXCEPT !.live = FALSE]]
        BY <3>7, ClaimGoes
      <4>2. QED
        BY <3>2, <3>5, <4>1
    <3>8. QED
      BY <3>4, <3>6, <3>7
  <2>3. QED
    BY <2>1, <2>2, ClaimGoes DEF AccountTypeOK
<1>15. QED
  BY <1>2, <1>3, <1>4, <1>5, <1>6, <1>7, <1>8, <1>9, <1>10, <1>11, <1>12, <1>13, <1>14

-----------------------------------------------------------------------------

ByRequest(r) ==
  \/ Signup(r) \/ LoginAnswers(r) \/ MfaReads(r) \/ SecondFactor(r) \/ MfaClears(r)
  \/ SetupStores(r) \/ EnableStores(r) \/ NewRecoveryCodes(r) \/ DisableStores(r)
  \/ EnrollClaims(r) \/ EnrollInserts(r)
  \/ \E kind \in Kind, code \in Typed \cup {Absent} : ReadRow(r, kind, code)
  \/ \E c \in Secret, code \in Typed : MfaClaims(r, c, code)

(* A handler that waits goes on with what it has, or a request comes in.    *)
GoesOn(r) == /\ Under(r) /\ Keeps(r)
             /\ req'[r].st \in {"read", "verified", "done", "refused"}
             /\ req'[r].st = "read" => req[r].st = "claimed" /\ req[r].kind = "mfa"
             /\ req'[r].st = "done" /\ req[r].kind = "mfa" => req[r].st = "verified"
             /\ req'[r].st = "verified" => req[r].st = "read"
             /\ req'[r].st = "refused" => req[r].st = "read"
SignsUp(r) == req[r].st = "new" /\ Keeps(r) /\ req'[r].st \in {"done", "refused"}
Enters(r) ==
  /\ req[r].st = "new" /\ req'[r].st \in {"read", "claimed", "refused"}
  /\ req'[r].kind \in {"mfa", "enable", "disable", "codes"} =>
       /\ req'[r].code \in Code
       /\ req'[r].kind \in {"enable", "codes"} => req'[r].code.k = "totp"
  /\ req'[r].st = "claimed" => req'[r].kind \in {"mfa", "enroll"}
  /\ req'[r].st = "read" => req'[r].kind \notin {"mfa", "enroll"}

LEMMA HandlerMoves ==
  ASSUME AccountTypeOK, HandlersHaveCodes, NEW r \in Request, ByRequest(r)
  PROVE  Others(r) /\ (GoesOn(r) \/ SignsUp(r) \/ Enters(r))
<1>1. CASE Signup(r)
  BY <1>1, Goings DEF Signup, SignsUp, Stage
<1>2. CASE LoginAnswers(r) \/ MfaClears(r) \/ SetupStores(r) \/ NewRecoveryCodes(r)
           \/ DisableStores(r) \/ EnrollInserts(r)
  BY <1>2, Goings DEF LoginAnswers, MfaClears, SetupStores, NewRecoveryCodes, DisableStores,
                      EnrollInserts, GoesOn, Under, Stage
<1>3. CASE MfaReads(r)
  BY <1>3, Goings DEF MfaReads, GoesOn, Under
<1>4. CASE SecondFactor(r)
  BY <1>4, FactorSays DEF GoesOn, Under
<1>5. CASE EnableStores(r)
  BY <1>5, EnableSays DEF GoesOn, Under
<1>6. CASE EnrollClaims(r)
  <2>1. req[r].st = "new"
    BY <1>6 DEF EnrollClaims
  <2>2. Others(r) /\ req'[r].kind = "enroll" /\ req'[r].st \in {"claimed", "refused"}
    BY <1>6, Goings
  <2>3. QED
    BY <2>1, <2>2 DEF Enters
<1>7. CASE \E kind \in Kind, code \in Typed \cup {Absent} : ReadRow(r, kind, code)
  <2> PICK kind \in Kind, code \in Typed \cup {Absent} : ReadRow(r, kind, code)
    BY <1>7
  <2>1. code # Absent => code \in Code
    BY TypedAreCodes
  <2>2. /\ req[r].st = "new" /\ kind \notin {"mfa", "enroll"}
        /\ kind \in {"enable", "codes"} => code # Absent /\ code.k = "totp"
        /\ kind = "disable" => code # Absent
    BY DEF ReadRow
  <2>3. /\ Others(r)
        /\ req'[r].kind = kind /\ req'[r].code = code /\ req'[r].st \in {"read", "refused"}
    BY ReadGoes
  <2>4. QED
    BY <2>1, <2>2, <2>3 DEF Enters
<1>8. CASE \E c \in Secret, code \in Typed : MfaClaims(r, c, code)
  <2> PICK c \in Secret, code \in Typed : MfaClaims(r, c, code)
    BY <1>8
  <2>1. code \in Code
    BY TypedAreCodes
  <2>2. QED
    BY <2>1, ClaimGoes, ZenonT(30) DEF MfaClaims, Enters
<1>9. QED
  BY <1>1, <1>2, <1>3, <1>4, <1>5, <1>6, <1>7, <1>8 DEF ByRequest

LEMMA HandlersStep ==
  ASSUME AccountTypeOK, HandlersHaveCodes, AccountNext PROVE HandlersHaveCodes'
<1>1. CASE Tick
  BY <1>1 DEF Tick, Same, HandlersHaveCodes, Under
<1>2. ASSUME NEW r \in Request, ByRequest(r) PROVE HandlersHaveCodes'
  <2>1. Others(r) /\ (GoesOn(r) \/ SignsUp(r) \/ Enters(r))
    BY <1>2, HandlerMoves
  <2>2. ASSUME NEW q \in Request, q # r PROVE req'[q] = req[q]
    BY <2>1, <2>2 DEF Others
  <2>3. QED
    BY <2>1, <2>2 DEF GoesOn, SignsUp, Enters, Keeps, HandlersHaveCodes, Under
<1>3. QED
  BY <1>1, <1>2 DEF AccountNext, ByRequest

(* Codes: what has been accepted stays behind the step, and the table.      *)
LEMMA StepsStep ==
  ASSUME AccountTypeOK, HandlersHaveCodes, StepsPassed, AccountNext PROVE StepsPassed'
<1>0. /\ era \in Nat /\ row \in Row /\ row.last \in Int
      /\ \A a \in accepted : a.era \in Nat /\ a.code \in Code
  BY DEF AccountTypeOK, Row, Step
<1>1. CASE UNCHANGED <<accepted, era>> /\ row'.last = row.last
  BY <1>1 DEF StepsPassed
<1>2. ASSUME NEW r \in Request, SecondFactor(r) PROVE StepsPassed'
  <2>1. CASE CodeHolds(r) /\ req[r].code.k = "totp"
    <3>1. /\ row'.last = req[r].code.step /\ row.last < req[r].code.step /\ era' = era
          /\ req[r].code.step \in Int /\ Accepts(r, era)
      BY <1>2, <2>1, FactorSays, CodeShapes DEF Step
    <3>2. ASSUME NEW a \in accepted
          PROVE  a.era <= era /\ (a.code.k = "totp" /\ a.era = era => a.code.step <= req[r].code.step)
      BY <1>0, <3>1, CodeShapes DEF StepsPassed, Step
    <3>3. ASSUME NEW a \in accepted', a \notin accepted
          PROVE  a.era <= era /\ (a.code.k = "totp" /\ a.era = era => a.code.step <= req[r].code.step)
      BY <1>0, <3>1, <3>3 DEF Accepts
    <3>4. QED
      BY <3>1, <3>2, <3>3 DEF StepsPassed
  <2>2. CASE CodeHolds(r) /\ req[r].code.k = "recovery"
    BY <1>0, <1>2, <2>2, FactorSays DEF StepsPassed, Accepts
  <2>3. CASE ~CodeHolds(r)
    BY <1>2, <2>3, FactorSays DEF StepsPassed
  <2>4. QED
    BY <1>2, <2>1, <2>2, <2>3, FactorSays, CodeShapes
<1>3. ASSUME NEW r \in Request, EnableStores(r) PROVE StepsPassed'
  <2>1. CASE UNCHANGED <<row, era, accepted>>
    BY <2>1 DEF StepsPassed
  <2>2. CASE row'.last = req[r].code.step /\ era' = era + 1 /\ Accepts(r, era + 1)
    <3>1. req[r].code.step \in Int
      BY <1>3, EnableSays, CodeShapes DEF Step
    <3>2. ASSUME NEW a \in accepted PROVE a.era < era'
      BY <1>0, <2>2 DEF StepsPassed
    <3>3. ASSUME NEW a \in accepted', a \notin accepted
          PROVE  a.era = era' /\ a.code.step = row'.last
      BY <2>2, <3>3 DEF Accepts
    <3>4. row'.last <= row'.last /\ era' \in Nat
      BY <1>0, <2>2, <3>1
    <3>5. QED
      BY <1>0, <3>2, <3>3, <3>4 DEF StepsPassed
  <2>3. QED
    BY <1>3, <2>1, <2>2, EnableSays
<1>4. ASSUME NEW r \in Request, DisableStores(r) PROVE StepsPassed'
  <2>1. accepted' = accepted /\ era' = era + 1
    BY <1>4 DEF DisableStores, Same
  <2>2. QED
    BY <1>0, <2>1 DEF StepsPassed
<1>5. ASSUME NEW r \in Request, SetupStores(r) PROVE StepsPassed'
  <2>1. [row EXCEPT !.pending = r].last = row.last
    BY <1>0 DEF Row
  <2>2. QED
    BY <1>1, <1>5, <2>1 DEF SetupStores, Same
<1>6. QED
  BY <1>1, <1>2, <1>3, <1>4, <1>5, ZenonT(30)
     DEF AccountNext, Tick, Signup, LoginAnswers, MfaReads, MfaClears, NewRecoveryCodes,
         EnrollClaims, EnrollInserts, ReadRow, MfaClaims, Same

LEMMA BatchesStep ==
  ASSUME AccountTypeOK, HandlersHaveCodes, BatchesSpent, AccountNext PROVE BatchesSpent'
<1>0. /\ codes \subseteq Secret /\ \A a \in accepted : a.code \in Code
      /\ \A q \in Request : req[q].st = "done" => ~Under(q) /\ req[q].st # "new"
  BY DEF AccountTypeOK, Under
<1>1. ASSUME NEW r \in Request, ByRequest(r), NEW b \in Secret, Made(b) PROVE Made(b)'
  <2>1. Others(r) /\ req[r].st # "done"
    BY <1>0, <1>1, HandlerMoves DEF GoesOn, SignsUp, Enters
  <2>2. QED
    BY <1>1, <2>1, AccountAssumption DEF Made, Others, Secret
<1>2. CASE Tick
  BY <1>2 DEF Tick, Same, BatchesSpent, Made
<1>3. ASSUME NEW r \in Request, ByRequest(r), UNCHANGED <<codes, accepted>> PROVE BatchesSpent'
  BY <1>0, <1>1, <1>3, CodeShapes DEF BatchesSpent
<1>4. ASSUME NEW r \in Request, SecondFactor(r) PROVE BatchesSpent'
  <2>0. ByRequest(r)
    BY <1>4 DEF ByRequest
  <2>1. CASE CodeHolds(r) /\ req[r].code.k = "totp"
    <3>1. UNCHANGED codes /\ Accepts(r, era)
      BY <1>4, <2>1, FactorSays
    <3>2. ASSUME NEW a \in accepted', a.code.k = "recovery" PROVE a \in accepted
      BY <2>1, <3>1, <3>2 DEF Accepts
    <3>3. QED
      BY <1>0, <1>1, <2>0, <3>1, <3>2, CodeShapes DEF BatchesSpent
  <2>2. CASE CodeHolds(r) /\ req[r].code.k = "recovery"
    <3> DEFINE b == req[r].code.batch
    <3>1. /\ codes' = codes \ {b} /\ b \in codes /\ Accepts(r, era)
      BY <1>4, <2>2, FactorSays
    <3>2. ASSUME NEW a \in accepted', a.code.k = "recovery" PROVE a \in accepted \/ a.code.batch = b
      BY <3>1, <3>2 DEF Accepts
    <3>3. QED
      BY <1>0, <1>1, <2>0, <3>1, <3>2, CodeShapes DEF BatchesSpent
  <2>3. CASE ~CodeHolds(r)
    BY <1>3, <1>4, <2>0, <2>3, FactorSays
  <2>4. QED
    BY <1>4, <2>1, <2>2, <2>3, FactorSays, CodeShapes
<1>5. ASSUME NEW r \in Request, EnableStores(r) PROVE BatchesSpent'
  <2>0. ByRequest(r)
    BY <1>5 DEF ByRequest
  <2>1. codes' = codes /\ \A a \in accepted' : a.code.k = "recovery" => a \in accepted
    BY <1>5, EnableSays DEF Accepts
  <2>2. QED
    BY <1>0, <1>1, <2>0, <2>1, CodeShapes DEF BatchesSpent
<1>6. ASSUME NEW r \in Request, NewRecoveryCodes(r) PROVE BatchesSpent'
  <2>0. ByRequest(r)
    BY <1>6 DEF ByRequest
  <2>1. codes' = {r} /\ accepted' = accepted /\ req[r].st = "verified" /\ r # FirstSecret
    BY <1>6, AccountAssumption DEF NewRecoveryCodes, Same
  <2>2. Made(r)' /\ ~Made(r)
    BY <1>6, <2>1, Goings DEF NewRecoveryCodes, Made, Stage
  <2>3. QED
    BY <1>0, <1>1, <2>0, <2>1, <2>2, CodeShapes DEF BatchesSpent
<1>7. ASSUME NEW r \in Request, DisableStores(r) PROVE BatchesSpent'
  <2>0. ByRequest(r)
    BY <1>7 DEF ByRequest
  <2>1. codes' = {} /\ accepted' = accepted
    BY <1>7 DEF DisableStores, Same
  <2>2. QED
    BY <1>0, <1>1, <2>0, <2>1, CodeShapes DEF BatchesSpent
<1>8. ASSUME NEW r \in Request, ByRequest(r),
             ~(SecondFactor(r) \/ EnableStores(r) \/ NewRecoveryCodes(r) \/ DisableStores(r))
      PROVE  UNCHANGED <<codes, accepted>>
  BY <1>8 DEF ByRequest, Signup, LoginAnswers, MfaReads, MfaClears, SetupStores,
         EnrollClaims, EnrollInserts, ReadRow, MfaClaims, Same
<1>9. QED
  BY <1>2, <1>3, <1>4, <1>5, <1>6, <1>7, <1>8 DEF AccountNext, ByRequest

(* Two acceptances of one code in one era are one.                          *)
LEMMA UsedOnceStep ==
  ASSUME AccountTypeOK, HandlersHaveCodes, StepsPassed, BatchesSpent, CodesUsedOnce, AccountNext
  PROVE  CodesUsedOnce'
<1>0. era \in Nat /\ \A a \in accepted : a.era \in Nat /\ a.code \in Code
  BY DEF AccountTypeOK
<1>1. CASE accepted' = accepted
  BY <1>1 DEF CodesUsedOnce
<1>2. ASSUME NEW r \in Request, NEW x \in Code, NEW e \in Nat,
             accepted' = accepted \cup {[by |-> r, code |-> x, era |-> e]},
             \A a \in accepted : ~(a.code = x /\ a.era = e)
      PROVE  CodesUsedOnce'
  BY <1>2 DEF CodesUsedOnce
<1>3. ASSUME NEW r \in Request, SecondFactor(r), CodeHolds(r) PROVE CodesUsedOnce'
  <2>1. req[r].code \in Code /\ Accepts(r, era)
    BY <1>3, FactorSays, CodeShapes
  <2>2. CASE req[r].code.k = "totp"
    <3>1. row.last < req[r].code.step /\ req[r].code.step \in Int /\ row.last \in Int
      BY <1>3, <2>1, <2>2, FactorSays, CodeShapes DEF AccountTypeOK, Row, Step
    <3>2. ASSUME NEW a \in accepted, a.code = req[r].code, a.era = era PROVE FALSE
      BY <2>2, <3>1, <3>2 DEF StepsPassed
    <3>3. \A a \in accepted : ~(a.code = req[r].code /\ a.era = era)
      BY <3>2
    <3>4. accepted' = accepted \cup {[by |-> r, code |-> req[r].code, era |-> era]}
      BY <2>1 DEF Accepts
    <3>5. QED
      BY <1>0, <1>2, <2>1, <3>3, <3>4
  <2>3. CASE req[r].code.k = "recovery"
    <3>1. req[r].code.batch \in codes
      BY <1>3, <2>3, FactorSays
    <3>2. ASSUME NEW a \in accepted, a.code = req[r].code, a.era = era PROVE FALSE
      BY <2>3, <3>1, <3>2 DEF BatchesSpent
    <3>3. \A a \in accepted : ~(a.code = req[r].code /\ a.era = era)
      BY <3>2
    <3>4. accepted' = accepted \cup {[by |-> r, code |-> req[r].code, era |-> era]}
      BY <2>1 DEF Accepts
    <3>5. QED
      BY <1>0, <1>2, <2>1, <3>3, <3>4
  <2>4. QED
    BY <2>1, <2>2, <2>3, CodeShapes
<1>4. ASSUME NEW r \in Request, EnableStores(r) PROVE CodesUsedOnce'
  <2>1. CASE UNCHANGED accepted
    BY <1>1, <2>1
  <2>2. CASE Accepts(r, era + 1)
    <3>1. \A a \in accepted : a.era # era + 1
      BY <1>0 DEF StepsPassed
    <3>2. accepted' = accepted \cup {[by |-> r, code |-> req[r].code, era |-> era + 1]}
      BY <2>2 DEF Accepts
    <3>3. req[r].code \in Code /\ era + 1 \in Nat
      BY <1>0, <1>4, EnableSays
    <3>4. QED
      BY <1>2, <3>1, <3>2, <3>3
  <2>3. QED
    BY <1>4, <2>1, <2>2, EnableSays
<1>5. ASSUME NEW r \in Request, SecondFactor(r), ~CodeHolds(r) PROVE accepted' = accepted
  BY <1>5, FactorSays
<1>6. ASSUME ~(\E r \in Request : SecondFactor(r) \/ EnableStores(r)) PROVE accepted' = accepted
  BY <1>6, ZenonT(30) DEF AccountNext, Tick, Signup, LoginAnswers, MfaReads, MfaClears, SetupStores,
         NewRecoveryCodes, DisableStores, EnrollClaims, EnrollInserts, ReadRow, MfaClaims, Same
<1>7. QED
  BY <1>1, <1>3, <1>4, <1>5, <1>6

(* One claim: the link, the first account, the attempts at a challenge.     *)
LEMMA LinkStep ==
  ASSUME AccountTypeOK, HandlersHaveCodes, LinkSpent, AccountNext PROVE LinkSpent'
<1> DEFINE Claims(q) == req[q].st = "claimed" /\ req[q].kind = "enroll"
<1>1. ASSUME link' = link, \A q \in Enrolling' : q \in Enrolling PROVE LinkSpent'
  BY <1>1 DEF LinkSpent
<1>2. CASE Tick
  BY <1>1, <1>2 DEF Tick, Same, Enrolling
<1>3. ASSUME NEW r \in Request, EnrollClaims(r) PROVE LinkSpent'
  <2>1. /\ Others(r) /\ req'[r].st = IF link THEN "claimed" ELSE "refused"
        /\ link' = FALSE /\ devices' = devices
    BY <1>3, Goings DEF EnrollClaims, Same
  <2>2. CASE link
    <3>1. Enrolling = {}
      BY <2>2 DEF LinkSpent
    <3>2. \A q \in Enrolling' : q = r
      BY <2>1, <3>1 DEF Enrolling, Others
    <3>3. QED
      BY <2>1, <3>2 DEF LinkSpent
  <2>3. CASE ~link
    <3>1. \A q \in Enrolling' : q \in Enrolling
      BY <2>1, <2>3 DEF Enrolling, Others
    <3>2. QED
      BY <2>1, <3>1 DEF LinkSpent
  <2>4. QED
    BY <2>2, <2>3
<1>4. ASSUME NEW r \in Request, ByRequest(r), ~EnrollClaims(r) PROVE LinkSpent'
  <2>1. Others(r) /\ link' = link
    BY <1>4, HandlerMoves DEF ByRequest, Signup, LoginAnswers, MfaReads, SecondFactor, MfaClears,
       SetupStores, EnableStores, NewRecoveryCodes, DisableStores, EnrollInserts, ReadRow, MfaClaims, Same
  <2>2. ~(req'[r].st = "claimed" /\ req'[r].kind = "enroll")
    <3>1. CASE \E c \in Secret, code \in Typed : MfaClaims(r, c, code)
      BY <3>1, ClaimGoes
    <3>2. CASE \E kind \in Kind, code \in Typed \cup {Absent} : ReadRow(r, kind, code)
      BY <3>2, ReadGoes
    <3>3. CASE req[r].st # "new"
      BY <1>4, <3>3, HandlerMoves DEF GoesOn, SignsUp, Enters
    <3>4. CASE Signup(r)
      BY <3>4, Goings DEF Signup, Stage
    <3>5. QED
      BY <1>4, <3>1, <3>2, <3>3, <3>4
         DEF ByRequest, LoginAnswers, MfaReads, SecondFactor, MfaClears, SetupStores, EnableStores,
             NewRecoveryCodes, DisableStores, EnrollInserts
  <2>3. \A q \in devices' : q \in Enrolling
    <3>1. CASE EnrollInserts(r)
      BY <3>1 DEF EnrollInserts, Enrolling
    <3>2. CASE ~EnrollInserts(r)
      BY <1>4, <3>2 DEF ByRequest, Signup, LoginAnswers, MfaReads, SecondFactor, MfaClears,
         SetupStores, EnableStores, NewRecoveryCodes, DisableStores, ReadRow, MfaClaims, Same, Enrolling
    <3>3. QED
      BY <3>1, <3>2
  <2>4. \A q \in Enrolling' : q \in Enrolling
    BY <2>1, <2>2, <2>3 DEF Enrolling, Others
  <2>5. QED
    BY <1>1, <2>1, <2>4
<1>5. QED
  BY <1>2, <1>3, <1>4 DEF AccountNext, ByRequest

LEMMA OneUserStep ==
  ASSUME OneUser, AccountNext PROVE OneUser'
BY ZenonT(30) DEF OneUser, AccountNext, Tick, Signup, LoginAnswers, MfaReads, SecondFactor, MfaClears,
   SetupStores, EnableStores, NewRecoveryCodes, DisableStores, EnrollClaims, EnrollInserts,
   ReadRow, MfaClaims, Same

(* A check that starts is paid for by its attempt; one that ends is counted. *)
LEMMA AttemptsStep ==
  ASSUME AccountTypeOK, HandlersHaveCodes, AttemptsPay, AccountNext PROVE AttemptsPay'
<1> SUFFICES ASSUME NEW c \in Secret
             PROVE  /\ IsFiniteSet(Checking(c)')
                    /\ checked'[c] + Cardinality(Checking(c)') <= challenges'[c].attempts
  BY DEF AttemptsPay
<1>0. /\ IsFiniteSet(Checking(c)) /\ Cardinality(Checking(c)) \in Nat
      /\ checked[c] + Cardinality(Checking(c)) <= challenges[c].attempts
      /\ checked[c] \in Nat /\ challenges[c].attempts \in Nat
  BY AccountAssumption, FS_CardinalityType DEF AttemptsPay, AccountTypeOK
<1>1. ASSUME Checking(c)' = Checking(c), checked'[c] = checked[c],
             challenges'[c].attempts = challenges[c].attempts
      PROVE  /\ IsFiniteSet(Checking(c)')
             /\ checked'[c] + Cardinality(Checking(c)') <= challenges'[c].attempts
  BY <1>0, <1>1
<1>2. CASE Tick
  <2>1. Checking(c)' = Checking(c)
    BY <1>2 DEF Tick, Same, Checking
  <2>2. QED
    BY <1>1, <1>2, <2>1 DEF Tick, Same
<1>3. ASSUME NEW r \in Request, SecondFactor(r)
      PROVE  /\ IsFiniteSet(Checking(c)')
             /\ checked'[c] + Cardinality(Checking(c)') <= challenges'[c].attempts
  <2>1. /\ Others(r) /\ Keeps(r) /\ req[r].st = "read" /\ req'[r].st \in {"verified", "refused"}
        /\ challenges' = challenges
        /\ checked' = IF req[r].kind = "mfa" THEN [checked EXCEPT ![req[r].ch] = @ + 1] ELSE checked
    BY <1>3, FactorSays
  <2>2. CASE req[r].kind = "mfa" /\ req[r].ch = c
    <3>1. r \in Checking(c) /\ Checking(c)' = Checking(c) \ {r}
      BY <2>1, <2>2 DEF Checking, Others
    <3>2. checked'[c] = checked[c] + 1
      BY <2>1, <2>2 DEF AccountTypeOK
    <3>3. /\ IsFiniteSet(Checking(c) \ {r})
          /\ Cardinality(Checking(c) \ {r}) = Cardinality(Checking(c)) - 1
      BY <1>0, <3>1, FS_RemoveElement
    <3>4. QED
      BY <1>0, <2>1, <3>1, <3>2, <3>3
  <2>3. CASE ~(req[r].kind = "mfa" /\ req[r].ch = c)
    <3>1. Checking(c)' = Checking(c)
      BY <2>1, <2>3 DEF Checking, Others, Keeps
    <3>2. checked'[c] = checked[c]
      BY <2>1, <2>3, RequestTypes DEF AccountTypeOK
    <3>3. QED
      BY <1>1, <2>1, <3>1, <3>2
  <2>4. QED
    BY <2>2, <2>3
<1>4. ASSUME NEW r \in Request, NEW k \in Secret, NEW code \in Typed, MfaClaims(r, k, code)
      PROVE  /\ IsFiniteSet(Checking(c)')
             /\ checked'[c] + Cardinality(Checking(c)') <= challenges'[c].attempts
  <2>1. /\ Others(r) /\ req[r].st = "new" /\ req'[r].st \in {"claimed", "refused"}
        /\ req'[r].kind = "mfa" /\ req'[r].ch = k /\ checked' = checked
    BY <1>4, ClaimGoes DEF MfaClaims, Same
  <2>2. challenges[k] \in [live : BOOLEAN, attempts : 0 .. MaxAttempts]
    BY DEF AccountTypeOK
  <2>3. CASE req'[r].st = "claimed"
    <3>1. challenges' = [challenges EXCEPT ![k] =
                         [challenges[k] EXCEPT !.attempts = challenges[k].attempts + 1]]
      BY <1>4, <2>3, ClaimGoes
    <3>2. CASE k = c
      <4>1. challenges'[c].attempts = challenges[c].attempts + 1
        BY <2>2, <3>1, <3>2 DEF AccountTypeOK
      <4>2. r \notin Checking(c) /\ Checking(c)' = Checking(c) \cup {r}
        BY <2>1, <2>3, <3>2 DEF Checking, Others
      <4>3. /\ IsFiniteSet(Checking(c) \cup {r})
            /\ Cardinality(Checking(c) \cup {r}) = Cardinality(Checking(c)) + 1
        BY <1>0, <4>2, FS_AddElement
      <4>4. QED
        BY <1>0, <2>1, <4>1, <4>2, <4>3
    <3>3. CASE k # c
      <4>1. challenges'[c] = challenges[c]
        BY <3>1, <3>3 DEF AccountTypeOK
      <4>2. Checking(c)' = Checking(c)
        BY <2>1, <3>3 DEF Checking, Others
      <4>3. QED
        BY <1>1, <2>1, <4>1, <4>2
    <3>4. QED
      BY <3>2, <3>3
  <2>4. CASE req'[r].st = "refused"
    <3>1. challenges' = [challenges EXCEPT ![k] = [challenges[k] EXCEPT !.live = FALSE]]
      BY <1>4, <2>4, ClaimGoes
    <3>2. challenges'[c].attempts = challenges[c].attempts
      BY <2>2, <3>1 DEF AccountTypeOK
    <3>3. Checking(c)' = Checking(c)
      BY <2>1, <2>4 DEF Checking, Others
    <3>4. QED
      BY <1>1, <2>1, <3>2, <3>3
  <2>5. QED
    BY <2>1, <2>3, <2>4
<1>5. ASSUME NEW r \in Request, ByRequest(r), ~SecondFactor(r),
             ~(\E k \in Secret, code \in Typed : MfaClaims(r, k, code))
      PROVE  /\ IsFiniteSet(Checking(c)')
             /\ checked'[c] + Cardinality(Checking(c)') <= challenges'[c].attempts
  <2>1. checked' = checked
    BY <1>5 DEF ByRequest, Signup, LoginAnswers, MfaReads, MfaClears, SetupStores, EnableStores,
       NewRecoveryCodes, DisableStores, EnrollClaims, EnrollInserts, ReadRow, Same
  <2>2. challenges'[c].attempts = challenges[c].attempts
    <3>1. CASE LoginAnswers(r)
      <4>1. challenges[r] \in [live : BOOLEAN, attempts : 0 .. MaxAttempts]
        BY DEF AccountTypeOK, Secret
      <4>2. challenges' = challenges
            \/ challenges' = [challenges EXCEPT ![r] = [challenges[r] EXCEPT !.live = TRUE]]
        BY <3>1 DEF LoginAnswers
      <4>3. QED
        BY <4>1, <4>2 DEF AccountTypeOK
    <3>2. CASE MfaClears(r)
      <4> DEFINE k == req[r].ch
      <4>1. k \in Secret /\ challenges[k] \in [live : BOOLEAN, attempts : 0 .. MaxAttempts]
        BY RequestTypes DEF AccountTypeOK
      <4>2. challenges' = [challenges EXCEPT ![k] = [challenges[k] EXCEPT !.live = FALSE]]
        BY <3>2 DEF MfaClears
      <4> HIDE DEF k
      <4>3. QED
        BY <4>1, <4>2 DEF AccountTypeOK
    <3>3. CASE ~LoginAnswers(r) /\ ~MfaClears(r)
      BY <1>5, <3>3 DEF ByRequest, Signup, MfaReads, SetupStores, EnableStores,
         NewRecoveryCodes, DisableStores, EnrollClaims, EnrollInserts, ReadRow, Same
    <3>4. QED
      BY <3>1, <3>2, <3>3
  <2>3. Others(r) /\ (r \in Checking(c)' <=> r \in Checking(c))
    <3>1. CASE \E kind \in Kind, code \in Typed \cup {Absent} : ReadRow(r, kind, code)
      <4> PICK kind \in Kind, code \in Typed \cup {Absent} : ReadRow(r, kind, code)
        BY <3>1
      <4>1. Others(r) /\ req'[r].kind = kind /\ kind # "mfa" /\ req[r].st = "new"
        BY ReadGoes DEF ReadRow
      <4>2. QED
        BY <4>1 DEF Checking
    <3>2. CASE EnrollClaims(r)
      <4>1. Others(r) /\ req'[r].kind = "enroll" /\ req[r].st = "new"
        BY <3>2, Goings DEF EnrollClaims
      <4>2. QED
        BY <4>1 DEF Checking
    <3>3. CASE Signup(r)
      <4>1. Others(r) /\ req[r].st = "new" /\ req'[r].st \in {"done", "refused"}
        BY <3>3, Goings DEF Signup, Stage
      <4>2. QED
        BY <4>1 DEF Checking
    <3>4. CASE MfaReads(r)
      <4>1. Others(r) /\ Keeps(r) /\ req[r].st = "claimed" /\ req'[r].st = "read"
        BY <3>4, Goings DEF MfaReads
      <4>2. QED
        BY <4>1 DEF Checking, Keeps
    <3>5. CASE MfaClears(r)
      <4>1. Others(r) /\ req[r].st = "verified" /\ req'[r].st = "done"
        BY <3>5, Goings DEF MfaClears, Stage
      <4>2. QED
        BY <4>1 DEF Checking
    <3>6. CASE LoginAnswers(r) \/ SetupStores(r) \/ EnableStores(r) \/ NewRecoveryCodes(r)
               \/ DisableStores(r) \/ EnrollInserts(r)
      <4>1. req[r].kind # "mfa" /\ req[r].st # "new"
        BY <3>6 DEF LoginAnswers, SetupStores, EnableStores, NewRecoveryCodes, DisableStores, EnrollInserts
      <4>2. Others(r) /\ Keeps(r)
        BY <1>5, <4>1, HandlerMoves DEF GoesOn, SignsUp, Enters
      <4>3. QED
        BY <4>1, <4>2 DEF Checking, Keeps
    <3>7. QED
      BY <1>5, <3>1, <3>2, <3>3, <3>4, <3>5, <3>6 DEF ByRequest
  <2>4. Checking(c)' = Checking(c)
    BY <2>3 DEF Checking, Others
  <2>5. QED
    BY <1>1, <2>1, <2>2, <2>4
<1>6. QED
  BY <1>2, <1>3, <1>4, <1>5 DEF AccountNext, ByRequest

(* The inductive invariant: what each table has claimed and handed out.     *)
THEOREM AccountInvariant == AccountSpec => []AccountInv
<1>1. AccountInit => AccountInv
  <2> SUFFICES ASSUME AccountInit PROVE AccountInv
    OBVIOUS
  <2>1. \A r \in Request : req[r] = Fresh /\ req[r].st = "new"
    BY DEF AccountInit, Fresh
  <2>2. Fresh \in RequestState
    BY DEF Fresh, RequestState, Kind, Stage, Secret
  <2>3. AccountTypeOK
    BY <2>2, AccountAssumption DEF AccountInit, AccountTypeOK, Row, Secret, Step, RequestState
  <2>4. HandlersHaveCodes /\ LinkSpent /\ OneUser /\ CodesUsedOnce /\ StepsPassed /\ BatchesSpent
    BY <2>1 DEF AccountInit, HandlersHaveCodes, Under, LinkSpent, Enrolling, OneUser, CodesUsedOnce,
                StepsPassed, BatchesSpent, Made
  <2>5. AttemptsPay
    <3> SUFFICES ASSUME NEW c \in Secret
                 PROVE  /\ IsFiniteSet(Checking(c))
                        /\ checked[c] + Cardinality(Checking(c)) <= challenges[c].attempts
      BY DEF AttemptsPay
    <3>1. Checking(c) = {}
      BY <2>1 DEF Checking
    <3>2. checked[c] = 0 /\ challenges[c].attempts = 0
      BY DEF AccountInit
    <3>3. QED
      BY <3>1, <3>2, FS_EmptySet
  <2>6. QED
    BY <2>3, <2>4, <2>5 DEF AccountInv
<1>2. AccountInv /\ [AccountNext]_accountVars => AccountInv'
  <2>1. ASSUME AccountInv, AccountNext PROVE AccountInv'
    BY <2>1, TypeStep, HandlersStep, StepsStep, BatchesStep, UsedOnceStep, LinkStep, OneUserStep, AttemptsStep
       DEF AccountInv
  <2>2. ASSUME AccountInv, UNCHANGED accountVars PROVE AccountInv'
    BY <2>2 DEF accountVars, AccountInv, AccountTypeOK, HandlersHaveCodes, Under, StepsPassed, BatchesSpent, Made,
       CodesUsedOnce, LinkSpent, Enrolling, OneUser, AttemptsPay, Checking
  <2>3. QED
    BY <2>1, <2>2
<1>3. QED
  BY <1>1, <1>2, PTL DEF AccountSpec

(* However the handlers interleave and the clock ticks, no code and no       *)
(* challenge, link or first account serves twice.                            *)
THEOREM AccountNothingUsedTwice == AccountSpec => []NothingUsedTwice
<1>1. AccountInv => NothingUsedTwice
  <2> SUFFICES ASSUME AccountInv PROVE ClaimedOnce
    BY DEF NothingUsedTwice, AccountInv
  <2>1. ASSUME NEW S, \A x, y \in S : x = y PROVE Cardinality(S) <= 1
    <3>1. CASE S = {}
      BY <3>1, FS_EmptySet
    <3>2. CASE S # {}
      <4>1. PICK x \in S : S = {x}
        BY <2>1, <3>2
      <4>2. Cardinality(S) = 1
        BY <4>1, FS_Singleton
      <4>3. QED
        BY <4>2
    <3>3. QED
      BY <3>1, <3>2
  <2>2. Cardinality(users) <= 1
    BY <2>1 DEF AccountInv, OneUser
  <2>3. Cardinality(devices) <= 1
    BY <2>1 DEF AccountInv, LinkSpent, Enrolling
  <2>4. ASSUME NEW c \in Secret PROVE checked[c] <= MaxAttempts
    <3>1. /\ Cardinality(Checking(c)) \in Nat /\ checked[c] \in Nat
          /\ checked[c] + Cardinality(Checking(c)) <= challenges[c].attempts
          /\ challenges[c].attempts \in 0 .. MaxAttempts
      BY FS_CardinalityType DEF AccountInv, AttemptsPay, AccountTypeOK
    <3>2. QED
      BY <3>1, AccountAssumption
  <2>5. QED
    BY <2>2, <2>3, <2>4 DEF ClaimedOnce
<1>2. QED
  BY <1>1, AccountInvariant, PTL

-----------------------------------------------------------------------------
(* What the account keeps for its daemons.                                   *)

TokenOf(v) == [t |-> "token", v |-> v]
SettingsOf(v) == [t |-> "settings", v |-> v]

\* Of each kind, the last value that a connected daemon was given is the stored one, or
\* the handler of its hello has read that and is about to give it, or the daemon is behind.
LastToken(d) == "token" \in behind[d] \/ TokenOf(token) \in given[d] \cup greeting[d]
LastSettings(d) ==
  \/ "settings" \in behind[d]
  \/ SettingsOf(settings) \in given[d] \cup greeting[d]
  \/ settings = NoValues /\ \A u \in given[d] : u.t = "token"

ToldAll == \A d \in Attached : LastToken(d) /\ LastSettings(d)

PluginInv == PluginTypeOK /\ ToldAll

LEMMA Updates ==
  /\ \A v \in TokenOrNone : TokenOf(v) \in Update
  /\ \A v \in Values : SettingsOf(v) \in Update
  /\ NoValues \in Values
  /\ \A cur \in Values, k, v \in Save \cup {NoValue} : [cur EXCEPT ![k] = v] \in Values
BY DEF TokenOf, SettingsOf, Update, NoValues, Values

(* An update reaches those it is for who were heard of, and is the last of its *)
(* kind there; what others were given, and what these were of the other kind,   *)
(* stays as it is.                                                             *)
LEMMA Sends ==
  ASSUME PluginTypeOK, NEW ds, NEW m \in Update, Give(ds, m)
  PROVE  /\ updates' \in [Daemon -> Seq(Update)]
         /\ given' \in [Daemon -> SUBSET Update]
         /\ \A d \in Daemon : \A u : u.t # m.t => (u \in given'[d] <=> u \in given[d])
         /\ \A d \in ds \cap Reached : m \in given'[d]
         /\ \A d \in Daemon : d \notin ds \cap Reached => given'[d] = given[d]
<1>1. /\ updates \in [Daemon -> Seq(Update)] /\ given \in [Daemon -> SUBSET Update]
      /\ Reached \subseteq Daemon
  BY DEF PluginTypeOK, Reached, Attached
<1>2. \A d \in Daemon : updates[d] \in Seq(Update) /\ Append(updates[d], m) \in Seq(Update)
  BY <1>1
<1>3. \A d \in Daemon : given'[d] = IF d \in ds \cap Reached THEN {u \in given[d] : u.t # m.t} \cup {m}
                                                            ELSE given[d]
  BY DEF Give
<1>4. updates' \in [Daemon -> Seq(Update)]
  BY <1>1, <1>2 DEF Give
<1>5. given' \in [Daemon -> SUBSET Update]
  <2>1. \A d \in Daemon : {u \in given[d] : u.t # m.t} \cup {m} \in SUBSET Update
    BY <1>1
  <2>2. QED
    BY <1>1, <2>1 DEF Give
<1>6. QED
  BY <1>1, <1>3, <1>4, <1>5

(* After a change every connected daemon was given the new value or is behind. *)
LEMMA ChangeTold ==
  ASSUME PluginTypeOK, NEW m \in Update, TellAll(m)
  PROVE  /\ updates' \in [Daemon -> Seq(Update)]
         /\ given' \in [Daemon -> SUBSET Update]
         /\ behind' \in [Daemon -> SUBSET {"token", "settings"}]
         /\ \A d \in Attached : m.t \in behind'[d] \/ m \in given'[d]
         /\ \A d \in Daemon : \A u : u.t # m.t => (u \in given'[d] <=> u \in given[d])
         /\ \A d \in Daemon : \A k : k # m.t => (k \in behind'[d] <=> k \in behind[d])
<1>1. /\ updates' \in [Daemon -> Seq(Update)] /\ given' \in [Daemon -> SUBSET Update]
      /\ \A d \in Daemon : \A u : u.t # m.t => (u \in given'[d] <=> u \in given[d])
      /\ \A d \in Reached : m \in given'[d]
  <2>1. Reached \subseteq Daemon /\ Give(Daemon, m)
    BY DEF TellAll, Reached, Attached
  <2>2. QED
    BY <2>1, Sends
<1>2. \A d \in Daemon : behind'[d] = IF d \in Reached THEN behind[d] \ {m.t}
                                  ELSE IF attached[d] THEN behind[d] \cup {m.t} ELSE behind[d]
  BY DEF TellAll
<1>3. behind' \in [Daemon -> SUBSET {"token", "settings"}]
  <2>1. m.t \in {"token", "settings"}
    BY DEF Update
  <2>2. \A d \in Daemon : behind[d] \ {m.t} \in SUBSET {"token", "settings"}
                      /\ behind[d] \cup {m.t} \in SUBSET {"token", "settings"}
    BY <2>1 DEF PluginTypeOK
  <2>3. QED
    BY <2>2 DEF TellAll, PluginTypeOK
<1>4. \A d \in Attached : m.t \in behind'[d] \/ m \in given'[d]
  BY <1>1, <1>2 DEF Attached
<1>5. \A d \in Daemon : \A k : k # m.t => (k \in behind'[d] <=> k \in behind[d])
  BY <1>2
<1>6. QED
  BY <1>1, <1>3, <1>4, <1>5

LEMMA PluginInvStep ==
  ASSUME PluginInv, PluginNext PROVE PluginInv'
<1> USE DEF PluginInv
<1>1. ASSUME NEW r \in TokenSet, SetToken(r) PROVE PluginInv'
  BY <1>1 DEF SetToken, PluginTypeOK, ToldAll, LastToken, LastSettings, Attached
<1>2. ASSUME NEW r \in TokenSet, NEW v \in TokenOrNone, (StoreToken(r) /\ v = r) \/ (ForgetToken(r) /\ v = NoValue)
      PROVE  PluginInv'
  <2>1. /\ setting' = [setting EXCEPT ![r] = "done"] /\ token' = v /\ TellAll(TokenOf(v))
        /\ UNCHANGED <<settings, saves, greeting, attached, attaches, silent, holds>>
    BY <1>2 DEF StoreToken, ForgetToken, TokenOf
  <2>2. TokenOf(v) \in Update /\ TokenOf(v).t = "token" /\ SettingsOf(settings).t = "settings"
    BY Updates DEF TokenOf, SettingsOf
  <2>3. /\ updates' \in [Daemon -> Seq(Update)] /\ given' \in [Daemon -> SUBSET Update]
        /\ behind' \in [Daemon -> SUBSET {"token", "settings"}]
        /\ \A d \in Attached : "token" \in behind'[d] \/ TokenOf(v) \in given'[d]
        /\ \A d \in Daemon : \A u : u.t # "token" => (u \in given'[d] <=> u \in given[d])
        /\ \A d \in Daemon : "settings" \in behind'[d] <=> "settings" \in behind[d]
    BY <2>1, <2>2, ChangeTold
  <2>4. PluginTypeOK'
    BY <2>1, <2>3 DEF PluginTypeOK
  <2>5. ASSUME NEW d \in Attached' PROVE LastToken(d)' /\ LastSettings(d)'
    <3>1. d \in Attached /\ d \in Daemon
      BY <2>1 DEF Attached
    <3>2. LastToken(d)'
      BY <2>1, <2>3, <3>1 DEF LastToken
    <3>3. LastSettings(d)'
      BY <2>1, <2>2, <2>3, <3>1 DEF LastSettings, ToldAll
    <3>4. QED
      BY <3>2, <3>3
  <2>6. QED
    BY <2>4, <2>5 DEF ToldAll
<1>3. ASSUME NEW v \in Values, settings' = v, TellAll(SettingsOf(v)),
             UNCHANGED <<token, greeting, attached, attaches, silent, holds>>
      PROVE  /\ updates' \in [Daemon -> Seq(Update)] /\ given' \in [Daemon -> SUBSET Update]
             /\ behind' \in [Daemon -> SUBSET {"token", "settings"}]
             /\ ToldAll'
  <2>1. SettingsOf(v) \in Update /\ SettingsOf(v).t = "settings" /\ TokenOf(token).t = "token"
    BY Updates DEF TokenOf, SettingsOf
  <2>2. /\ updates' \in [Daemon -> Seq(Update)] /\ given' \in [Daemon -> SUBSET Update]
        /\ behind' \in [Daemon -> SUBSET {"token", "settings"}]
        /\ \A d \in Attached : "settings" \in behind'[d] \/ SettingsOf(v) \in given'[d]
        /\ \A d \in Daemon : \A u : u.t # "settings" => (u \in given'[d] <=> u \in given[d])
        /\ \A d \in Daemon : "token" \in behind'[d] <=> "token" \in behind[d]
    BY <1>3, <2>1, ChangeTold
  <2>3. ASSUME NEW d \in Attached' PROVE LastToken(d)' /\ LastSettings(d)'
    <3>1. d \in Attached /\ d \in Daemon
      BY <1>3 DEF Attached
    <3>2. LastToken(d)'
      BY <1>3, <2>1, <2>2, <3>1 DEF LastToken, ToldAll
    <3>3. LastSettings(d)'
      BY <1>3, <2>2, <3>1 DEF LastSettings
    <3>4. QED
      BY <3>2, <3>3
  <2>4. QED
    BY <2>2, <2>3 DEF ToldAll
<1>4. ASSUME NEW r \in Save, SaveReads(r) PROVE PluginInv'
  <2>1. PICK k \in Key, v \in {r, NoValue} :
          LET waits == settings # NoValues \/ v # NoValue
          IN /\ saves' = [saves EXCEPT ![r] = [st |-> IF waits THEN "merging" ELSE "done",
                                                k |-> k, v |-> v, cur |-> settings]]
             /\ IF waits THEN UNCHANGED <<updates, given, behind>>
                ELSE TellAll(SettingsOf(NoValues))
    BY <1>4 DEF SaveReads, SettingsOf
  <2>2. UNCHANGED <<token, settings, setting, greeting, attached, attaches, silent, holds>>
    BY <1>4 DEF SaveReads
  <2>3. saves' \in [Save -> [st : {"new", "merging", "done"}, k : Key \cup {NoValue},
                              v : Save \cup {NoValue}, cur : Values]]
    BY <2>1 DEF PluginTypeOK
  <2>4. CASE UNCHANGED <<updates, given, behind>>
    BY <2>2, <2>3, <2>4 DEF PluginTypeOK, ToldAll, LastToken, LastSettings, Attached
  <2>5. CASE settings = NoValues /\ TellAll(SettingsOf(NoValues))
    <3>1. /\ updates' \in [Daemon -> Seq(Update)] /\ given' \in [Daemon -> SUBSET Update]
          /\ behind' \in [Daemon -> SUBSET {"token", "settings"}]
          /\ ToldAll'
      BY <1>3, <2>2, <2>5, Updates
    <3>2. QED
      BY <2>2, <2>3, <3>1 DEF PluginTypeOK
  <2>6. QED
    BY <2>1, <2>4, <2>5
<1>5. ASSUME NEW r \in Save, SaveStores(r) PROVE PluginInv'
  <2> DEFINE new == [saves[r].cur EXCEPT ![saves[r].k] = saves[r].v]
  <2>1. /\ settings' = new /\ TellAll(SettingsOf(new))
        /\ saves' = [saves EXCEPT ![r].st = "done"]
        /\ UNCHANGED <<token, setting, greeting, attached, attaches, silent, holds>>
    BY <1>5 DEF SaveStores, SettingsOf
  <2>2. new \in Values
    BY DEF PluginTypeOK, Values
  <2> HIDE DEF new
  <2>3. /\ updates' \in [Daemon -> Seq(Update)] /\ given' \in [Daemon -> SUBSET Update]
        /\ behind' \in [Daemon -> SUBSET {"token", "settings"}]
        /\ ToldAll'
    BY <1>3, <2>1, <2>2
  <2> DEFINE SaveState == [st : {"new", "merging", "done"}, k : Key \cup {NoValue},
                           v : Save \cup {NoValue}, cur : Values]
  <2>4. saves' \in [Save -> SaveState]
    <3>1. saves \in [Save -> SaveState]
      BY DEF PluginTypeOK
    <3>2. \A x \in SaveState : [x EXCEPT !.st = "done"] \in SaveState
      OBVIOUS
    <3> HIDE DEF SaveState
    <3>3. saves' = [saves EXCEPT ![r] = [saves[r] EXCEPT !.st = "done"]]
      BY <2>1
    <3>4. QED
      BY <3>1, <3>2, <3>3
  <2>5. PluginTypeOK'
    <3>1. settings' \in Values
      BY <2>1, <2>2
    <3>2. QED
      BY <2>1, <2>3, <2>4, <3>1, Zenon DEF PluginTypeOK
  <2>6. QED
    BY <2>3, <2>5
<1>6. ASSUME NEW d \in Daemon, DaemonHello(d) PROVE PluginInv'
  <2> DEFINE asks == (IF token = NoValue THEN {} ELSE {TokenOf(token)})
                     \cup (IF settings = NoValues THEN {} ELSE {SettingsOf(settings)})
             now == IF token = NoValue THEN <<TokenOf(NoValue)>> ELSE <<>>
             told == {now[i] : i \in DOMAIN now}
  <2>1. /\ attached' = [attached EXCEPT ![d] = TRUE] /\ attaches' = [attaches EXCEPT ![d] = @ + 1]
        /\ attaches[d] < MaxAttach
        /\ greeting' = [greeting EXCEPT ![d] = @ \cup asks]
        /\ updates' = [updates EXCEPT ![d] = now] /\ given' = [given EXCEPT ![d] = told]
        /\ silent' = [silent EXCEPT ![d] = FALSE] /\ behind' = [behind EXCEPT ![d] = {}]
        /\ UNCHANGED <<token, settings, setting, saves, holds>>
    BY <1>6 DEF DaemonHello, TokenOf, SettingsOf
  <2>2. asks \subseteq Update /\ TokenOf(NoValue) \in Update
    BY Updates DEF PluginTypeOK, TokenOrNone
  <2>3. now \in Seq(Update) /\ told \subseteq Update /\ (token = NoValue => TokenOf(token) \in told)
        /\ \A u \in told : u.t = "token"
    <3>1. CASE token = NoValue
      <4>1. now = <<TokenOf(NoValue)>> /\ DOMAIN now = 1 .. 1 /\ now[1] = TokenOf(NoValue)
        BY <3>1
      <4>2. now[1] \in told
        BY <4>1
      <4>3. \A x \in told : x = TokenOf(NoValue)
        BY <4>1
      <4>4. QED
        BY <2>2, <3>1, <4>1, <4>2, <4>3 DEF TokenOf
    <3>2. CASE token # NoValue
      BY <3>2
    <3>3. QED
      BY <3>1, <3>2
  <2>4. /\ token # NoValue => TokenOf(token) \in asks
        /\ settings # NoValues => SettingsOf(settings) \in asks
    OBVIOUS
  <2> HIDE DEF asks, now, told
  <2>5. PluginTypeOK'
    BY <2>1, <2>2, <2>3, AttachAssumption DEF PluginTypeOK
  <2>6. ToldAll'
    <3>1. ASSUME NEW e \in Attached', e # d PROVE LastToken(e)' /\ LastSettings(e)'
      BY <2>1, <3>1 DEF ToldAll, LastToken, LastSettings, Attached, PluginTypeOK
    <3>2. LastToken(d)' /\ LastSettings(d)'
      BY <2>1, <2>3, <2>4 DEF LastToken, LastSettings, PluginTypeOK
    <3>3. QED
      BY <3>1, <3>2 DEF ToldAll
  <2>7. QED
    BY <2>5, <2>6
<1>7. ASSUME NEW d \in Daemon, HelloSends(d) PROVE PluginInv'
  <2>1. PICK m \in greeting[d] :
          /\ greeting' = [greeting EXCEPT ![d] = @ \ {m}]
          /\ Give({d}, m)
          /\ behind' = [behind EXCEPT ![d] =
               IF d \in Reached /\ m.v = (IF m.t = "token" THEN token ELSE settings) THEN @ \ {m.t}
               ELSE IF attached[d] THEN @ \cup {m.t} ELSE @]
    BY <1>7 DEF HelloSends
  <2>2. UNCHANGED <<token, settings, setting, saves, attached, attaches, silent, holds>>
    BY <1>7 DEF HelloSends
  <2>3. m \in Update /\ m.t \in {"token", "settings"}
    BY DEF PluginTypeOK, Update
  <2>4. /\ updates' \in [Daemon -> Seq(Update)]
        /\ given' \in [Daemon -> SUBSET Update]
        /\ \A u : u.t # m.t => (u \in given'[d] <=> u \in given[d])
        /\ d \in Reached => m \in given'[d]
        /\ \A e \in Daemon \ {d} : given'[e] = given[e]
    BY <2>1, <2>3, Sends
  <2>5. behind[d] \ {m.t} \in SUBSET {"token", "settings"} /\ behind[d] \cup {m.t} \in SUBSET {"token", "settings"}
    BY <2>3 DEF PluginTypeOK
  <2>6. behind' \in [Daemon -> SUBSET {"token", "settings"}] /\ greeting' \in [Daemon -> SUBSET Update]
    BY <2>1, <2>5 DEF PluginTypeOK
  <2>7. PluginTypeOK'
    BY <2>2, <2>4, <2>6 DEF PluginTypeOK
  <2>8. ASSUME NEW e \in Attached', e # d PROVE LastToken(e)' /\ LastSettings(e)'
    <3>1. /\ e \in Attached /\ e \in Daemon /\ given'[e] = given[e]
          /\ greeting'[e] = greeting[e] /\ behind'[e] = behind[e]
      BY <2>1, <2>2, <2>4, <2>8 DEF Attached, PluginTypeOK
    <3>2. QED
      BY <2>2, <3>1 DEF ToldAll, LastToken, LastSettings
  <2>9. ASSUME d \in Attached' PROVE LastToken(d)' /\ LastSettings(d)'
    <3>1. d \in Attached /\ attached[d] /\ LastToken(d) /\ LastSettings(d)
      BY <2>2, <2>9 DEF Attached, ToldAll
    <3>2. greeting'[d] = greeting[d] \ {m}
      BY <2>1 DEF PluginTypeOK
    <3>3. TokenOf(token).t = "token" /\ SettingsOf(settings).t = "settings"
      BY DEF TokenOf, SettingsOf
    <3>4. CASE m.t = "token"
      <4>1. CASE d \in Reached /\ m.v = token
        <5>1. m = TokenOf(token)
          BY <2>3, <3>4, <4>1 DEF TokenOf, Update
        <5>2. LastToken(d)'
          BY <2>2, <2>4, <4>1, <5>1 DEF LastToken
        <5>3. "settings" \in behind'[d] <=> "settings" \in behind[d]
          BY <2>1, <3>4, <4>1 DEF PluginTypeOK
        <5>4. LastSettings(d)'
          BY <2>2, <2>4, <3>1, <3>2, <3>3, <3>4, <5>1, <5>3 DEF LastSettings
        <5>5. QED
          BY <5>2, <5>4
      <4>2. CASE ~(d \in Reached /\ m.v = token)
        <5>1. behind'[d] = behind[d] \cup {"token"}
          BY <2>1, <3>1, <3>4, <4>2 DEF PluginTypeOK
        <5>2. SettingsOf(settings) # m
          BY <3>3, <3>4
        <5>3. QED
          BY <2>2, <2>4, <3>1, <3>2, <3>3, <3>4, <5>1, <5>2 DEF LastToken, LastSettings
      <4>3. QED
        BY <4>1, <4>2
    <3>5. CASE m.t = "settings"
      <4>1. TokenOf(token) # m
        BY <3>3, <3>5
      <4>2. CASE d \in Reached /\ m.v = settings
        <5>1. m = SettingsOf(settings)
          BY <2>3, <3>5, <4>2 DEF SettingsOf, Update
        <5>2. LastSettings(d)'
          BY <2>2, <2>4, <4>2, <5>1 DEF LastSettings
        <5>3. "token" \in behind'[d] <=> "token" \in behind[d]
          BY <2>1, <3>5, <4>2 DEF PluginTypeOK
        <5>4. LastToken(d)'
          BY <2>2, <2>4, <3>1, <3>2, <3>3, <3>5, <4>1, <5>3 DEF LastToken
        <5>5. QED
          BY <5>2, <5>4
      <4>3. CASE ~(d \in Reached /\ m.v = settings)
        <5>1. behind'[d] = behind[d] \cup {"settings"}
          BY <2>1, <3>1, <3>5, <4>3 DEF PluginTypeOK
        <5>2. QED
          BY <2>2, <2>4, <3>1, <3>2, <3>3, <3>5, <4>1, <5>1 DEF LastToken, LastSettings
      <4>4. QED
        BY <4>2, <4>3
    <3>6. QED
      BY <2>3, <3>4, <3>5
  <2>10. QED
    BY <2>7, <2>8, <2>9 DEF ToldAll
<1>8. ASSUME NEW d \in Daemon, DaemonTakes(d) PROVE PluginInv'
  <2>1. /\ updates' = [updates EXCEPT ![d] = Tail(@)] /\ updates[d] # <<>>
        /\ UNCHANGED <<token, settings, setting, saves, greeting, attached, attaches, silent, given, behind>>
    BY <1>8 DEF DaemonTakes
  <2>2. Tail(updates[d]) \in Seq(Update) /\ Head(updates[d]) \in Update
    BY <2>1 DEF PluginTypeOK
  <2>3. holds' \in [Daemon -> [token : TokenOrNone, settings : Values]]
    <3> DEFINE m == Head(updates[d])
    <3>1. (m.t = "token" /\ m.v \in TokenOrNone) \/ (m.t = "settings" /\ m.v \in Values)
      <4>1. CASE m \in [t : {"token"}, v : TokenOrNone]
        BY <4>1
      <4>2. CASE m \in [t : {"settings"}, v : Values]
        BY <4>2
      <4>3. QED
        BY <2>2, <4>1, <4>2 DEF Update
    <3>2. holds' = [holds EXCEPT ![d] = IF m.t = "token" THEN [@ EXCEPT !.token = m.v]
                                                          ELSE [@ EXCEPT !.settings = m.v]]
      BY <1>8 DEF DaemonTakes
    <3> HIDE DEF m
    <3>3. QED
      BY <3>1, <3>2 DEF PluginTypeOK
  <2>4. QED
    BY <2>1, <2>2, <2>3 DEF PluginTypeOK, ToldAll, LastToken, LastSettings, Attached
<1>9. ASSUME NEW d \in Daemon, DaemonGone(d) PROVE PluginInv'
  <2>1. PluginTypeOK'
    BY <1>9 DEF DaemonGone, PluginTypeOK
  <2>2. ASSUME NEW e \in Attached' PROVE LastToken(e)' /\ LastSettings(e)'
    <3>1. e \in Attached /\ e # d
      BY <1>9, <2>2 DEF DaemonGone, Attached, PluginTypeOK
    <3>2. UNCHANGED <<token, settings, greeting[e], given[e], behind[e]>>
      BY <1>9, <3>1 DEF DaemonGone, PluginTypeOK
    <3>3. QED
      BY <3>1, <3>2 DEF ToldAll, LastToken, LastSettings
  <2>3. QED
    BY <2>1, <2>2 DEF ToldAll
<1>10. ASSUME NEW d \in Daemon, GoesSilent(d) \/ HeardAgain(d) PROVE PluginInv'
  BY <1>10 DEF GoesSilent, HeardAgain, PluginTypeOK, ToldAll, LastToken, LastSettings, Attached
<1>11. ASSUME NEW r \in TokenSet, StoreToken(r) \/ ForgetToken(r) PROVE PluginInv'
  <2>1. r \in TokenOrNone /\ NoValue \in TokenOrNone
    BY DEF TokenOrNone
  <2>2. QED
    BY <1>2, <1>11, <2>1
<1>12. QED
  BY <1>1, <1>4, <1>6, <1>7, <1>8, <1>9, <1>11, <1>5, <1>10 DEF PluginNext

(* What is stored was given last to every connected daemon, or is in the      *)
(* hands of the handler of its hello, or the daemon is behind.                *)
THEOREM PluginInvariant == PluginSpec => []PluginInv
<1>1. PluginInit => PluginInv
  BY AttachAssumption, Updates
     DEF PluginInit, PluginInv, PluginTypeOK, ToldAll, Attached, TokenOrNone
<1>2. PluginInv /\ [PluginNext]_pluginVars => PluginInv'
  <2>1. ASSUME PluginInv, UNCHANGED pluginVars PROVE PluginInv'
    BY <2>1 DEF pluginVars, PluginInv, PluginTypeOK, ToldAll, LastToken, LastSettings, Attached
  <2>2. QED
    BY <2>1, PluginInvStep
<1>3. QED
  BY <1>1, <1>2, PTL DEF PluginSpec

(* Whatever was changed while it connected, what a daemon whose hello has     *)
(* been served was given last is what is stored now, unless the change found  *)
(* it silent or its hello's handler sent what it had read after the change.    *)
THEOREM PluginStoredWasSent == PluginSpec => []StoredWasSent
<1>1. PluginInv => StoredWasSent
  BY DEF PluginInv, ToldAll, LastToken, LastSettings, StoredWasSent, TokenOf, SettingsOf
<1>2. QED
  BY <1>1, PluginInvariant, PTL

-----------------------------------------------------------------------------
(* The hub: a signed-out tab hears no daemon.                                *)

\* A daemon has yet to answer an offer that was made over socket s.
Owed(s) ==
  \E d \in DeviceSock : \E i \in DOMAIN inbox[d] : inbox[d][i] = [t |-> "signal", from |-> s]
OfferOver(s, stages) ==
  offer[s[1]] # None /\ offer[s[1]][1] = s /\ offer[s[1]][2] \in stages

\* A tab that is or was connecting has numbered its socket.
HasNumber == \A c \in Client : tab[c].status \in {"connecting", "open"} => tab[c].n > 0

\* A socket that has not been accepted: later ones, and the one whose upgrade waits.
UpgradesAreNew ==
  \A c \in Client, n \in 1 .. MaxTab :
    n > tab[c].n \/ (n = tab[c].n /\ tab[c].upgrade) => sock[<<c, n>>].st = "none"
NewIsSilent ==
  \A s \in ClientSock :
    sock[s].st = "none" => ~Owed(s) /\ ~OfferOver(s, {"reading", "valid", "invalid", "sweeping"})

\* The sockets on which a revoked tab's offers were let through are closed.
RevokedIsSilent ==
  \A c \in Client, n \in 1 .. MaxTab :
    session[c] = "revoked" /\ sock[<<c, n>>].st = "open" =>
      ~Owed(<<c, n>>) /\ ~OfferOver(<<c, n>>, {"valid", "sweeping"})

HubInv == HubTypeOK /\ HasNumber /\ UpgradesAreNew /\ NewIsSilent /\ RevokedIsSilent

Sent == HubToClient \cup HubToDaemon

\* What a step does to the messages waiting on one socket, unless it sends a signal.
Plain(q, p) ==
  \/ q = p
  \/ q = <<>>
  \/ p # <<>> /\ q = Tail(p)
  \/ \E m \in Sent : m.t # "signal" /\ (q = Append(p, m) \/ q = <<m>>)

\* No socket is accepted, and no tab, offer or session changes; no signal is sent.
Closes == \A s \in ClientSock : \/ sock'[s].st = sock[s].st
                                \/ sock[s].st \in {"open", "closing"} /\ sock'[s].st \in {"closing", "gone"}
SameTabs ==
  \A c \in Client :
    /\ tab'[c].n = tab[c].n /\ tab'[c].upgrade = tab[c].upgrade
    /\ tab'[c].status \in {"connecting", "open"} => tab[c].status \in {"connecting", "open"}
Plainly == \A s \in Sock : Plain(inbox'[s], inbox[s])
Calm == Closes /\ SameTabs /\ Plainly /\ UNCHANGED <<offer, session>>

LEMMA Sockets ==
  /\ \A s \in ClientSock : /\ s \in Sock /\ ~IsDevice(s) /\ s[1] \in Client /\ s[2] \in 1 .. MaxTab
                           /\ s = <<s[1], s[2]>>
  /\ \A s \in DeviceSock : /\ s \in Sock /\ IsDevice(s) /\ s[1] \in Device /\ s[2] \in 1 .. MaxConn
                           /\ s = <<s[1], s[2]>>
  /\ \A s \in Sock : IsDevice(s) <=> s \in DeviceSock
  /\ \A c \in Client, n \in 1 .. MaxTab : <<c, n>> \in ClientSock
  /\ \A d \in Device, n \in 1 .. MaxConn : <<d, n>> \in DeviceSock
BY KindAssumption DEF ClientSock, DeviceSock, Sock, IsDevice

LEMMA Messages ==
  /\ \A d \in Device : PresenceAt(d, TRUE) \in Sent /\ PresenceAt(d, TRUE).t # "signal"
  /\ \A d \in Device : PresenceAt(d, FALSE) \in Sent /\ PresenceAt(d, FALSE).t # "signal"
  /\ \A r \in Rpc : [t |-> "rpc", id |-> r] \in Sent
  /\ \A s \in ClientSock : [t |-> "signal", from |-> s] \in Sent /\ [t |-> "client.revoked", conn |-> s] \in Sent
  /\ [t |-> "signal"] \in Sent /\ [t |-> "offline"] \in Sent
  /\ \A D \in SUBSET Device : [t |-> "presence", online |-> D] \in Sent
BY DEF PresenceAt, Sent, HubToClient, HubToDaemon

LEMMA SockShapes ==
  ASSUME NEW x \in SockState
  PROVE  /\ \A st \in {"none", "open", "closing", "gone"} :
              [x EXCEPT !.st = st] \in SockState /\ [x EXCEPT !.st = st].st = st
         /\ \A b \in BOOLEAN : [x EXCEPT !.silent = b] \in SockState /\ [x EXCEPT !.silent = b].st = x.st
         /\ [x EXCEPT !.rpc = TRUE] \in SockState /\ [x EXCEPT !.rpc = TRUE].st = x.st
         /\ \A th \in Thread \cup {None} :
              [x EXCEPT !.viewing = th] \in SockState /\ [x EXCEPT !.viewing = th].st = x.st
BY DEF SockState

LEMMA ClosedSays ==
  ASSUME NEW sk \in [Sock -> SockState], NEW S
  PROVE  /\ Closed(sk, S) \in [Sock -> SockState]
         /\ \A s \in Sock : \/ Closed(sk, S)[s] = sk[s]
                            \/ sk[s].st = "open" /\ Closed(sk, S)[s].st = "closing"
         /\ \A s \in Sock \cap S : Closed(sk, S)[s].st # "open"
BY SockShapes DEF Closed

LEMMA SendSays ==
  ASSUME NEW sk, NEW box \in [Sock -> Seq(Sent)], NEW S, NEW m \in Sent
  PROVE  /\ SendTo(sk, box, S, m) \in [Sock -> Seq(Sent)]
         /\ \A s \in Sock : \/ SendTo(sk, box, S, m)[s] = box[s]
                            \/ /\ s \in S /\ sk[s].st = "open"
                               /\ SendTo(sk, box, S, m)[s] = Append(box[s], m)
<1>1. \A s \in Sock : box[s] \in Seq(Sent) /\ Append(box[s], m) \in Seq(Sent)
  OBVIOUS
<1>2. QED
  BY <1>1 DEF SendTo

LEMMA BroadcastSays ==
  ASSUME HubTypeOK, NEW sk, NEW d \in Device, NEW on \in BOOLEAN
  PROVE  /\ Broadcast(sk, inbox, PresenceAt(d, on)) \in [Sock -> Seq(Sent)]
         /\ \A s \in Sock : Plain(Broadcast(sk, inbox, PresenceAt(d, on))[s], inbox[s])
<1>1. inbox \in [Sock -> Seq(Sent)] /\ PresenceAt(d, on) \in Sent /\ PresenceAt(d, on).t # "signal"
  BY DEF HubTypeOK, Sent, PresenceAt, HubToClient
<1>2. QED
  BY <1>1, SendSays, ZenonT(30) DEF Broadcast, Plain

LEMMA GoneSays ==
  ASSUME HubTypeOK, NEW sk, NEW s \in Sock, OnGone(sk, s)
  PROVE  /\ inbox' \in [Sock -> Seq(Sent)] /\ Plainly
         /\ pending' \in [Rpc -> Device \cup {None}] /\ result' \in [Rpc -> Outcome]
<1> DEFINE box == Broadcast(sk, inbox, PresenceAt(s[1], FALSE))
<1>1. inbox \in [Sock -> Seq(Sent)] /\ <<>> \in Seq(Sent)
  BY DEF HubTypeOK, Sent
<1>2. CASE ~IsDevice(s) \/ SocketsOf(sk, s[1]) \ {s} # {}
  <2>1. inbox' = [inbox EXCEPT ![s] = <<>>] /\ UNCHANGED <<pending, result>>
    BY <1>2 DEF OnGone
  <2>2. QED
    BY <1>1, <2>1 DEF Plainly, Plain, HubTypeOK
<1>3. CASE ~(~IsDevice(s) \/ SocketsOf(sk, s[1]) \ {s} # {})
  <2>1. /\ pending' = [r \in Rpc |-> IF pending[r] = s[1] THEN None ELSE pending[r]]
        /\ result' = [r \in Rpc |-> IF pending[r] = s[1] THEN "offline" ELSE result[r]]
        /\ inbox' = [box EXCEPT ![s] = <<>>]
    BY <1>3 DEF OnGone
  <2>2. s[1] \in Device
    BY <1>3 DEF IsDevice
  <2>3. box \in [Sock -> Seq(Sent)] /\ \A q \in Sock : Plain(box[q], inbox[q])
    BY <2>2, BroadcastSays
  <2>4. inbox' \in [Sock -> Seq(Sent)] /\ Plainly
    BY <1>1, <2>1, <2>3 DEF Plainly, Plain
  <2>5. QED
    BY <2>1, <2>4 DEF HubTypeOK, Outcome
<1>4. QED
  BY <1>2, <1>3

-----------------------------------------------------------------------------
(* Steps of daemons and sweeps.                                               *)

\* The types, without the boxes.
TypesBut == 
  /\ alarm \in BOOLEAN
  /\ sweep \in [Handler -> (SUBSET DeviceSock) \cup {None}]
  /\ accepting \subseteq DeviceSock
  /\ offer \in [Client -> {None} \cup (ClientSock \X {"reading", "valid", "invalid", "sweeping"})]
  /\ \A c \in Client : offer[c] # None => offer[c][1][1] = c
  /\ session \in [Client -> {"in", "deleted", "revoked"}]
RpcTypes == pending \in [Rpc -> Device \cup {None}] /\ result \in [Rpc -> Outcome]
BoxTypes == sock \in [Sock -> SockState] /\ inbox \in [Sock -> Seq(Sent)]
EndTypes == tab \in [Client -> TabState] /\ held \in [Device -> 0 .. MaxConn] /\ naps \in 0 .. MaxNap

LEMMA HubTypes ==
  /\ HubTypeOK <=> TypesBut /\ RpcTypes /\ BoxTypes /\ EndTypes
  /\ HubTypeOK' <=> TypesBut' /\ RpcTypes' /\ BoxTypes' /\ EndTypes'
BY DEF HubTypeOK, TypesBut, RpcTypes, BoxTypes, EndTypes, Sent

LEMMA Quiets ==
  ASSUME HubTypeOK
  PROVE  /\ HubQuiet => TypesBut' /\ UNCHANGED <<offer, session>>
         /\ RpcQuiet => RpcTypes'
         /\ TabsQuiet => SameTabs
         /\ TabsQuiet /\ DevicesQuiet => EndTypes'
         /\ UNCHANGED <<sock>> => Closes
         /\ UNCHANGED <<inbox>> => Plainly
         /\ UNCHANGED <<sock, inbox>> => BoxTypes'
BY HubTypes DEF HubQuiet, RpcQuiet, TabsQuiet, DevicesQuiet, TypesBut, RpcTypes, BoxTypes, EndTypes,
   SameTabs, Closes, Plainly, Plain

LEMMA AcceptDeviceCalm ==
  ASSUME HubTypeOK, NEW d \in Device, AcceptDevice(d) PROVE HubTypeOK' /\ Calm
<1> DEFINE used == {n \in 1 .. MaxConn : sock[<<d, n>>].st # "none"}
           s == <<d, Cardinality(used) + 1>>
           old == {<<d, n>> : n \in used}
           shut == Closed(sock, old)
           sk == [shut EXCEPT ![s].st = "open"]
<1>1. /\ Cardinality(used) < MaxConn /\ sock' = sk /\ inbox' = Broadcast(sk, inbox, PresenceAt(d, TRUE))
      /\ accepting' = accepting \cup {s} /\ held' = [held EXCEPT ![d] = s[2]]
      /\ UNCHANGED <<alarm, sweep, offer, session, naps>> /\ RpcQuiet /\ TabsQuiet
  BY DEF AcceptDevice
<1>2. s \in DeviceSock /\ s[2] \in 1 .. MaxConn
  <2>1. IsFiniteSet(1 .. MaxConn) /\ used \in SUBSET (1 .. MaxConn)
    BY FS_Interval, ConnAssumption
  <2>2. Cardinality(used) \in Nat
    BY <2>1, FS_Subset, FS_CardinalityType
  <2>3. Cardinality(used) + 1 \in 1 .. MaxConn
    BY <1>1, <2>2, ConnAssumption
  <2>4. QED
    BY <2>3, Sockets
<1> HIDE DEF used, s, old
<1>3. shut \in [Sock -> SockState]
      /\ \A q \in Sock : \/ shut[q] = sock[q]
                         \/ sock[q].st = "open" /\ shut[q].st = "closing"
  BY ClosedSays, HubTypes DEF BoxTypes
<1> HIDE DEF shut
<1>4. sk \in [Sock -> SockState] /\ \A q \in ClientSock : sk[q] = shut[q]
  BY <1>2, <1>3, SockShapes, Sockets, ZenonT(30)
<1> HIDE DEF sk
<1>5. BoxTypes' /\ Plainly /\ Closes
  BY <1>1, <1>3, <1>4, BroadcastSays, Sockets DEF BoxTypes, Plainly, Closes
<1>6. EndTypes' /\ SameTabs
  BY <1>1, <1>2, HubTypes DEF EndTypes, SameTabs, TabsQuiet
<1>7. TypesBut' /\ RpcTypes'
  BY <1>1, <1>2, HubTypes DEF TypesBut, RpcTypes, RpcQuiet
<1>8. QED
  BY <1>1, <1>5, <1>6, <1>7, HubTypes DEF Calm

\* Steps that leave the tabs and the daemons' ends alone.
LEMMA ServerCalm ==
  ASSUME HubTypeOK, TypesBut', RpcTypes', BoxTypes', Closes, Plainly, UNCHANGED <<offer, session>>,
         TabsQuiet, DevicesQuiet
  PROVE  HubTypeOK' /\ Calm
BY Quiets, HubTypes DEF Calm

LEMMA SocketCalm ==
  ASSUME HubTypeOK, NEW s \in DeviceSock,
         Accepted(s) \/ Hello(s) \/ Nap(s) \/ Pings(s)
  PROVE  HubTypeOK' /\ Calm
<1>0. /\ BoxTypes /\ sock[s] \in SockState /\ s \in Sock /\ s \notin ClientSock
      /\ sock[s].silent \in BOOLEAN
  BY HubTypes, Sockets DEF BoxTypes, SockState
<1>1. CASE Accepted(s)
  <2>1. TypesBut' /\ UNCHANGED <<offer, session>>
    BY <1>1, HubTypes DEF Accepted, TypesBut
  <2>2. QED
    BY <1>1, <2>1, Quiets, ServerCalm DEF Accepted
<1>2. CASE Hello(s)
  <2>1. /\ sock' = [sock EXCEPT ![s] = [sock[s] EXCEPT !.rpc = TRUE]] \/ sock' = Closed(sock, {s})
        /\ UNCHANGED inbox /\ HubQuiet /\ RpcQuiet /\ TabsQuiet /\ DevicesQuiet
    BY <1>2 DEF Hello
  <2>2. BoxTypes' /\ Closes
    <3>1. CASE sock' = [sock EXCEPT ![s] = [sock[s] EXCEPT !.rpc = TRUE]]
      <4>1. [sock[s] EXCEPT !.rpc = TRUE] \in SockState
        BY <1>0, SockShapes
      <4>2. QED
        BY <1>0, <2>1, <3>1, <4>1 DEF BoxTypes, Closes
    <3>2. CASE sock' = Closed(sock, {s})
      BY <1>0, <2>1, <3>2, ClosedSays, Sockets DEF BoxTypes, Closes
    <3>3. QED
      BY <2>1, <3>1, <3>2
  <2>3. QED
    BY <2>1, <2>2, Quiets, ServerCalm
<1>3. CASE Nap(s) \/ Pings(s)
  <2>1. PICK b \in BOOLEAN : sock' = [sock EXCEPT ![s] = [sock[s] EXCEPT !.silent = b]]
    <3>1. CASE Nap(s)
      BY <1>0, <3>1 DEF Nap
    <3>2. CASE Pings(s)
      <4>1. sock' = [sock EXCEPT ![s].silent = ~@]
        BY <3>2 DEF Pings
      <4>2. sock' = [sock EXCEPT ![s] = [sock[s] EXCEPT !.silent = ~sock[s].silent]]
        BY <4>1
      <4>3. (~sock[s].silent) \in BOOLEAN
        OBVIOUS
      <4>4. QED
        BY <4>2, <4>3
    <3>3. QED
      BY <1>3, <3>1, <3>2
  <2>2. [sock[s] EXCEPT !.silent = b] \in SockState
    BY <1>0, SockShapes
  <2>3. UNCHANGED inbox /\ HubQuiet /\ RpcQuiet /\ TabsQuiet
    BY <1>3 DEF Nap, Pings
  <2>4. BoxTypes' /\ Closes
    BY <1>0, <2>1, <2>2, <2>3 DEF BoxTypes, Closes
  <2>5. EndTypes'
    <3>1. naps \in 0 .. MaxNap /\ tab' = tab
      BY <1>3, HubTypes DEF Nap, Pings, EndTypes, TabsQuiet
    <3>2. held' = held /\ (naps' = naps \/ (naps < MaxNap /\ naps' = naps + 1))
      BY <1>3 DEF Nap, Pings, DevicesQuiet
    <3>3. naps' \in 0 .. MaxNap
      BY <3>1, <3>2, ConnAssumption
    <3>4. QED
      BY <3>1, <3>2, <3>3, HubTypes DEF EndTypes
  <2>6. QED
    BY <2>3, <2>4, <2>5, Quiets, HubTypes DEF Calm
<1>4. QED
  BY <1>1, <1>2, <1>3

LEMMA DaemonCalm ==
  ASSUME HubTypeOK, NEW d \in Device, DaemonDrops(d) \/ RevokeDevice(d)
  PROVE  HubTypeOK' /\ Calm
<1>1. CASE DaemonDrops(d)
  <2>1. EndTypes' /\ SameTabs
    BY <1>1, HubTypes, ConnAssumption DEF DaemonDrops, EndTypes, SameTabs, TabsQuiet
  <2>2. QED
    BY <1>1, <2>1, Quiets, HubTypes DEF DaemonDrops, Calm
<1>2. CASE RevokeDevice(d)
  <2>1. /\ sock' = Closed(sock, {d} \X (1 .. MaxConn))
        /\ inbox' = Broadcast(sock', inbox, PresenceAt(d, FALSE))
        /\ HubQuiet /\ RpcQuiet /\ TabsQuiet /\ DevicesQuiet
    BY <1>2 DEF RevokeDevice
  <2>2. BoxTypes' /\ Closes /\ Plainly
    <3>1. /\ sock' \in [Sock -> SockState]
          /\ \A s \in Sock : \/ sock'[s] = sock[s]
                             \/ sock[s].st = "open" /\ sock'[s].st = "closing"
      BY <2>1, HubTypes, ClosedSays DEF BoxTypes
    <3>2. inbox' \in [Sock -> Seq(Sent)] /\ \A s \in Sock : Plain(inbox'[s], inbox[s])
      BY <2>1, BroadcastSays
    <3>3. QED
      BY <3>1, <3>2, Sockets DEF BoxTypes, Closes, Plainly
  <2>3. QED
    BY <2>1, <2>2, Quiets, ServerCalm
<1>3. QED
  BY <1>1, <1>2

\* The rest of a box, when its first message has been read.
LEMMA TailPlain ==
  ASSUME HubTypeOK, NEW s \in Sock, inbox[s] # <<>>, inbox' = [inbox EXCEPT ![s] = Tail(@)]
  PROVE  inbox' \in [Sock -> Seq(Sent)] /\ Plainly
<1>1. inbox \in [Sock -> Seq(Sent)] /\ Tail(inbox[s]) \in Seq(Sent)
  BY HubTypes DEF BoxTypes
<1>2. QED
  BY <1>1 DEF Plainly, Plain

LEMMA RpcCalm ==
  ASSUME HubTypeOK, NEW r \in Rpc,
         \/ RpcTimeout(r)
         \/ \E d \in Device : DeviceRpc(r, d)
         \/ \E s \in DeviceSock : AnswerRpc(s, r)
  PROVE  HubTypeOK' /\ Calm
<1>1. CASE RpcTimeout(r)
  <2>1. RpcTypes'
    BY <1>1, HubTypes DEF RpcTimeout, RpcTypes, Outcome
  <2>2. QED
    BY <1>1, <2>1, Quiets, ServerCalm DEF RpcTimeout
<1>2. ASSUME NEW d \in Device, DeviceRpc(r, d) PROVE HubTypeOK' /\ Calm
  <2>0. inbox \in [Sock -> Seq(Sent)] /\ [t |-> "rpc", id |-> r] \in Sent
    BY HubTypes, Messages DEF BoxTypes
  <2>1. UNCHANGED sock /\ HubQuiet /\ TabsQuiet /\ DevicesQuiet
    BY <1>2 DEF DeviceRpc
  <2>2. \/ /\ UNCHANGED <<pending, inbox>>
           /\ result' = [result EXCEPT ![r] = "offline"] \/ result' = [result EXCEPT ![r] = "unsupported"]
        \/ /\ pending' = [pending EXCEPT ![r] = d] /\ UNCHANGED result
           /\ \E s \in SocketsOf(sock, d) : inbox' = SendTo(sock, inbox, {s}, [t |-> "rpc", id |-> r])
    BY <1>2 DEF DeviceRpc
  <2>3. RpcTypes'
    BY <2>2, HubTypes DEF RpcTypes, Outcome
  <2>4. inbox' \in [Sock -> Seq(Sent)] /\ Plainly
    <3>1. CASE UNCHANGED inbox
      BY <2>0, <3>1 DEF Plainly, Plain
    <3>2. ASSUME NEW s, inbox' = SendTo(sock, inbox, {s}, [t |-> "rpc", id |-> r])
          PROVE  inbox' \in [Sock -> Seq(Sent)] /\ Plainly
      <4> DEFINE m == [t |-> "rpc", id |-> r]
      <4>1. m \in Sent /\ m.t # "signal"
        BY <2>0
      <4>3. inbox' = SendTo(sock, inbox, {s}, m)
        BY <3>2
      <4> HIDE DEF m
      <4>2. /\ inbox' \in [Sock -> Seq(Sent)]
            /\ \A q \in Sock : inbox'[q] = inbox[q] \/ inbox'[q] = Append(inbox[q], m)
        <5>1. \A q \in Sock : inbox[q] \in Seq(Sent) /\ Append(inbox[q], m) \in Seq(Sent)
          BY <2>0, <4>1
        <5>2. QED
          BY <4>3, <5>1 DEF SendTo
      <4>4. QED
        BY <4>1, <4>2 DEF Plainly, Plain
    <3>3. QED
      BY <2>2, <3>1, <3>2
  <2>5. BoxTypes' /\ Closes
    BY <2>1, <2>4, HubTypes DEF BoxTypes, Closes
  <2>6. QED
    BY <2>1, <2>3, <2>4, <2>5, Quiets, ServerCalm
<1>3. ASSUME NEW s \in DeviceSock, AnswerRpc(s, r) PROVE HubTypeOK' /\ Calm
  <2>1. /\ inbox[s] # <<>> /\ inbox' = [inbox EXCEPT ![s] = Tail(@)]
        /\ UNCHANGED sock /\ HubQuiet /\ TabsQuiet /\ DevicesQuiet
    BY <1>3 DEF AnswerRpc
  <2>2. RpcTypes'
    BY <1>3, HubTypes DEF AnswerRpc, RpcTypes, RpcQuiet, Outcome
  <2>3. BoxTypes' /\ Closes /\ Plainly
    BY <2>1, TailPlain, HubTypes, Sockets DEF BoxTypes, Closes
  <2>4. QED
    BY <2>1, <2>2, <2>3, Quiets, ServerCalm
<1>4. QED
  BY <1>1, <1>2, <1>3

LEMMA GoneCalm ==
  ASSUME HubTypeOK, NEW s \in Sock, SocketGone(s) PROVE HubTypeOK' /\ Calm
<1> DEFINE dead == [st |-> "gone", silent |-> FALSE, rpc |-> FALSE, viewing |-> None]
           sk == [sock EXCEPT ![s] = dead]
<1>1. /\ sock[s].st \in {"open", "closing"} /\ sock' = sk /\ OnGone(sk, s)
      /\ held' = IF IsDevice(s) /\ held[s[1]] = s[2] THEN [held EXCEPT ![s[1]] = 0] ELSE held
      /\ tab' = IF ~IsDevice(s) /\ tab[s[1]].n = s[2] /\ tab[s[1]].status \in {"connecting", "open"}
                THEN [tab EXCEPT ![s[1]].status = "closed", ![s[1]].sink = FALSE]
                ELSE tab
      /\ UNCHANGED naps /\ HubQuiet
  BY DEF SocketGone
<1>2. dead \in SockState /\ dead.st = "gone"
  BY DEF SockState
<1> HIDE DEF dead
<1>3. sk \in [Sock -> SockState] /\ (\A q \in Sock : sk[q] = IF q = s THEN dead ELSE sock[q])
  BY <1>2, HubTypes DEF BoxTypes
<1>4. inbox' \in [Sock -> Seq(Sent)] /\ Plainly /\ RpcTypes'
  BY <1>1, GoneSays DEF RpcTypes
<1>5. BoxTypes' /\ Closes
  BY <1>1, <1>2, <1>3, <1>4, Sockets DEF BoxTypes, Closes
<1>6. EndTypes' /\ SameTabs
  <2>1. held' \in [Device -> 0 .. MaxConn] /\ naps' \in 0 .. MaxNap
    <3>1. held \in [Device -> 0 .. MaxConn] /\ naps \in 0 .. MaxNap /\ 0 \in 0 .. MaxConn
      BY HubTypes, ConnAssumption DEF EndTypes
    <3>2. held' = held \/ held' = [held EXCEPT ![s[1]] = 0]
      BY <1>1
    <3>3. QED
      BY <1>1, <3>1, <3>2
  <2>2. CASE tab' = tab
    BY <2>1, <2>2, HubTypes DEF EndTypes, SameTabs
  <2>3. CASE ~IsDevice(s) /\ tab' = [tab EXCEPT ![s[1]].status = "closed", ![s[1]].sink = FALSE]
    <3> DEFINE c == s[1]
               y == [tab[c] EXCEPT !.status = "closed", !.sink = FALSE]
    <3>1. c \in Client /\ tab[c] \in TabState
      BY <2>3, Sockets, HubTypes DEF Sock, EndTypes
    <3>2. y \in TabState /\ y.n = tab[c].n /\ y.upgrade = tab[c].upgrade /\ y.status = "closed"
      BY <3>1 DEF TabState
    <3>3. tab' = [tab EXCEPT ![c] = y]
      BY <2>3, <3>1
    <3> HIDE DEF y, c
    <3>4. QED
      BY <2>1, <3>1, <3>2, <3>3, HubTypes DEF EndTypes, SameTabs
  <2>4. QED
    BY <1>1, <2>2, <2>3
<1>7. QED
  BY <1>1, <1>4, <1>5, <1>6, Quiets, HubTypes DEF Calm

LEMMA SweepCalm ==
  ASSUME HubTypeOK, SweepStep PROVE HubTypeOK' /\ Calm
<1>0. "alarm" \in Handler /\ \A c \in Client : c \in Handler
  BY DEF Handler
<1>1. CASE Alarm
  <2>1. TypesBut' /\ UNCHANGED <<offer, session>>
    BY <1>0, <1>1, HubTypes DEF Alarm, SweepStarts, TypesBut
  <2>2. QED
    BY <1>1, <2>1, Quiets, ServerCalm DEF Alarm
<1>2. CASE AlarmEnds
  <2>1. TypesBut' /\ UNCHANGED <<offer, session>>
    BY <1>0, <1>2, HubTypes DEF AlarmEnds, TypesBut
  <2>2. QED
    BY <1>2, <2>1, Quiets, ServerCalm DEF AlarmEnds
<1>3. ASSUME NEW h \in Handler, NEW s \in DeviceSock, SweepCloses(h, s) PROVE HubTypeOK' /\ Calm
  <2> DEFINE sk == Closed(sock, {s})
  <2>1. /\ sweep[h] # None /\ sock' = sk /\ OnGone(sk, s)
        /\ sweep' = [sweep EXCEPT ![h] = @ \ {s}]
        /\ UNCHANGED <<alarm, accepting, offer, session>> /\ TabsQuiet /\ DevicesQuiet
    BY <1>3 DEF SweepCloses
  <2>2. TypesBut'
    BY <2>1, HubTypes DEF TypesBut
  <2>3. inbox' \in [Sock -> Seq(Sent)] /\ Plainly /\ RpcTypes'
    BY <2>1, GoneSays, Sockets DEF RpcTypes
  <2>4. BoxTypes' /\ Closes
    BY <2>1, <2>3, HubTypes, ClosedSays, Sockets, ZenonT(30) DEF BoxTypes, Closes
  <2>5. QED
    BY <2>1, <2>2, <2>3, <2>4, ServerCalm
<1>4. QED
  BY <1>1, <1>2, <1>3 DEF SweepStep

LEMMA DeviceCalm ==
  ASSUME HubTypeOK, DeviceStep PROVE HubTypeOK' /\ Calm
BY AcceptDeviceCalm, SocketCalm, DaemonCalm, RpcCalm, GoneCalm DEF DeviceStep

-----------------------------------------------------------------------------
(* Steps of tabs.                                                             *)

LEMMA TabShapes ==
  ASSUME NEW x \in TabState
  PROVE  /\ x.n \in 0 .. MaxTab /\ x.upgrade \in BOOLEAN /\ x.shown \in Thread \cup {None}
         /\ \A st \in {"idle", "connecting", "open", "closed"}, b \in BOOLEAN, D \in SUBSET Device,
               th \in Thread \cup {None}, n \in 0 .. MaxTab :
              /\ [x EXCEPT !.status = st] \in TabState
              /\ [x EXCEPT !.shown = th] \in TabState
              /\ [x EXCEPT !.sent = th] \in TabState
              /\ [x EXCEPT !.online = D] \in TabState
              /\ [x EXCEPT !.sink = b] \in TabState
              /\ [x EXCEPT !.upgrade = b] \in TabState
              /\ [x EXCEPT !.n = n] \in TabState
BY DEF TabState

LEMMA SyncSays ==
  ASSUME HubTypeOK, NEW c \in Client, NEW x \in TabState, NEW s \in ClientSock, s[1] = c,
         x.n = tab[c].n, x.upgrade = tab[c].upgrade,
         x.status \in {"connecting", "open"} => tab[c].status \in {"connecting", "open"},
         SyncViewing(x, s)
  PROVE  /\ tab' \in [Client -> TabState] /\ SameTabs
         /\ sock' \in [Sock -> SockState] /\ Closes
<1>0. /\ tab \in [Client -> TabState] /\ sock \in [Sock -> SockState] /\ s \in Sock /\ sock[s] \in SockState
  BY HubTypes, Sockets DEF EndTypes, BoxTypes
<1>1. CASE x.status = "open" /\ x.shown # x.sent
  <2> DEFINE y == [x EXCEPT !.sent = x.shown]
             th == IF sock[s].st = "open" THEN x.shown ELSE sock[s].viewing
             k == [sock[s] EXCEPT !.viewing = th]
  <2>1. tab' = [tab EXCEPT ![c] = y] /\ sock' = [sock EXCEPT ![s] = k]
    BY <1>1 DEF SyncViewing
  <2>2. y \in TabState /\ y.n = x.n /\ y.upgrade = x.upgrade /\ y.status = x.status
    BY DEF TabState
  <2>3. k \in SockState /\ k.st = sock[s].st
    <3>1. sock[s].viewing \in Thread \cup {None} /\ x.shown \in Thread \cup {None}
      BY <1>0 DEF SockState, TabState
    <3>2. th \in Thread \cup {None}
      BY <3>1
    <3> HIDE DEF th
    <3>3. QED
      BY <1>0, <3>2, SockShapes
  <2> HIDE DEF y, k
  <2>4. QED
    BY <1>0, <2>1, <2>2, <2>3 DEF SameTabs, Closes
<1>2. CASE ~(x.status = "open" /\ x.shown # x.sent)
  <2>1. tab' = [tab EXCEPT ![c] = x] /\ sock' = sock
    BY <1>2 DEF SyncViewing
  <2>2. QED
    BY <1>0, <2>1 DEF SameTabs, Closes
<1>3. QED
  BY <1>1, <1>2

\* A tab's number is that of a socket once it has connected.
LEMMA TabSocket ==
  ASSUME HubTypeOK, NEW c \in Client, tab[c].n > 0
  PROVE  /\ Here(c) \in ClientSock /\ Here(c) \in Sock /\ Here(c)[1] = c
         /\ Here(c) = <<c, tab[c].n>> /\ tab[c].n \in 1 .. MaxTab
<1>1. tab[c] \in TabState
  BY HubTypes DEF EndTypes
<1>2. tab[c].n \in 1 .. MaxTab
  BY <1>1, ConnAssumption DEF TabState
<1>3. QED
  BY <1>2, Sockets DEF Here

\* What of a tab and its boxes is left, when neither offers nor sessions change.
LEMMA TabCalm ==
  ASSUME HubTypeOK, NEW c \in Client,
         tab' \in [Client -> TabState], SameTabs, sock' \in [Sock -> SockState], Closes,
         inbox' \in [Sock -> Seq(Sent)], Plainly, HubQuiet, RpcQuiet, DevicesQuiet
  PROVE  HubTypeOK' /\ Calm
<1>1. EndTypes' /\ BoxTypes'
  BY HubTypes DEF EndTypes, BoxTypes, DevicesQuiet
<1>2. QED
  BY <1>1, Quiets, HubTypes DEF Calm

LEMMA TabStepCalm ==
  ASSUME HubTypeOK, HasNumber, NEW c \in Client,
         \/ Opened(c) \/ Handle(c) \/ Unauthorized(c)
         \/ \E th \in Thread \cup {None} : SetThread(c, th)
  PROVE  HubTypeOK' /\ Calm
<1>0. /\ tab \in [Client -> TabState] /\ tab[c] \in TabState
      /\ sock \in [Sock -> SockState] /\ inbox \in [Sock -> Seq(Sent)]
  BY HubTypes DEF EndTypes, BoxTypes
<1>1. CASE Opened(c)
  <2> DEFINE x == [tab[c] EXCEPT !.status = "open", !.sent = None]
  <2>1. /\ x \in TabState /\ x.n = tab[c].n /\ x.upgrade = tab[c].upgrade
    BY <1>0 DEF TabState
  <2>2. /\ tab[c].status = "connecting" /\ SyncViewing(x, Here(c))
        /\ UNCHANGED inbox /\ HubQuiet /\ RpcQuiet /\ DevicesQuiet
    BY <1>1 DEF Opened
  <2> HIDE DEF x
  <2>3. Here(c) \in ClientSock /\ Here(c)[1] = c
    BY <2>2, TabSocket DEF HasNumber
  <2>4. tab' \in [Client -> TabState] /\ SameTabs /\ sock' \in [Sock -> SockState] /\ Closes
    BY <2>1, <2>2, <2>3, SyncSays
  <2>5. QED
    BY <1>0, <2>2, <2>4, Quiets, TabCalm
<1>2. ASSUME NEW th \in Thread \cup {None}, SetThread(c, th) PROVE HubTypeOK' /\ Calm
  <2> DEFINE x == [tab[c] EXCEPT !.shown = th]
  <2>1. /\ x \in TabState /\ x.n = tab[c].n /\ x.upgrade = tab[c].upgrade /\ x.status = tab[c].status
    BY <1>0 DEF TabState
  <2>2. /\ tab[c].n > 0 /\ SyncViewing(x, Here(c))
        /\ UNCHANGED inbox /\ HubQuiet /\ RpcQuiet /\ DevicesQuiet
    BY <1>2 DEF SetThread
  <2> HIDE DEF x
  <2>3. Here(c) \in ClientSock /\ Here(c)[1] = c
    BY <2>2, TabSocket
  <2>4. tab' \in [Client -> TabState] /\ SameTabs /\ sock' \in [Sock -> SockState] /\ Closes
    BY <2>1, <2>2, <2>3, SyncSays
  <2>5. QED
    BY <1>0, <2>2, <2>4, Quiets, TabCalm
<1>3. CASE Handle(c)
  <2> DEFINE m == Head(inbox[Here(c)])
             x == CASE m.t = "presence" -> [tab[c] EXCEPT !.online = m.online]
                    [] m.t = "presence.update" ->
                         [tab[c] EXCEPT !.online = IF m.online THEN tab[c].online \cup {m.device}
                                                               ELSE tab[c].online \ {m.device}]
                    [] OTHER -> [tab[c] EXCEPT !.sink = FALSE]
  <2>1. /\ tab[c].status = "open" /\ inbox[Here(c)] # <<>>
        /\ inbox' = [inbox EXCEPT ![Here(c)] = Tail(@)]
        /\ UNCHANGED sock /\ HubQuiet /\ RpcQuiet /\ DevicesQuiet
    BY <1>3 DEF Handle
  <2>2. tab' = [tab EXCEPT ![c] = x]
    BY <1>3 DEF Handle
  <2>3. Here(c) \in Sock
    BY <2>1, TabSocket DEF HasNumber
  <2>4. m \in Sent
    BY <1>0, <2>1, <2>3
  <2>5. x \in TabState /\ x.n = tab[c].n /\ x.upgrade = tab[c].upgrade /\ x.status = tab[c].status
    <3>1. CASE m.t = "presence"
      <4>1. m.online \in SUBSET Device
        BY <2>4, <3>1 DEF Sent, HubToClient, HubToDaemon
      <4>2. QED
        BY <1>0, <3>1, <4>1 DEF TabState
    <3>2. CASE m.t = "presence.update"
      <4>1. m.device \in Device
        BY <2>4, <3>2 DEF Sent, HubToClient, HubToDaemon
      <4>2. CASE m.online
        BY <1>0, <3>2, <4>1, <4>2 DEF TabState
      <4>3. CASE ~m.online
        BY <1>0, <3>2, <4>1, <4>3 DEF TabState
      <4>4. QED
        BY <4>2, <4>3
    <3>3. CASE m.t # "presence" /\ m.t # "presence.update"
      BY <1>0, <3>3 DEF TabState
    <3>4. QED
      BY <3>1, <3>2, <3>3
  <2> HIDE DEF x, m
  <2>6. tab' \in [Client -> TabState] /\ SameTabs
    BY <1>0, <2>2, <2>5 DEF SameTabs
  <2>7. inbox' \in [Sock -> Seq(Sent)] /\ Plainly
    BY <2>1, <2>3, TailPlain
  <2>8. QED
    BY <1>0, <2>1, <2>6, <2>7, Quiets, TabCalm
<1>4. CASE Unauthorized(c)
  <2> DEFINE x == [tab[c] EXCEPT !.status = "idle", !.online = {}, !.sink = FALSE]
  <2>1. /\ x \in TabState /\ x.n = tab[c].n /\ x.upgrade = tab[c].upgrade /\ x.status = "idle"
    BY <1>0 DEF TabState
  <2>2. /\ tab' = [tab EXCEPT ![c] = x]
        /\ UNCHANGED <<sock, inbox>> /\ HubQuiet /\ RpcQuiet /\ DevicesQuiet
    BY <1>0, <1>4 DEF Unauthorized
  <2> HIDE DEF x
  <2>3. tab' \in [Client -> TabState] /\ SameTabs
    BY <1>0, <2>1, <2>2 DEF SameTabs
  <2>4. QED
    BY <1>0, <2>2, <2>3, Quiets, TabCalm
<1>5. QED
  BY <1>1, <1>2, <1>3, <1>4

LEMMA RevokedReadCalm ==
  ASSUME HubTypeOK, NEW s \in DeviceSock, NEW conn, ReadRevoked(s, conn)
  PROVE  HubTypeOK' /\ Calm
<1>1. /\ inbox[s] # <<>> /\ inbox' = [inbox EXCEPT ![s] = Tail(@)]
      /\ UNCHANGED sock /\ HubQuiet /\ RpcQuiet /\ TabsQuiet /\ DevicesQuiet
  BY DEF ReadRevoked
<1>2. BoxTypes' /\ Closes /\ Plainly
  BY <1>1, TailPlain, HubTypes, Sockets DEF BoxTypes, Closes
<1>3. QED
  BY <1>1, <1>2, Quiets, ServerCalm

LEMMA OfferShapes ==
  ASSUME HubTypeOK, NEW c \in Client, offer[c] # None
  PROVE  /\ offer[c][1] \in ClientSock /\ offer[c][1][1] = c
         /\ offer[c][2] \in {"reading", "valid", "invalid", "sweeping"}
         /\ offer[c] = <<offer[c][1], offer[c][2]>>
BY HubTypes DEF TypesBut

LEMMA OfferKept ==
  ASSUME HubTypeOK, NEW c \in Client, NEW x \in {None} \cup (ClientSock \X {"reading", "valid", "invalid", "sweeping"}),
         x # None => x[1][1] = c, offer' = [offer EXCEPT ![c] = x]
  PROVE  /\ offer' \in [Client -> {None} \cup (ClientSock \X {"reading", "valid", "invalid", "sweeping"})]
         /\ \A k \in Client : offer'[k] # None => offer'[k][1][1] = k
BY HubTypes DEF TypesBut

LEMMA OfferMoves ==
  ASSUME HubTypeOK, NEW c \in Client, NEW v \in {"reading", "valid", "invalid", "sweeping"},
         offer[c] # None, offer' = [offer EXCEPT ![c][2] = v]
  PROVE  /\ offer' \in [Client -> {None} \cup (ClientSock \X {"reading", "valid", "invalid", "sweeping"})]
         /\ \A k \in Client : k # c => offer'[k] = offer[k]
         /\ offer'[c] = <<offer[c][1], v>>
         /\ \A k \in Client : offer'[k] # None => offer'[k][1][1] = k
<1>1. offer \in [Client -> {None} \cup (ClientSock \X {"reading", "valid", "invalid", "sweeping"})]
  BY HubTypes DEF TypesBut
<1>2. /\ \A k \in Client : k # c => offer'[k] = offer[k]
      /\ offer'[c] = <<offer[c][1], v>> /\ offer'[c][1] = offer[c][1]
  BY <1>1
<1>3. offer' \in [Client -> {None} \cup (ClientSock \X {"reading", "valid", "invalid", "sweeping"})]
  BY <1>1
<1>4. QED
  BY <1>2, <1>3, HubTypes DEF TypesBut

(* A new connection of a tab: its socket is one that no other had.          *)
LEMMA ConnectSays ==
  ASSUME HubTypeOK, NEW c \in Client, Connect(c) \/ PongTimeout(c)
  PROVE  /\ HubTypeOK' /\ UNCHANGED <<sock, inbox, offer, session>>
         /\ tab'[c].n = tab[c].n + 1 /\ tab'[c].n > 0
         /\ \A k \in Client : k # c => tab'[k] = tab[k]
<1>0. /\ tab \in [Client -> TabState] /\ tab[c] \in TabState /\ tab[c].n \in 0 .. MaxTab
  BY HubTypes, TabShapes DEF EndTypes
<1>1. /\ tab[c].n < MaxTab /\ UNCHANGED <<sock, inbox>> /\ HubQuiet /\ RpcQuiet /\ DevicesQuiet
  BY DEF Connect, PongTimeout
<1> DEFINE n == tab[c].n + 1
<1>2. n \in 0 .. MaxTab /\ n > 0
  BY <1>0, <1>1, ConnAssumption
<1>3. PICK x \in TabState : x.n = n /\ tab' = [tab EXCEPT ![c] = x]
  <2>1. CASE Connect(c)
    <3> DEFINE x == [tab[c] EXCEPT !.status = "connecting", !.n = n, !.upgrade = TRUE]
    <3>1. x \in TabState /\ x.n = n
      BY <1>0, <1>2 DEF TabState
    <3>2. tab' = [tab EXCEPT ![c] = x]
      BY <1>0, <2>1 DEF Connect
    <3> HIDE DEF x
    <3>3. QED
      BY <3>1, <3>2
  <2>2. CASE PongTimeout(c)
    <3> DEFINE b == (session[c] = "in")
               x == [tab[c] EXCEPT !.status = "connecting", !.sink = FALSE, !.n = n, !.upgrade = b]
    <3>1. b \in BOOLEAN
      OBVIOUS
    <3>2. tab' = [tab EXCEPT ![c] = x]
      BY <1>0, <2>2 DEF PongTimeout
    <3> HIDE DEF b
    <3>3. x \in TabState /\ x.n = n
      BY <1>0, <1>2, <3>1 DEF TabState
    <3> HIDE DEF x
    <3>4. QED
      BY <3>2, <3>3
  <2>3. QED
    BY <2>1, <2>2
<1> HIDE DEF n
<1>4. EndTypes' /\ tab'[c].n = n /\ \A k \in Client : k # c => tab'[k] = tab[k]
  BY <1>0, <1>1, <1>3, HubTypes DEF EndTypes, DevicesQuiet
<1>5. TypesBut' /\ RpcTypes' /\ BoxTypes' /\ UNCHANGED <<offer, session>>
  BY <1>1, Quiets
<1>6. QED
  BY <1>1, <1>2, <1>4, <1>5, HubTypes DEF n

LEMMA AcceptSays ==
  ASSUME HubTypeOK, HasNumber, NEW c \in Client, AcceptClient(c)
  PROVE  /\ HubTypeOK' /\ Plainly /\ UNCHANGED <<offer, session>>
         /\ Here(c) \in ClientSock /\ tab[c].upgrade /\ ~tab'[c].upgrade /\ tab'[c].n = tab[c].n
         /\ tab'[c].status = tab[c].status
         /\ \A k \in Client : k # c => tab'[k] = tab[k]
         /\ sock'[Here(c)].st = "open" /\ \A s \in Sock : s # Here(c) => sock'[s] = sock[s]
<1>0. /\ tab \in [Client -> TabState] /\ tab[c] \in TabState
      /\ sock \in [Sock -> SockState] /\ inbox \in [Sock -> Seq(Sent)]
  BY HubTypes DEF EndTypes, BoxTypes
<1> DEFINE m == [t |-> "presence", online |-> OnlineDevices(sock)]
           x == [tab[c] EXCEPT !.upgrade = FALSE]
           y == [sock[Here(c)] EXCEPT !.st = "open"]
<1>1. /\ tab[c].status = "connecting" /\ tab[c].upgrade
      /\ sock' = [sock EXCEPT ![Here(c)] = y]
      /\ inbox' = [inbox EXCEPT ![Here(c)] = <<m>>]
      /\ tab' = [tab EXCEPT ![c] = x]
      /\ HubQuiet /\ RpcQuiet /\ DevicesQuiet
  BY DEF AcceptClient
<1>2. Here(c) \in ClientSock /\ Here(c) \in Sock
  BY <1>1, TabSocket DEF HasNumber
<1>3. m \in Sent /\ m.t # "signal" /\ <<m>> \in Seq(Sent)
  <2>1. OnlineDevices(sock) \in SUBSET Device
    BY DEF OnlineDevices
  <2>2. m \in Sent
    BY <2>1, Messages
  <2>3. QED
    BY <2>2
<1>4. x \in TabState /\ x.n = tab[c].n /\ x.upgrade = FALSE /\ x.status = tab[c].status
  BY <1>0 DEF TabState
<1>5. y \in SockState /\ y.st = "open"
  BY <1>0, <1>2, SockShapes
<1> HIDE DEF m, x, y
<1>6. BoxTypes' /\ Plainly
  BY <1>0, <1>1, <1>2, <1>3, <1>5 DEF BoxTypes, Plainly, Plain
<1>7. EndTypes'
  BY <1>0, <1>1, <1>4, HubTypes DEF EndTypes, DevicesQuiet
<1>8. QED
  BY <1>0, <1>1, <1>2, <1>4, <1>5, <1>6, <1>7, Quiets, HubTypes

(* An offer's steps, up to its relay.                                       *)
LEMMA OfferSays ==
  ASSUME HubTypeOK, HasNumber, NEW c \in Client, SendOffer(c) \/ ReadSession(c) \/ SessionChecked(c)
  PROVE  /\ HubTypeOK' /\ Plainly /\ Closes /\ SameTabs /\ UNCHANGED session
         /\ \A k \in Client : k # c => offer'[k] = offer[k]
         /\ \/ sock[Here(c)].st = "open" /\ offer'[c] = <<Here(c), "reading">>
            \/ offer[c] # None /\ offer'[c] = <<offer[c][1], IF session[c] = "in" THEN "valid" ELSE "invalid">>
            \/ offer[c] # None /\ offer[c][2] = "valid" /\ offer'[c] = <<offer[c][1], "sweeping">>
            \/ offer'[c] = None
<1>0. /\ tab \in [Client -> TabState] /\ tab[c] \in TabState
      /\ sock \in [Sock -> SockState] /\ inbox \in [Sock -> Seq(Sent)]
      /\ offer \in [Client -> {None} \cup (ClientSock \X {"reading", "valid", "invalid", "sweeping"})]
  BY HubTypes DEF EndTypes, BoxTypes, TypesBut
<1>1. CASE SendOffer(c)
  <2> DEFINE x == [tab[c] EXCEPT !.sink = TRUE]
  <2>1. /\ tab[c].status = "open" /\ sock[Here(c)].st = "open"
        /\ offer' = [offer EXCEPT ![c] = <<Here(c), "reading">>] /\ tab' = [tab EXCEPT ![c] = x]
        /\ UNCHANGED <<sock, inbox, alarm, sweep, accepting, session>> /\ RpcQuiet /\ DevicesQuiet
    BY <1>1 DEF SendOffer
  <2>2. Here(c) \in ClientSock /\ Here(c)[1] = c
    BY <2>1, TabSocket DEF HasNumber
  <2>3. x \in TabState /\ x.n = tab[c].n /\ x.upgrade = tab[c].upgrade /\ x.status = tab[c].status
    BY <1>0 DEF TabState
  <2> HIDE DEF x
  <2>4. EndTypes' /\ SameTabs
    BY <1>0, <2>1, <2>3, HubTypes DEF EndTypes, SameTabs, DevicesQuiet
  <2>5. TypesBut'
    <3>1. <<Here(c), "reading">> \in ClientSock \X {"reading", "valid", "invalid", "sweeping"}
      BY <2>2
    <3>2. QED
      BY <2>1, <2>2, <3>1, OfferKept, HubTypes DEF TypesBut
  <2>6. QED
    BY <1>0, <2>1, <2>4, <2>5, Quiets, HubTypes
<1>2. CASE ReadSession(c)
  <2> DEFINE v == IF session[c] = "in" THEN "valid" ELSE "invalid"
  <2>1. /\ offer[c] # None /\ offer' = [offer EXCEPT ![c][2] = v]
        /\ UNCHANGED <<sock, inbox, alarm, sweep, accepting, session>> /\ RpcQuiet /\ TabsQuiet /\ DevicesQuiet
    BY <1>2 DEF ReadSession
  <2>2. v \in {"reading", "valid", "invalid", "sweeping"}
    OBVIOUS
  <2> HIDE DEF v
  <2>3. TypesBut'
    BY <2>1, <2>2, OfferMoves, HubTypes DEF TypesBut
  <2>4. (\A k \in Client : k # c => offer'[k] = offer[k]) /\ offer'[c] = <<offer[c][1], v>>
    BY <2>1, <2>2, OfferMoves
  <2>5. QED
    BY <2>1, <2>3, <2>4, Quiets, HubTypes DEF v
<1>3. ASSUME SessionChecked(c), offer[c][2] = "valid"
      PROVE  /\ HubTypeOK' /\ Plainly /\ Closes /\ SameTabs /\ UNCHANGED session
             /\ \A k \in Client : k # c => offer'[k] = offer[k]
             /\ offer[c] # None /\ offer'[c] = <<offer[c][1], "sweeping">>
  <2>1. /\ offer[c] # None /\ offer' = [offer EXCEPT ![c][2] = "sweeping"] /\ SweepStarts(c)
        /\ UNCHANGED <<sock, inbox, alarm, accepting, session>> /\ RpcQuiet /\ TabsQuiet /\ DevicesQuiet
    BY <1>3 DEF SessionChecked
  <2>2. (\A k \in Client : k # c => offer'[k] = offer[k]) /\ offer'[c] = <<offer[c][1], "sweeping">>
    BY <2>1, OfferMoves
  <2>4. sweep' \in [Handler -> (SUBSET DeviceSock) \cup {None}]
    BY <2>1, HubTypes DEF SweepStarts, TypesBut
  <2>5. TypesBut'
    BY <2>1, <2>4, OfferMoves, HubTypes DEF TypesBut
  <2>6. QED
    BY <1>0, <2>1, <2>2, <2>5, Quiets, HubTypes
<1>4. ASSUME SessionChecked(c), offer[c][2] # "valid"
      PROVE  /\ HubTypeOK' /\ Plainly /\ Closes /\ SameTabs /\ UNCHANGED session
             /\ \A k \in Client : k # c => offer'[k] = offer[k]
             /\ offer'[c] = None
  <2>1. /\ sock' = Closed(sock, {offer[c][1]}) /\ offer' = [offer EXCEPT ![c] = None] /\ UNCHANGED sweep
        /\ UNCHANGED <<inbox, alarm, accepting, session>> /\ RpcQuiet /\ TabsQuiet /\ DevicesQuiet
    BY <1>4 DEF SessionChecked
  <2>2. BoxTypes' /\ Closes
    BY <1>0, <2>1, ClosedSays, Sockets DEF BoxTypes, Closes
  <2>3. TypesBut'
    BY <2>1, OfferKept, HubTypes DEF TypesBut
  <2>4. QED
    BY <1>0, <2>1, <2>2, <2>3, Quiets, HubTypes
<1>5. QED
  BY <1>1, <1>2, <1>3, <1>4

(* The relay: the offer is owed an answer, or its tab is told that there is *)
(* no device.                                                                *)
LEMMA RelaySays ==
  ASSUME HubTypeOK, NEW c \in Client, NEW d \in Device, Relay(c, d)
  PROVE  /\ HubTypeOK' /\ Closes /\ SameTabs /\ UNCHANGED session
         /\ (\A k \in Client : k # c => offer'[k] = offer[k]) /\ offer'[c] = None
         /\ offer[c] # None /\ offer[c][2] = "sweeping"
         /\ \A q \in Sock : \/ Plain(inbox'[q], inbox[q])
                            \/ /\ q \in DeviceSock
                               /\ inbox'[q] = Append(inbox[q], [t |-> "signal", from |-> offer[c][1]])
<1>0. /\ sock \in [Sock -> SockState] /\ inbox \in [Sock -> Seq(Sent)]
      /\ offer \in [Client -> {None} \cup (ClientSock \X {"reading", "valid", "invalid", "sweeping"})]
  BY HubTypes DEF BoxTypes, TypesBut
<1> DEFINE s == offer[c][1]
           ask == [t |-> "signal", from |-> s]
           off == [t |-> "offline"]
<1>1. /\ offer[c] # None /\ offer[c][2] = "sweeping" /\ offer' = [offer EXCEPT ![c] = None]
      /\ sweep' = [sweep EXCEPT ![c] = None]
      /\ \/ inbox' = SendTo(sock, inbox, {s}, off)
         \/ \E to \in SocketsOf(sock, d) : inbox' = SendTo(sock, inbox, {to}, ask)
      /\ UNCHANGED <<sock, alarm, accepting, session>> /\ RpcQuiet /\ TabsQuiet /\ DevicesQuiet
  BY DEF Relay
<1>2. s \in ClientSock /\ ask \in Sent /\ off \in Sent /\ off.t # "signal"
  BY <1>1, OfferShapes, Messages
<1> HIDE DEF s, off
<1>3. CASE inbox' = SendTo(sock, inbox, {s}, off)
  <2>1. /\ inbox' \in [Sock -> Seq(Sent)]
        /\ \A q \in Sock : inbox'[q] = inbox[q] \/ inbox'[q] = Append(inbox[q], off)
    <3>1. \A q \in Sock : inbox[q] \in Seq(Sent) /\ Append(inbox[q], off) \in Seq(Sent)
      BY <1>0, <1>2
    <3>2. QED
      BY <1>3, <3>1 DEF SendTo
  <2>2. \A q \in Sock : Plain(inbox'[q], inbox[q])
    BY <1>2, <2>1 DEF Plain
  <2>3. QED
    BY <1>0, <1>1, <2>1, <2>2, Quiets, HubTypes, OfferKept DEF TypesBut, BoxTypes
<1>4. ASSUME NEW to \in SocketsOf(sock, d), inbox' = SendTo(sock, inbox, {to}, ask)
      PROVE  /\ HubTypeOK' /\ Closes /\ SameTabs
             /\ \A q \in Sock : \/ Plain(inbox'[q], inbox[q])
                                \/ q \in DeviceSock /\ inbox'[q] = Append(inbox[q], ask)
  <2>1. to \in DeviceSock
    BY Sockets DEF SocketsOf
  <2> HIDE DEF ask
  <2>2. /\ inbox' \in [Sock -> Seq(Sent)]
        /\ \A q \in Sock : inbox'[q] = inbox[q] \/ (q \in {to} /\ inbox'[q] = Append(inbox[q], ask))
    <3>1. \A q \in Sock : inbox[q] \in Seq(Sent) /\ Append(inbox[q], ask) \in Seq(Sent)
      BY <1>0, <1>2
    <3>2. QED
      BY <1>4, <3>1 DEF SendTo
  <2>3. \A q \in Sock : \/ Plain(inbox'[q], inbox[q])
                        \/ q \in DeviceSock /\ inbox'[q] = Append(inbox[q], ask)
    BY <2>1, <2>2 DEF Plain
  <2>4. QED
    BY <1>0, <1>1, <2>2, <2>3, Quiets, HubTypes, OfferKept DEF TypesBut, BoxTypes
<1>5. QED
  BY <1>0, <1>1, <1>3, <1>4 DEF s

(* A daemon's answer reaches the socket that asked, if that is open.        *)
LEMMA AnswerSays ==
  ASSUME HubTypeOK, NEW s \in DeviceSock, NEW from \in ClientSock, AnswerSignal(s, from)
  PROVE  /\ HubTypeOK' /\ Closes /\ SameTabs /\ UNCHANGED <<sock, offer, session>>
         /\ Owed(from)
         /\ \A q \in Sock : \/ Plain(inbox'[q], inbox[q])
                            \/ /\ q = from /\ sock[q].st = "open"
                               /\ inbox'[q] = Append(inbox[q], [t |-> "signal"])
<1> DEFINE box == [inbox EXCEPT ![s] = Tail(inbox[s])]
           sig == [t |-> "signal"]
<1>0. /\ inbox \in [Sock -> Seq(Sent)] /\ sig \in Sent /\ s \in Sock /\ from \in Sock /\ s # from
  BY HubTypes, Messages, Sockets DEF BoxTypes
<1>1. /\ inbox[s] # <<>> /\ Head(inbox[s]) = [t |-> "signal", from |-> from]
      /\ inbox' = SendTo(sock, box, {from}, sig)
      /\ UNCHANGED sock /\ HubQuiet /\ RpcQuiet /\ TabsQuiet /\ DevicesQuiet
  BY DEF AnswerSignal
<1>2. Owed(from)
  <2>1. 1 \in DOMAIN inbox[s] /\ inbox[s][1] = [t |-> "signal", from |-> from]
    BY <1>0, <1>1
  <2>2. QED
    BY <2>1 DEF Owed
<1>3. box \in [Sock -> Seq(Sent)] /\ \A q \in Sock : box[q] = IF q = s THEN Tail(inbox[s]) ELSE inbox[q]
  BY <1>0, <1>1
<1> HIDE DEF box, sig
<1>4. /\ inbox' \in [Sock -> Seq(Sent)]
      /\ \A q \in Sock : \/ inbox'[q] = box[q]
                         \/ q = from /\ sock[q].st = "open" /\ inbox'[q] = Append(box[q], sig)
  <2>1. \A q \in Sock : box[q] \in Seq(Sent) /\ Append(box[q], sig) \in Seq(Sent)
    BY <1>0, <1>3
  <2>2. QED
    BY <1>1, <2>1 DEF SendTo
<1>5. \A q \in Sock : \/ Plain(inbox'[q], inbox[q])
                      \/ q = from /\ sock[q].st = "open" /\ inbox'[q] = Append(inbox[q], sig)
  BY <1>0, <1>1, <1>3, <1>4 DEF Plain
<1>6. QED
  BY <1>1, <1>2, <1>4, <1>5, Quiets, HubTypes DEF BoxTypes, sig

\* What a set's sequence holds is in the set.
LEMMA SequenceOf ==
  ASSUME NEW S, IsFiniteSet(S) PROVE SetToSeq(S) \in Seq(S)
<1>1. Cardinality(S) \in Nat /\ ExistsBijection(1 .. Cardinality(S), S)
  BY FS_CardinalityType
<1>2. PICK f \in [1 .. Cardinality(S) -> S] : IsInjective(f)
  BY <1>1 DEF ExistsBijection, Bijection, Injection
<1>3. SetToSeq(S) \in [1 .. Cardinality(S) -> S]
  BY <1>2 DEF SetToSeq
<1>4. QED
  BY <1>1, <1>3

LEMMA RevokeSays ==
  ASSUME HubTypeOK, NEW c \in Client, RevokeSessions(c)
  PROVE  /\ HubTypeOK' /\ Closes /\ SameTabs /\ UNCHANGED offer
         /\ session[c] = "deleted" /\ \A k \in Client : k # c => session'[k] = session[k]
         /\ \A n \in 1 .. MaxTab : sock'[<<c, n>>].st # "open"
         /\ \A q \in ClientSock : inbox'[q] = inbox[q]
         /\ \A q \in DeviceSock : \A i \in DOMAIN inbox'[q] :
              inbox'[q][i].t = "signal" => \E j \in DOMAIN inbox[q] : inbox'[q][i] = inbox[q][j]
<1> DEFINE conns == {s \in {c} \X (1 .. MaxTab) : sock[s].st = "open"}
           sk == Closed(sock, conns)
           news == {[t |-> "client.revoked", conn |-> k] : k \in conns}
           told == SetToSeq(news)
<1>0. /\ sock \in [Sock -> SockState] /\ inbox \in [Sock -> Seq(Sent)]
      /\ session \in [Client -> {"in", "deleted", "revoked"}]
  BY HubTypes DEF BoxTypes, TypesBut
<1>1. /\ session[c] = "deleted" /\ session' = [session EXCEPT ![c] = "revoked"]
      /\ sock' = sk
      /\ inbox' = [s \in Sock |-> IF IsDevice(s) /\ sk[s].st = "open" THEN inbox[s] \o told ELSE inbox[s]]
      /\ UNCHANGED <<alarm, sweep, accepting, offer>> /\ RpcQuiet /\ TabsQuiet /\ DevicesQuiet
  BY DEF RevokeSessions
<1>2. conns \subseteq ClientSock
  BY Sockets
<1>3. told \in Seq(Sent) /\ \A i \in DOMAIN told : told[i].t = "client.revoked"
  <2>1. IsFiniteSet(conns)
    <3>1. IsFiniteSet({c} \X (1 .. MaxTab))
      <4>1. IsFiniteSet({c})
        BY FS_Singleton
      <4>2. IsFiniteSet(1 .. MaxTab)
        BY FS_Interval, ConnAssumption
      <4>3. QED
        BY <4>1, <4>2, FS_Product
    <3>2. QED
      BY <3>1, FS_Subset
  <2>2. IsFiniteSet(news)
    <3> HIDE DEF conns
    <3> DEFINE f == [k \in conns |-> [t |-> "client.revoked", conn |-> k]]
    <3>1. f \in Surjection(conns, news)
      BY DEF Surjection
    <3>2. QED
      BY <2>1, <3>1, FS_Surjection
  <2>3. told \in Seq(news)
    BY <2>2, SequenceOf
  <2>4. \A m \in news : m \in Sent /\ m.t = "client.revoked"
    <3> TAKE m \in news
    <3>1. PICK k \in conns : m = [t |-> "client.revoked", conn |-> k]
      OBVIOUS
    <3>2. k \in ClientSock
      BY <1>2
    <3> HIDE DEF conns, news
    <3>3. QED
      BY <3>1, <3>2, Messages
  <2> HIDE DEF told, news
  <2>5. QED
    BY <2>3, <2>4
<1>4. sk \in [Sock -> SockState]
      /\ \A s \in Sock : sk[s] = sock[s] \/ (sock[s].st = "open" /\ sk[s].st = "closing")
  BY <1>0, ClosedSays
<1>5. \A n \in 1 .. MaxTab : sk[<<c, n>>].st # "open"
  <2> SUFFICES ASSUME NEW n \in 1 .. MaxTab, sk[<<c, n>>].st = "open" PROVE FALSE
    OBVIOUS
  <2>1. <<c, n>> \in Sock
    BY Sockets
  <2>2. sock[<<c, n>>].st = "open"
    BY <1>4, <2>1
  <2>3. <<c, n>> \in conns
    BY <2>2
  <2>4. QED
    BY <1>0, <2>1, <2>3, ClosedSays
<1> HIDE DEF conns, sk, told
<1>6. BoxTypes'
  <2>1. \A s \in Sock : inbox[s] \in Seq(Sent) /\ inbox[s] \o told \in Seq(Sent)
    BY <1>0, <1>3
  <2>2. QED
    BY <1>1, <1>4, <2>1 DEF BoxTypes
<1>7. Closes /\ \A q \in ClientSock : inbox'[q] = inbox[q]
  BY <1>1, <1>4, Sockets DEF Closes
<1>8. ASSUME NEW q \in DeviceSock, NEW i \in DOMAIN inbox'[q], inbox'[q][i].t = "signal"
      PROVE  \E j \in DOMAIN inbox[q] : inbox'[q][i] = inbox[q][j]
  <2>1. q \in Sock /\ inbox[q] \in Seq(Sent)
    BY <1>0, Sockets
  <2>2. CASE inbox'[q] = inbox[q]
    BY <1>8, <2>2
  <2>3. CASE inbox'[q] = inbox[q] \o told
    <3>1. CASE i \in 1 .. Len(inbox[q])
      BY <2>1, <2>3, <3>1, <1>3
    <3>2. CASE i \notin 1 .. Len(inbox[q])
      <4>1. i - Len(inbox[q]) \in DOMAIN told /\ inbox'[q][i] = told[i - Len(inbox[q])]
        BY <1>3, <2>1, <2>3, <3>2
      <4>2. QED
        BY <1>3, <1>8, <4>1
    <3>3. QED
      BY <3>1, <3>2
  <2>4. QED
    BY <1>1, <2>1, <2>2, <2>3
<1>9. TypesBut' /\ UNCHANGED offer
  BY <1>0, <1>1, HubTypes DEF TypesBut
<1>10. QED
  BY <1>0, <1>1, <1>5, <1>6, <1>7, <1>8, <1>9, Quiets, HubTypes

LEMMA SignOutSays ==
  ASSUME HubTypeOK, NEW c \in Client, SignOut(c)
  PROVE  /\ HubTypeOK' /\ Closes /\ SameTabs /\ Plainly /\ UNCHANGED <<sock, offer>>
         /\ \A k \in Client : session'[k] = "revoked" => session[k] = "revoked"
<1>1. /\ session' = [session EXCEPT ![c] = "deleted"]
      /\ UNCHANGED <<sock, inbox, alarm, sweep, accepting, offer>> /\ RpcQuiet /\ TabsQuiet /\ DevicesQuiet
  BY DEF SignOut
<1>2. TypesBut' /\ \A k \in Client : session'[k] = "revoked" => session[k] = "revoked"
  BY <1>1, HubTypes DEF TypesBut
<1>3. QED
  BY <1>1, <1>2, Quiets, HubTypes

-----------------------------------------------------------------------------
(* Every step keeps the silence.                                              *)

\* SignedOutStaysOut, of one step.
Hush ==
  \A c \in Client, n \in 1 .. MaxTab :
    session[c] = "revoked" => Signals(<<c, n>>)' <= Signals(<<c, n>>)

SignalsAt(q) == {i \in DOMAIN q : q[i].t = "signal"}

LEMMA SignalsFinite ==
  ASSUME NEW q \in Seq(Sent)
  PROVE  IsFiniteSet(SignalsAt(q)) /\ Cardinality(SignalsAt(q)) \in Nat
<1>1. DOMAIN q = 1 .. Len(q) /\ Len(q) \in Nat
  OBVIOUS
<1>2. IsFiniteSet(DOMAIN q)
  BY <1>1, FS_Interval
<1>3. SignalsAt(q) \subseteq DOMAIN q
  BY DEF SignalsAt
<1>4. IsFiniteSet(SignalsAt(q))
  BY <1>2, <1>3, FS_Subset
<1>5. QED
  BY <1>4, FS_CardinalityType

LEMMA PlainBox ==
  ASSUME NEW p \in Seq(Sent), NEW q \in Seq(Sent), Plain(q, p)
  PROVE  /\ \A i \in SignalsAt(q) : \E j \in SignalsAt(p) : q[i] = p[j]
         /\ Cardinality(SignalsAt(q)) <= Cardinality(SignalsAt(p))
<1>0. /\ IsFiniteSet(SignalsAt(p)) /\ Cardinality(SignalsAt(p)) \in Nat
      /\ Cardinality(SignalsAt(q)) \in Nat
  BY SignalsFinite
<1>1. CASE q = p
  BY <1>0, <1>1
<1>2. CASE SignalsAt(q) = {}
  BY <1>0, <1>2, FS_EmptySet
<1>3. CASE p # <<>> /\ q = Tail(p)
  <2>1. \A i \in SignalsAt(q) : i + 1 \in SignalsAt(p) /\ q[i] = p[i + 1] /\ i \in Int
    BY <1>3 DEF SignalsAt
  <2> DEFINE f == [i \in SignalsAt(q) |-> i + 1]
  <2>2. f \in Injection(SignalsAt(q), SignalsAt(p))
    BY <2>1 DEF Injection, IsInjective
  <2> HIDE DEF f
  <2>3. Cardinality(SignalsAt(q)) <= Cardinality(SignalsAt(p))
    BY <1>0, <2>2, FS_Injection
  <2>4. QED
    BY <2>1, <2>3
<1>4. ASSUME NEW m \in Sent, m.t # "signal", q = Append(p, m) \/ q = <<m>>
      PROVE  q = p \/ SignalsAt(q) = {} \/ (SignalsAt(q) = SignalsAt(p) /\ \A i \in SignalsAt(q) : q[i] = p[i])
  BY <1>4, SMTT(20) DEF SignalsAt
<1>5. ASSUME SignalsAt(q) = SignalsAt(p) /\ \A i \in SignalsAt(q) : q[i] = p[i]
      PROVE  /\ \A i \in SignalsAt(q) : \E j \in SignalsAt(p) : q[i] = p[j]
             /\ Cardinality(SignalsAt(q)) <= Cardinality(SignalsAt(p))
  <2>1. Cardinality(SignalsAt(q)) = Cardinality(SignalsAt(p))
    BY <1>5
  <2>2. QED
    BY <1>0, <1>5, <2>1
<1>6. CASE q = <<>>
  BY <1>2, <1>6 DEF SignalsAt
<1>7. QED
  BY <1>1, <1>2, <1>3, <1>4, <1>5, <1>6 DEF Plain

\* A step that sends no signal owes no more, and tells a tab no more.
LEMMA OwedKept ==
  ASSUME HubTypeOK, HubTypeOK', NEW s, \A q \in DeviceSock : Plain(inbox'[q], inbox[q]), Owed(s)'
  PROVE  Owed(s)
<1>0. inbox \in [Sock -> Seq(Sent)] /\ inbox' \in [Sock -> Seq(Sent)]
  BY HubTypes DEF BoxTypes
<1> DEFINE m == [t |-> "signal", from |-> s]
<1>1. PICK q \in DeviceSock : \E i \in DOMAIN inbox'[q] : inbox'[q][i] = m
  BY DEF Owed
<1>2. PICK i \in DOMAIN inbox'[q] : inbox'[q][i] = m
  BY <1>1
<1>3. i \in SignalsAt(inbox'[q]) /\ inbox[q] \in Seq(Sent) /\ inbox'[q] \in Seq(Sent)
  BY <1>0, <1>2, Sockets DEF SignalsAt
<1>4. Plain(inbox'[q], inbox[q])
  OBVIOUS
<1>5. PICK j \in SignalsAt(inbox[q]) : inbox'[q][i] = inbox[q][j]
  BY <1>3, <1>4, PlainBox
<1>6. QED
  BY <1>2, <1>5 DEF SignalsAt, Owed

LEMMA HushKept ==
  ASSUME HubTypeOK, HubTypeOK',
         \A c \in Client, n \in 1 .. MaxTab :
           session[c] = "revoked" => Plain(inbox'[<<c, n>>], inbox[<<c, n>>])
  PROVE  Hush
<1> SUFFICES ASSUME NEW c \in Client, NEW n \in 1 .. MaxTab, session[c] = "revoked"
             PROVE  Signals(<<c, n>>)' <= Signals(<<c, n>>)
  BY DEF Hush
<1> DEFINE s == <<c, n>>
<1>1. inbox[s] \in Seq(Sent) /\ inbox'[s] \in Seq(Sent)
  BY HubTypes, Sockets DEF BoxTypes
<1>2. Plain(inbox'[s], inbox[s])
  OBVIOUS
<1>3. Cardinality(SignalsAt(inbox'[s])) <= Cardinality(SignalsAt(inbox[s]))
  BY <1>1, <1>2, PlainBox
<1>4. QED
  BY <1>3 DEF Signals, SignalsAt

LEMMA NumbersKept ==
  ASSUME HubInv, Closes, SameTabs
  PROVE  HasNumber' /\ UpgradesAreNew'
<1>1. HasNumber'
  BY DEF HubInv, HasNumber, SameTabs
<1>2. UpgradesAreNew'
  <2> SUFFICES ASSUME NEW c \in Client, NEW n \in 1 .. MaxTab,
                      n > tab'[c].n \/ (n = tab'[c].n /\ tab'[c].upgrade)
               PROVE  sock'[<<c, n>>].st = "none"
    BY DEF UpgradesAreNew
  <2>1. sock[<<c, n>>].st = "none"
    BY DEF HubInv, UpgradesAreNew, SameTabs
  <2>2. QED
    BY <2>1, Sockets DEF Closes
<1>3. QED
  BY <1>1, <1>2

\* The two silences, when no socket is accepted, and what is owed and offered comes
\* of what was.
LEMMA SilenceKept ==
  ASSUME HubInv, Closes,
         \A s \in ClientSock : Owed(s)' => Owed(s) \/ OfferOver(s, {"sweeping"}),
         \A c \in Client : session'[c] = "revoked" =>
           session[c] = "revoked" \/ \A n \in 1 .. MaxTab : sock'[<<c, n>>].st # "open",
         \A s \in ClientSock : OfferOver(s, {"reading", "valid", "invalid", "sweeping"})' =>
           OfferOver(s, {"reading", "valid", "invalid", "sweeping"}) \/ sock[s].st = "open",
         \A s \in ClientSock : OfferOver(s, {"valid", "sweeping"})' =>
           OfferOver(s, {"valid", "sweeping"}) \/ session[s[1]] = "in"
  PROVE  NewIsSilent' /\ RevokedIsSilent'
<1>0. \A s \in ClientSock : OfferOver(s, {"sweeping"}) =>
        OfferOver(s, {"reading", "valid", "invalid", "sweeping"}) /\ OfferOver(s, {"valid", "sweeping"})
  BY DEF OfferOver
<1>1. ASSUME NEW s \in ClientSock, sock'[s].st = "none"
      PROVE  ~Owed(s)' /\ ~OfferOver(s, {"reading", "valid", "invalid", "sweeping"})'
  <2>1. sock[s].st = "none"
    BY <1>1 DEF Closes
  <2>2. ~Owed(s) /\ ~OfferOver(s, {"reading", "valid", "invalid", "sweeping"})
    BY <2>1 DEF HubInv, NewIsSilent
  <2>3. QED
    BY <1>0, <2>1, <2>2
<1>2. ASSUME NEW c \in Client, NEW n \in 1 .. MaxTab, session'[c] = "revoked", sock'[<<c, n>>].st = "open"
      PROVE  ~Owed(<<c, n>>)' /\ ~OfferOver(<<c, n>>, {"valid", "sweeping"})'
  <2>1. <<c, n>> \in ClientSock /\ session[c] = "revoked" /\ sock[<<c, n>>].st = "open"
    BY <1>2, Sockets DEF Closes
  <2>2. ~Owed(<<c, n>>) /\ ~OfferOver(<<c, n>>, {"valid", "sweeping"})
    BY <2>1 DEF HubInv, RevokedIsSilent
  <2>3. <<c, n>>[1] = c
    OBVIOUS
  <2>4. QED
    BY <1>0, <2>1, <2>2, <2>3
<1>3. QED
  BY <1>1, <1>2 DEF NewIsSilent, RevokedIsSilent

LEMMA CalmStep ==
  ASSUME HubInv, HubTypeOK', Calm PROVE HubInv' /\ Hush
<1>1. \A s : Owed(s)' => Owed(s)
  BY OwedKept, Sockets DEF Calm, Plainly, HubInv
<1>2. NewIsSilent' /\ RevokedIsSilent'
  BY <1>1, SilenceKept DEF Calm, OfferOver
<1>3. Hush
  BY HushKept, Sockets DEF Calm, Plainly, HubInv
<1>4. QED
  BY <1>2, <1>3, NumbersKept DEF Calm, HubInv

LEMMA ConnectStep ==
  ASSUME HubInv, NEW c \in Client, Connect(c) \/ PongTimeout(c) PROVE HubInv' /\ Hush
<1>0. HubTypeOK /\ HubTypeOK'
  BY ConnectSays DEF HubInv
<1>1. /\ UNCHANGED <<sock, inbox, offer, session>>
      /\ tab'[c].n = tab[c].n + 1 /\ tab'[c].n > 0
      /\ \A k \in Client : k # c => tab'[k] = tab[k]
  BY <1>0, ConnectSays
<1>2. HasNumber'
  BY <1>1 DEF HubInv, HasNumber
<1>3. tab[c].n \in Int
  <2>1. tab[c] \in TabState
    BY <1>0, HubTypes DEF EndTypes
  <2>2. tab[c].n \in 0 .. MaxTab
    BY <2>1, TabShapes
  <2>3. QED
    BY <2>2, ConnAssumption
<1>4. UpgradesAreNew'
  <2> SUFFICES ASSUME NEW k \in Client, NEW n \in 1 .. MaxTab,
                      n > tab'[k].n \/ (n = tab'[k].n /\ tab'[k].upgrade)
               PROVE  sock[<<k, n>>].st = "none"
    BY <1>1 DEF UpgradesAreNew
  <2>1. n > tab[k].n \/ (n = tab[k].n /\ tab[k].upgrade)
    BY <1>1, <1>3
  <2>2. QED
    BY <2>1 DEF HubInv, UpgradesAreNew
<1>5. NewIsSilent' /\ RevokedIsSilent'
  BY <1>1 DEF HubInv, NewIsSilent, RevokedIsSilent, Owed, OfferOver
<1>6. Hush
  BY <1>0, <1>1, HushKept DEF Plain
<1>7. QED
  BY <1>0, <1>2, <1>4, <1>5, <1>6 DEF HubInv

LEMMA AcceptStep ==
  ASSUME HubInv, NEW c \in Client, AcceptClient(c) PROVE HubInv' /\ Hush
<1> DEFINE h == Here(c)
<1>0. HubTypeOK /\ HubTypeOK' /\ HasNumber
  BY AcceptSays DEF HubInv
<1>1. /\ Plainly /\ UNCHANGED <<offer, session>>
      /\ h \in ClientSock /\ tab[c].upgrade /\ ~tab'[c].upgrade /\ tab'[c].n = tab[c].n
      /\ tab'[c].status = tab[c].status
      /\ \A k \in Client : k # c => tab'[k] = tab[k]
      /\ \A s \in Sock : s # h => sock'[s] = sock[s]
      /\ sock'[h].st = "open"
  BY <1>0, AcceptSays
<1>2. h = <<c, tab[c].n>> /\ tab[c].n \in 1 .. MaxTab
  BY <1>1, Sockets DEF Here
<1>3. sock[h].st = "none"
  BY <1>1, <1>2 DEF HubInv, UpgradesAreNew
<1>4. ~Owed(h) /\ ~OfferOver(h, {"reading", "valid", "invalid", "sweeping"})
  BY <1>1, <1>3 DEF HubInv, NewIsSilent
<1>5. ~OfferOver(h, {"valid", "sweeping"})
  BY <1>4 DEF OfferOver
<1>6. \A s : Owed(s)' => Owed(s)
  BY <1>0, <1>1, OwedKept, Sockets DEF Plainly
<1> HIDE DEF h
<1>7. HasNumber'
  BY <1>1 DEF HubInv, HasNumber
<1>8. UpgradesAreNew'
  <2> SUFFICES ASSUME NEW k \in Client, NEW n \in 1 .. MaxTab,
                      n > tab'[k].n \/ (n = tab'[k].n /\ tab'[k].upgrade)
               PROVE  sock'[<<k, n>>].st = "none"
    BY DEF UpgradesAreNew
  <2>1. n > tab[k].n \/ (n = tab[k].n /\ tab[k].upgrade)
    BY <1>1
  <2>2. <<k, n>> # h
    BY <1>1, <1>2
  <2>3. sock[<<k, n>>].st = "none"
    BY <2>1 DEF HubInv, UpgradesAreNew
  <2>4. QED
    BY <1>1, <2>2, <2>3, Sockets
<1>9. NewIsSilent'
  BY <1>1, <1>6, Sockets DEF HubInv, NewIsSilent, OfferOver
<1>10. RevokedIsSilent'
  <2> SUFFICES ASSUME NEW k \in Client, NEW n \in 1 .. MaxTab,
                      session[k] = "revoked", sock'[<<k, n>>].st = "open"
               PROVE  ~Owed(<<k, n>>)' /\ ~OfferOver(<<k, n>>, {"valid", "sweeping"})
    BY <1>1 DEF RevokedIsSilent, OfferOver
  <2>1. CASE <<k, n>> = h
    BY <1>4, <1>5, <1>6, <2>1
  <2>2. CASE <<k, n>> # h
    BY <1>1, <1>6, <2>2, Sockets DEF HubInv, RevokedIsSilent
  <2>3. QED
    BY <2>1, <2>2
<1>11. Hush
  BY <1>0, <1>1, HushKept, Sockets DEF Plainly
<1>12. QED
  BY <1>0, <1>7, <1>8, <1>9, <1>10, <1>11 DEF HubInv

LEMMA OfferStep ==
  ASSUME HubInv, NEW c \in Client, SendOffer(c) \/ ReadSession(c) \/ SessionChecked(c)
  PROVE  HubInv' /\ Hush
<1>0. HubTypeOK /\ HasNumber
  BY DEF HubInv
<1>1. /\ HubTypeOK' /\ Plainly /\ Closes /\ SameTabs /\ UNCHANGED session
      /\ \A k \in Client : k # c => offer'[k] = offer[k]
      /\ \/ sock[Here(c)].st = "open" /\ offer'[c] = <<Here(c), "reading">>
         \/ offer[c] # None /\ offer'[c] = <<offer[c][1], IF session[c] = "in" THEN "valid" ELSE "invalid">>
         \/ offer[c] # None /\ offer[c][2] = "valid" /\ offer'[c] = <<offer[c][1], "sweeping">>
         \/ offer'[c] = None
  BY <1>0, OfferSays
<1>2. \A s : Owed(s)' => Owed(s)
  BY <1>0, <1>1, OwedKept, Sockets DEF Plainly
<1>3. ASSUME NEW s \in ClientSock, OfferOver(s, {"reading", "valid", "invalid", "sweeping"})'
      PROVE  OfferOver(s, {"reading", "valid", "invalid", "sweeping"}) \/ sock[s].st = "open"
  <2>1. CASE s[1] # c
    BY <1>1, <1>3, <2>1, Sockets DEF OfferOver
  <2>2. CASE s[1] = c
    BY <1>0, <1>1, <1>3, <2>2, OfferShapes DEF OfferOver
  <2>3. QED
    BY <2>1, <2>2
<1>4. ASSUME NEW s \in ClientSock, OfferOver(s, {"valid", "sweeping"})'
      PROVE  OfferOver(s, {"valid", "sweeping"}) \/ session[s[1]] = "in"
  <2>1. CASE s[1] # c
    BY <1>1, <1>4, <2>1, Sockets DEF OfferOver
  <2>2. CASE s[1] = c
    BY <1>0, <1>1, <1>4, <2>2, OfferShapes DEF OfferOver
  <2>3. QED
    BY <2>1, <2>2
<1>5. NewIsSilent' /\ RevokedIsSilent'
  BY <1>1, <1>2, <1>3, <1>4, SilenceKept
<1>6. Hush
  BY <1>0, <1>1, HushKept, Sockets DEF Plainly
<1>7. QED
  BY <1>1, <1>5, <1>6, NumbersKept DEF HubInv

LEMMA RelayStep ==
  ASSUME HubInv, NEW c \in Client, NEW d \in Device, Relay(c, d) PROVE HubInv' /\ Hush
<1> DEFINE ask == [t |-> "signal", from |-> offer[c][1]]
<1>0. HubTypeOK
  BY DEF HubInv
<1>1. /\ HubTypeOK' /\ Closes /\ SameTabs /\ UNCHANGED session
      /\ (\A k \in Client : k # c => offer'[k] = offer[k]) /\ offer'[c] = None
      /\ offer[c] # None /\ offer[c][2] = "sweeping"
      /\ \A q \in Sock : \/ Plain(inbox'[q], inbox[q])
                         \/ q \in DeviceSock /\ inbox'[q] = Append(inbox[q], ask)
  BY <1>0, RelaySays
<1>2. inbox \in [Sock -> Seq(Sent)] /\ inbox' \in [Sock -> Seq(Sent)]
  BY <1>0, <1>1, HubTypes DEF BoxTypes
<1>3. offer[c][1] \in ClientSock /\ offer[c][1][1] = c
  BY <1>0, <1>1, OfferShapes
<1>4. OfferOver(offer[c][1], {"sweeping"})
  BY <1>1, <1>3 DEF OfferOver
<1>5. ASSUME NEW s \in ClientSock, Owed(s)' PROVE Owed(s) \/ OfferOver(s, {"sweeping"})
  <2> DEFINE m == [t |-> "signal", from |-> s]
  <2>1. PICK q \in DeviceSock : \E i \in DOMAIN inbox'[q] : inbox'[q][i] = m
    BY <1>5 DEF Owed
  <2>2. PICK i \in DOMAIN inbox'[q] : inbox'[q][i] = m
    BY <2>1
  <2>3. i \in SignalsAt(inbox'[q]) /\ inbox[q] \in Seq(Sent) /\ inbox'[q] \in Seq(Sent) /\ q \in Sock
    BY <1>2, <2>2, Sockets DEF SignalsAt
  <2>4. CASE Plain(inbox'[q], inbox[q])
    <3>1. PICK j \in SignalsAt(inbox[q]) : inbox'[q][i] = inbox[q][j]
      BY <2>3, <2>4, PlainBox
    <3>2. QED
      BY <2>2, <3>1 DEF SignalsAt, Owed
  <2>5. CASE inbox'[q] = Append(inbox[q], ask)
    <3>1. CASE i \in DOMAIN inbox[q]
      BY <2>2, <2>3, <2>5, <3>1 DEF Owed
    <3>2. CASE i \notin DOMAIN inbox[q]
      <4>1. m = ask
        BY <2>2, <2>3, <2>5, <3>2
      <4>2. s = offer[c][1]
        <5>1. m.from = ask.from
          BY <4>1
        <5>2. QED
          BY <5>1
      <4>3. QED
        BY <1>4, <4>2
    <3>3. QED
      BY <3>1, <3>2
  <2>6. QED
    BY <1>1, <2>3, <2>4, <2>5
<1>6. \A s \in ClientSock : OfferOver(s, {"reading", "valid", "invalid", "sweeping"})' =>
        OfferOver(s, {"reading", "valid", "invalid", "sweeping"})
  BY <1>1, Sockets DEF OfferOver
<1>7. \A s \in ClientSock : OfferOver(s, {"valid", "sweeping"})' => OfferOver(s, {"valid", "sweeping"})
  BY <1>1, Sockets DEF OfferOver
<1>8. NewIsSilent' /\ RevokedIsSilent'
  BY <1>1, <1>5, <1>6, <1>7, SilenceKept
<1>9. Hush
  <2>1. \A k \in Client, n \in 1 .. MaxTab : Plain(inbox'[<<k, n>>], inbox[<<k, n>>])
    BY <1>1, Sockets
  <2>2. QED
    BY <1>0, <1>1, <2>1, HushKept
<1>10. QED
  BY <1>1, <1>8, <1>9, NumbersKept DEF HubInv

LEMMA AnswerStep ==
  ASSUME HubInv, NEW s \in DeviceSock, NEW from \in ClientSock, AnswerSignal(s, from)
  PROVE  HubInv' /\ Hush
<1>0. HubTypeOK
  BY DEF HubInv
<1>1. /\ HubTypeOK' /\ Closes /\ SameTabs /\ UNCHANGED <<sock, offer, session>> /\ Owed(from)
      /\ \A q \in Sock : \/ Plain(inbox'[q], inbox[q])
                         \/ q = from /\ sock[q].st = "open"
  BY <1>0, AnswerSays
<1>2. \A q : Owed(q)' => Owed(q)
  <2>1. \A q \in DeviceSock : Plain(inbox'[q], inbox[q])
    BY <1>1, Sockets
  <2>2. QED
    BY <1>0, <1>1, <2>1, OwedKept
<1>3. NewIsSilent' /\ RevokedIsSilent'
  BY <1>1, <1>2, SilenceKept DEF OfferOver
<1>4. \A c \in Client, n \in 1 .. MaxTab :
        session[c] = "revoked" => Plain(inbox'[<<c, n>>], inbox[<<c, n>>])
  BY <1>1, Sockets DEF HubInv, RevokedIsSilent
<1>5. QED
  BY <1>0, <1>1, <1>3, <1>4, HushKept, NumbersKept DEF HubInv

LEMMA SignOutStep ==
  ASSUME HubInv, NEW c \in Client, SignOut(c) PROVE HubInv' /\ Hush
<1>0. HubTypeOK
  BY DEF HubInv
<1>1. /\ HubTypeOK' /\ Closes /\ SameTabs /\ Plainly /\ UNCHANGED <<sock, offer>>
      /\ \A k \in Client : session'[k] = "revoked" => session[k] = "revoked"
  BY <1>0, SignOutSays
<1>2. \A s : Owed(s)' => Owed(s)
  BY <1>0, <1>1, OwedKept, Sockets DEF Plainly
<1>3. NewIsSilent' /\ RevokedIsSilent'
  BY <1>1, <1>2, SilenceKept DEF OfferOver
<1>4. Hush
  BY <1>0, <1>1, HushKept, Sockets DEF Plainly
<1>5. QED
  BY <1>1, <1>3, <1>4, NumbersKept DEF HubInv

LEMMA RevokeStep ==
  ASSUME HubInv, NEW c \in Client, RevokeSessions(c) PROVE HubInv' /\ Hush
<1>0. HubTypeOK
  BY DEF HubInv
<1>1. /\ HubTypeOK' /\ Closes /\ SameTabs /\ UNCHANGED offer
      /\ \A k \in Client : k # c => session'[k] = session[k]
      /\ \A n \in 1 .. MaxTab : sock'[<<c, n>>].st # "open"
      /\ \A q \in ClientSock : inbox'[q] = inbox[q]
      /\ \A q \in DeviceSock : \A i \in DOMAIN inbox'[q] :
           inbox'[q][i].t = "signal" => \E j \in DOMAIN inbox[q] : inbox'[q][i] = inbox[q][j]
  BY <1>0, RevokeSays
<1>2. \A s \in ClientSock : Owed(s)' => Owed(s)
  <2> SUFFICES ASSUME NEW s \in ClientSock, Owed(s)' PROVE Owed(s)
    OBVIOUS
  <2>1. PICK q \in DeviceSock : \E i \in DOMAIN inbox'[q] : inbox'[q][i] = [t |-> "signal", from |-> s]
    BY DEF Owed
  <2>2. PICK i \in DOMAIN inbox'[q] : inbox'[q][i] = [t |-> "signal", from |-> s]
    BY <2>1
  <2>3. inbox'[q][i].t = "signal"
    BY <2>2
  <2>4. PICK j \in DOMAIN inbox[q] : inbox'[q][i] = inbox[q][j]
    BY <1>1, <2>3
  <2>5. QED
    BY <2>2, <2>4 DEF Owed
<1>3. NewIsSilent' /\ RevokedIsSilent'
  BY <1>1, <1>2, SilenceKept DEF OfferOver
<1>4. \A k \in Client, n \in 1 .. MaxTab : Plain(inbox'[<<k, n>>], inbox[<<k, n>>])
  BY <1>1, Sockets DEF Plain
<1>5. QED
  BY <1>0, <1>1, <1>3, <1>4, HushKept, NumbersKept DEF HubInv

LEMMA HubStep ==
  ASSUME HubInv, [HubNext]_hubVars PROVE HubInv' /\ Hush
<1>0. HubTypeOK /\ HasNumber
  BY DEF HubInv
<1>1. CASE DeviceStep
  BY <1>0, <1>1, DeviceCalm, CalmStep
<1>2. CASE SweepStep
  BY <1>0, <1>2, SweepCalm, CalmStep
<1>3. ASSUME NEW c \in Client, TabStep(c) PROVE HubInv' /\ Hush
  <2>1. CASE Connect(c) \/ PongTimeout(c)
    BY <2>1, ConnectStep
  <2>2. CASE AcceptClient(c)
    BY <2>2, AcceptStep
  <2>3. CASE Opened(c) \/ Handle(c) \/ \E th \in Thread \cup {None} : SetThread(c, th)
    BY <1>0, <2>3, TabStepCalm, CalmStep
  <2>4. QED
    BY <1>3, <2>1, <2>2, <2>3 DEF TabStep
<1>4. ASSUME NEW c \in Dialer, DialerStep(c) PROVE HubInv' /\ Hush
  <2>0. c \in Client
    BY ConnAssumption
  <2>1. CASE SendOffer(c) \/ ReadSession(c) \/ SessionChecked(c)
    BY <2>0, <2>1, OfferStep
  <2>2. CASE \E d \in Device : Relay(c, d)
    BY <2>0, <2>2, RelayStep
  <2>3. CASE SignOut(c)
    BY <2>0, <2>3, SignOutStep
  <2>4. CASE RevokeSessions(c)
    BY <2>0, <2>4, RevokeStep
  <2>5. CASE Unauthorized(c)
    BY <1>0, <2>0, <2>5, TabStepCalm, CalmStep
  <2>6. ASSUME NEW s \in DeviceSock, NEW n \in 1 .. MaxTab,
               AnswerSignal(s, <<c, n>>) \/ ReadRevoked(s, <<c, n>>)
        PROVE  HubInv' /\ Hush
    <3>1. <<c, n>> \in ClientSock
      BY <2>0, Sockets
    <3>2. CASE AnswerSignal(s, <<c, n>>)
      BY <3>1, <3>2, AnswerStep
    <3>3. CASE ReadRevoked(s, <<c, n>>)
      BY <1>0, <3>3, RevokedReadCalm, CalmStep
    <3>4. QED
      BY <2>6, <3>2, <3>3
  <2>7. QED
    BY <1>4, <2>1, <2>2, <2>3, <2>4, <2>5, <2>6 DEF DialerStep
<1>5. CASE UNCHANGED hubVars
  <2>1. HubTypeOK' /\ Calm
    BY <1>0, <1>5 DEF hubVars, HubTypeOK, Calm, Closes, SameTabs, Plainly, Plain
  <2>2. QED
    BY <2>1, CalmStep
<1>6. QED
  BY <1>1, <1>2, <1>3, <1>4, <1>5 DEF HubNext

LEMMA HubStart == ASSUME HubInit PROVE HubInv
<1>1. /\ [st |-> "none", silent |-> FALSE, rpc |-> FALSE, viewing |-> None] \in SockState
      /\ [n |-> 0, status |-> "idle", upgrade |-> FALSE, online |-> {},
          shown |-> None, sent |-> None, sink |-> FALSE] \in TabState
      /\ 0 \in 0 .. MaxConn /\ 0 \in 0 .. MaxNap /\ <<>> \in Seq(Sent)
  BY ConnAssumption DEF SockState, TabState
<1>2. BoxTypes /\ EndTypes
  BY <1>1 DEF HubInit, BoxTypes, EndTypes
<1>3. TypesBut /\ RpcTypes
  BY DEF HubInit, TypesBut, RpcTypes, Outcome
<1>4. \A s \in ClientSock : ~Owed(s) /\ \A S : ~OfferOver(s, S)
  BY Sockets DEF HubInit, Owed, OfferOver
<1>5. HasNumber
  BY DEF HubInit, HasNumber
<1>6. UpgradesAreNew
  BY Sockets DEF HubInit, UpgradesAreNew
<1>7. QED
  BY <1>2, <1>3, <1>4, <1>5, <1>6, HubTypes, Sockets DEF HubInv, NewIsSilent, RevokedIsSilent

(* What is owed to a tab, by offers whose session was read and by daemons   *)
(* yet to answer, is owed over sockets that are closed once its session is  *)
(* revoked; and a socket accepted later is owed nothing.                    *)
THEOREM HubInvariant == HubSpec => []HubInv
<1>1. HubInit => HubInv
  BY HubStart
<1>2. HubInv /\ [HubNext]_hubVars => HubInv'
  BY HubStep
<1>3. QED
  BY <1>1, <1>2, PTL DEF HubSpec

(* A tab whose sessions were revoked is sent no answer of a daemon, whatever *)
(* had been read, offered or sent before.                                    *)
THEOREM HubSignedOutStaysOut == HubSpec => SignedOutStaysOut
<1>1. HubInv /\ [HubNext]_hubVars => [Hush]_hubVars
  BY HubStep
<1>2. HubInv /\ [HubNext]_hubVars =>
        [\A c \in Client, n \in 1 .. MaxTab :
           session[c] = "revoked" => Signals(<<c, n>>)' <= Signals(<<c, n>>)]_hubVars
  BY <1>1 DEF Hush
<1>3. QED
  BY <1>2, HubInvariant, PTL DEF HubSpec, SignedOutStaysOut

-----------------------------------------------------------------------------
(* The hub knows which thread a connected tab shows.                          *)

\* A socket starts out viewing nothing; what an open tab shows it has reported.
NewViewsNothing ==
  /\ \A s \in ClientSock : sock[s].st = "none" => sock[s].viewing = None
  /\ \A c \in Client :
       tab[c].status = "connecting" /\ sock[Here(c)].st = "open" => sock[Here(c)].viewing = None
Reported ==
  \A c \in Client : tab[c].status = "open" =>
    /\ tab[c].sent = tab[c].shown
    /\ sock[Here(c)].st = "open" => sock[Here(c)].viewing = tab[c].shown
ViewInv == HubInv /\ NewViewsNothing /\ Reported

\* A step that accepts no socket, connects no tab and shows no thread.
Wanes == \A s \in ClientSock : sock'[s] = sock[s] \/ sock'[s].st \in {"closing", "gone"}
Shows(x, y) ==
  /\ y.n = x.n /\ y.shown = x.shown /\ y.sent = x.sent
  /\ y.status = x.status \/ y.status \notin {"connecting", "open"}
Unseen == Wanes /\ \A c \in Client : Shows(tab[c], tab'[c])

LEMMA ClosedWanes ==
  ASSUME NEW S, sock' = Closed(sock, S), HubTypeOK PROVE Wanes
<1>1. /\ sock \in [Sock -> SockState]
      /\ \A s \in Sock : sock'[s] = sock[s] \/ (sock[s].st = "open" /\ sock'[s].st = "closing")
  BY ClosedSays, HubTypes DEF BoxTypes
<1>2. QED
  BY <1>1, Sockets DEF Wanes

LEMMA UnseenKept ==
  ASSUME ViewInv, HubInv', Unseen PROVE ViewInv'
<1>0. \A c \in Client : tab[c].status \in {"connecting", "open"} => Here(c) \in ClientSock
  BY TabSocket DEF ViewInv, HubInv, HasNumber
<1>1. NewViewsNothing'
  <2>1. \A s \in ClientSock : sock'[s].st = "none" => sock'[s].viewing = None
    BY DEF ViewInv, NewViewsNothing, Unseen, Wanes
  <2>2. ASSUME NEW c \in Client, tab'[c].status = "connecting", sock'[Here(c)'].st = "open"
        PROVE  sock'[Here(c)'].viewing = None
    <3>1. tab[c].status = "connecting" /\ Here(c)' = Here(c)
      BY <2>2 DEF Unseen, Shows, Here
    <3>2. sock'[Here(c)] = sock[Here(c)]
      BY <1>0, <2>2, <3>1 DEF Unseen, Wanes
    <3>3. QED
      BY <2>2, <3>1, <3>2 DEF ViewInv, NewViewsNothing
  <2>3. QED
    BY <2>1, <2>2 DEF NewViewsNothing
<1>2. Reported'
  <2>1. ASSUME NEW c \in Client, tab'[c].status = "open"
        PROVE  /\ tab'[c].sent = tab'[c].shown
               /\ sock'[Here(c)'].st = "open" => sock'[Here(c)'].viewing = tab'[c].shown
    <3>1. tab[c].status = "open" /\ Here(c)' = Here(c) /\ tab'[c].shown = tab[c].shown /\ tab'[c].sent = tab[c].sent
      BY <2>1 DEF Unseen, Shows, Here
    <3>2. sock'[Here(c)].st = "open" => sock'[Here(c)] = sock[Here(c)]
      BY <1>0, <3>1 DEF Unseen, Wanes
    <3>3. QED
      BY <3>1, <3>2 DEF ViewInv, Reported
  <2>2. QED
    BY <2>1 DEF Reported
<1>3. QED
  BY <1>1, <1>2 DEF ViewInv

LEMMA GoneUnseen ==
  ASSUME HubTypeOK, NEW s \in Sock, SocketGone(s) PROVE Unseen
<1> DEFINE dead == [st |-> "gone", silent |-> FALSE, rpc |-> FALSE, viewing |-> None]
<1>1. /\ sock' = [sock EXCEPT ![s] = dead]
      /\ tab' = IF ~IsDevice(s) /\ tab[s[1]].n = s[2] /\ tab[s[1]].status \in {"connecting", "open"}
                THEN [tab EXCEPT ![s[1]].status = "closed", ![s[1]].sink = FALSE]
                ELSE tab
  BY DEF SocketGone
<1>2. Wanes
  BY <1>1, HubTypes, Sockets DEF Wanes, BoxTypes
<1>3. CASE tab' = tab
  BY <1>2, <1>3 DEF Unseen, Shows
<1>4. CASE ~IsDevice(s) /\ tab' = [tab EXCEPT ![s[1]].status = "closed", ![s[1]].sink = FALSE]
  <2> DEFINE c == s[1]
             y == [tab[c] EXCEPT !.status = "closed", !.sink = FALSE]
  <2>1. c \in Client /\ tab[c] \in TabState /\ tab \in [Client -> TabState]
    BY <1>4, Sockets, HubTypes DEF Sock, EndTypes
  <2>2. Shows(tab[c], y)
    BY <2>1 DEF TabState, Shows
  <2>3. tab' = [tab EXCEPT ![c] = y]
    BY <1>4, <2>1
  <2> HIDE DEF y, c
  <2>4. QED
    BY <1>2, <2>1, <2>2, <2>3 DEF Unseen, Shows
<1>5. QED
  BY <1>1, <1>3, <1>4

LEMMA DeviceUnseen ==
  ASSUME HubTypeOK, DeviceStep \/ SweepStep PROVE Unseen
<1>0. TabsQuiet => \A c \in Client : Shows(tab[c], tab'[c])
  BY DEF TabsQuiet, Shows
<1>1. ASSUME NEW d \in Device, AcceptDevice(d) PROVE Unseen
  <2> DEFINE used == {n \in 1 .. MaxConn : sock[<<d, n>>].st # "none"}
             s == <<d, Cardinality(used) + 1>>
             old == {<<d, n>> : n \in used}
             shut == Closed(sock, old)
  <2>1. sock' = [shut EXCEPT ![s].st = "open"] /\ TabsQuiet
    BY <1>1 DEF AcceptDevice
  <2>2. s \notin ClientSock /\ \A q \in old : q \notin ClientSock
    <3>1. d \notin Client
      BY KindAssumption
    <3>2. \A n : <<d, n>> \notin ClientSock
      BY <3>1 DEF ClientSock
    <3>3. QED
      BY <3>2
  <2> HIDE DEF s, old
  <2>3. \A q \in ClientSock : sock'[q] = sock[q]
    BY <2>1, <2>2, Sockets DEF Closed
  <2>4. QED
    BY <1>0, <2>1, <2>3 DEF Unseen, Wanes
<1>2. ASSUME NEW d \in Device, DaemonDrops(d) \/ RevokeDevice(d) PROVE Unseen
  <2>1. TabsQuiet /\ (UNCHANGED sock \/ sock' = Closed(sock, {d} \X (1 .. MaxConn)))
    BY <1>2 DEF DaemonDrops, RevokeDevice
  <2>2. QED
    BY <1>0, <2>1, ClosedWanes DEF Unseen, Wanes
<1>3. ASSUME NEW s \in DeviceSock, Accepted(s) \/ Hello(s) \/ Nap(s) \/ Pings(s) PROVE Unseen
  <2>1. TabsQuiet /\ \/ UNCHANGED sock
                     \/ sock' = Closed(sock, {s})
                     \/ sock' = [sock EXCEPT ![s].rpc = TRUE]
                     \/ sock' = [sock EXCEPT ![s].silent = TRUE]
                     \/ sock' = [sock EXCEPT ![s].silent = ~@]
    BY <1>3 DEF Accepted, Hello, Nap, Pings
  <2>2. s \notin ClientSock
    BY Sockets
  <2>3. sock' = Closed(sock, {s}) \/ \A q \in ClientSock : sock'[q] = sock[q]
    BY <2>1, <2>2, HubTypes, Sockets DEF BoxTypes
  <2>4. QED
    BY <1>0, <2>1, <2>3, ClosedWanes DEF Unseen, Wanes
<1>4. ASSUME NEW r \in Rpc, RpcTimeout(r) \/ (\E d \in Device : DeviceRpc(r, d)) \/ (\E s \in DeviceSock : AnswerRpc(s, r))
      PROVE  Unseen
  BY <1>0, <1>4 DEF RpcTimeout, DeviceRpc, AnswerRpc, Unseen, Wanes
<1>5. CASE Alarm \/ AlarmEnds
  BY <1>0, <1>5 DEF Alarm, AlarmEnds, Unseen, Wanes
<1>6. ASSUME NEW h \in Handler, NEW s \in DeviceSock, SweepCloses(h, s) PROVE Unseen
  <2>1. sock' = Closed(sock, {s}) /\ TabsQuiet
    BY <1>6 DEF SweepCloses
  <2>2. QED
    BY <1>0, <2>1, ClosedWanes DEF Unseen
<1>7. QED
  BY <1>1, <1>2, <1>3, <1>4, <1>5, <1>6, GoneUnseen DEF DeviceStep, SweepStep

LEMMA DialerUnseen ==
  ASSUME HubTypeOK, NEW c \in Client,
         \/ SendOffer(c) \/ ReadSession(c) \/ SessionChecked(c) \/ \E d \in Device : Relay(c, d)
         \/ SignOut(c) \/ RevokeSessions(c) \/ Unauthorized(c) \/ Handle(c)
         \/ \E s \in DeviceSock, n \in 1 .. MaxTab : AnswerSignal(s, <<c, n>>) \/ ReadRevoked(s, <<c, n>>)
  PROVE  Unseen
<1>0. /\ TabsQuiet => \A k \in Client : Shows(tab[k], tab'[k])
      /\ UNCHANGED sock => Wanes
      /\ tab \in [Client -> TabState] /\ tab[c] \in TabState
  BY HubTypes DEF TabsQuiet, Shows, Wanes, EndTypes
<1>1. ASSUME NEW y, Shows(tab[c], y), tab' = [tab EXCEPT ![c] = y]
      PROVE  \A k \in Client : Shows(tab[k], tab'[k])
  BY <1>0, <1>1 DEF Shows
<1>2. CASE SendOffer(c)
  <2>1. Shows(tab[c], [tab[c] EXCEPT !.sink = TRUE])
    BY <1>0 DEF TabState, Shows
  <2>2. tab' = [tab EXCEPT ![c] = [tab[c] EXCEPT !.sink = TRUE]] /\ UNCHANGED sock
    BY <1>0, <1>2 DEF SendOffer
  <2>3. QED
    BY <1>0, <1>1, <2>1, <2>2 DEF Unseen
<1>3. CASE Unauthorized(c)
  <2> DEFINE y == [tab[c] EXCEPT !.status = "idle", !.online = {}, !.sink = FALSE]
  <2>1. Shows(tab[c], y)
    BY <1>0 DEF TabState, Shows
  <2>2. tab' = [tab EXCEPT ![c] = y] /\ UNCHANGED sock
    BY <1>0, <1>3 DEF Unauthorized
  <2>3. QED
    BY <1>0, <1>1, <2>1, <2>2 DEF Unseen
<1>4. CASE Handle(c)
  <2> DEFINE m == Head(inbox[Here(c)])
             y == CASE m.t = "presence" -> [tab[c] EXCEPT !.online = m.online]
                    [] m.t = "presence.update" ->
                         [tab[c] EXCEPT !.online = IF m.online THEN tab[c].online \cup {m.device}
                                                               ELSE tab[c].online \ {m.device}]
                    [] OTHER -> [tab[c] EXCEPT !.sink = FALSE]
  <2>1. tab' = [tab EXCEPT ![c] = y] /\ UNCHANGED sock
    BY <1>4 DEF Handle
  <2>2. Shows(tab[c], y)
    <3>1. CASE m.t = "presence"
      BY <1>0, <3>1 DEF TabState, Shows
    <3>2. CASE m.t = "presence.update"
      BY <1>0, <3>2 DEF TabState, Shows
    <3>3. CASE m.t # "presence" /\ m.t # "presence.update"
      BY <1>0, <3>3 DEF TabState, Shows
    <3>4. QED
      BY <3>1, <3>2, <3>3
  <2> HIDE DEF m, y
  <2>3. QED
    BY <1>0, <1>1, <2>1, <2>2 DEF Unseen
<1>5. CASE SessionChecked(c) \/ RevokeSessions(c)
  <2>1. TabsQuiet /\ (UNCHANGED sock \/ \E S : sock' = Closed(sock, S))
    BY <1>5 DEF SessionChecked, RevokeSessions
  <2>2. QED
    BY <1>0, <2>1, ClosedWanes DEF Unseen
<1>6. CASE ReadSession(c) \/ SignOut(c) \/ \E d \in Device : Relay(c, d)
  BY <1>0, <1>6 DEF ReadSession, SignOut, Relay, Unseen
<1>7. ASSUME NEW s \in DeviceSock, NEW n \in 1 .. MaxTab, AnswerSignal(s, <<c, n>>) \/ ReadRevoked(s, <<c, n>>)
      PROVE  Unseen
  BY <1>0, <1>7 DEF AnswerSignal, ReadRevoked, Unseen
<1>8. QED
  BY <1>2, <1>3, <1>4, <1>5, <1>6, <1>7

\* A tab's own socket opens, and it tells what it shows.
LEMMA SyncReports ==
  ASSUME HubTypeOK, NEW c \in Client, NEW x \in TabState, NEW s \in ClientSock, s[1] = c, s = <<c, x.n>>,
         x.n = tab[c].n, SyncViewing(x, s),
         x.status = "open" /\ sock[s].st = "open" => sock[s].viewing = x.sent
  PROVE  /\ tab'[c].n = x.n /\ tab'[c].status = x.status
         /\ x.status = "open" => /\ tab'[c].sent = tab'[c].shown
                                 /\ sock'[s].st = "open" => sock'[s].viewing = tab'[c].shown
         /\ sock'[s].st = sock[s].st /\ (x.status # "open" \/ sock[s].st # "open" => sock'[s] = sock[s])
         /\ \A k \in Client : k # c => tab'[k] = tab[k]
         /\ \A q \in ClientSock : q # s => sock'[q] = sock[q]
<1>0. /\ tab \in [Client -> TabState] /\ sock \in [Sock -> SockState] /\ s \in Sock /\ sock[s] \in SockState
      /\ \A q \in ClientSock : q \in Sock
  BY HubTypes, Sockets DEF EndTypes, BoxTypes
<1>1. CASE x.status = "open" /\ x.shown # x.sent
  <2> DEFINE y == [x EXCEPT !.sent = x.shown]
             th == IF sock[s].st = "open" THEN x.shown ELSE sock[s].viewing
             k == [sock[s] EXCEPT !.viewing = th]
  <2>1. tab' = [tab EXCEPT ![c] = y] /\ sock' = [sock EXCEPT ![s] = k]
    BY <1>1 DEF SyncViewing
  <2>2. y.n = x.n /\ y.status = x.status /\ y.sent = x.shown /\ y.shown = x.shown
    BY DEF TabState
  <2>3. /\ k.st = sock[s].st /\ (sock[s].st = "open" => k.viewing = x.shown)
        /\ sock[s].st # "open" => k = sock[s]
    BY <1>0 DEF SockState
  <2> HIDE DEF y, k
  <2>4. QED
    BY <1>0, <1>1, <2>1, <2>2, <2>3
<1>2. CASE ~(x.status = "open" /\ x.shown # x.sent)
  <2>1. tab' = [tab EXCEPT ![c] = x] /\ sock' = sock
    BY <1>2 DEF SyncViewing
  <2>2. QED
    BY <1>0, <1>2, <2>1
<1>3. QED
  BY <1>1, <1>2

LEMMA SyncKeeps ==
  ASSUME ViewInv, HubInv', NEW c \in Client, Opened(c) \/ \E th \in Thread \cup {None} : SetThread(c, th)
  PROVE  ViewInv'
<1> DEFINE s == Here(c)
<1>0. HubTypeOK /\ tab \in [Client -> TabState] /\ tab[c] \in TabState
  BY HubTypes DEF ViewInv, HubInv, EndTypes
<1>1. tab[c].n > 0
  BY DEF Opened, SetThread, ViewInv, HubInv, HasNumber
<1>2. s \in ClientSock /\ s[1] = c /\ s = <<c, tab[c].n>>
  BY <1>0, <1>1, TabSocket
<1>3. PICK x \in TabState :
        /\ x.n = tab[c].n /\ SyncViewing(x, s)
        /\ x.status = "open" /\ sock[s].st = "open" => sock[s].viewing = x.sent
        /\ x.status \in {"open", tab[c].status}
  <2>1. CASE Opened(c)
    <3> DEFINE x == [tab[c] EXCEPT !.status = "open", !.sent = None]
    <3>1. x \in TabState /\ x.n = tab[c].n /\ x.sent = None /\ x.status = "open"
      BY <1>0 DEF TabState
    <3>2. SyncViewing(x, s) /\ tab[c].status = "connecting"
      BY <2>1 DEF Opened
    <3>3. sock[s].st = "open" => sock[s].viewing = None
      BY <3>2 DEF ViewInv, NewViewsNothing
    <3> HIDE DEF x, s
    <3>4. QED
      BY <3>1, <3>2, <3>3
  <2>2. ASSUME NEW th \in Thread \cup {None}, SetThread(c, th)
        PROVE  \E x \in TabState :
                 /\ x.n = tab[c].n /\ SyncViewing(x, s)
                 /\ x.status = "open" /\ sock[s].st = "open" => sock[s].viewing = x.sent
                 /\ x.status \in {"open", tab[c].status}
    <3> DEFINE x == [tab[c] EXCEPT !.shown = th]
    <3>1. x \in TabState /\ x.n = tab[c].n /\ x.sent = tab[c].sent /\ x.status = tab[c].status
      BY <1>0 DEF TabState
    <3>2. SyncViewing(x, s)
      BY <2>2 DEF SetThread
    <3>3. tab[c].status = "open" /\ sock[s].st = "open" => sock[s].viewing = tab[c].sent
      BY DEF ViewInv, Reported
    <3> HIDE DEF x, s
    <3>4. QED
      BY <3>1, <3>2, <3>3
  <2>3. QED
    BY <2>1, <2>2
<1> HIDE DEF s
<1>4. /\ tab'[c].n = x.n /\ tab'[c].status = x.status
      /\ x.status = "open" => /\ tab'[c].sent = tab'[c].shown
                              /\ sock'[s].st = "open" => sock'[s].viewing = tab'[c].shown
      /\ sock'[s].st = sock[s].st /\ (x.status # "open" \/ sock[s].st # "open" => sock'[s] = sock[s])
      /\ \A k \in Client : k # c => tab'[k] = tab[k]
      /\ \A q \in ClientSock : q # s => sock'[q] = sock[q]
  BY <1>0, <1>2, <1>3, SyncReports
<1>5. Here(c)' = s /\ \A k \in Client : k # c => Here(k)' = Here(k) /\ Here(k) # s
  BY <1>2, <1>3, <1>4 DEF Here
<1>6. \A k \in Client : tab[k].status \in {"connecting", "open"} => Here(k) \in ClientSock
  BY <1>0, TabSocket DEF ViewInv, HubInv, HasNumber
<1>7. NewViewsNothing'
  <2>1. \A q \in ClientSock : sock'[q].st = "none" => sock'[q].viewing = None
    BY <1>2, <1>4 DEF ViewInv, NewViewsNothing
  <2>2. ASSUME NEW k \in Client, tab'[k].status = "connecting", sock'[Here(k)'].st = "open"
        PROVE  sock'[Here(k)'].viewing = None
    <3>1. CASE k = c
      <4>1. x.status = "connecting" /\ tab[c].status = "connecting"
        BY <1>3, <1>4, <2>2, <3>1
      <4>2. sock'[s] = sock[s]
        BY <1>4, <4>1
      <4>3. QED
        BY <1>5, <2>2, <3>1, <4>1, <4>2 DEF s, ViewInv, NewViewsNothing
    <3>2. CASE k # c
      BY <1>4, <1>5, <1>6, <2>2, <3>2 DEF ViewInv, NewViewsNothing
    <3>3. QED
      BY <3>1, <3>2
  <2>3. QED
    BY <2>1, <2>2 DEF NewViewsNothing
<1>8. Reported'
  <2> SUFFICES ASSUME NEW k \in Client, tab'[k].status = "open"
               PROVE  /\ tab'[k].sent = tab'[k].shown
                      /\ sock'[Here(k)'].st = "open" => sock'[Here(k)'].viewing = tab'[k].shown
    BY DEF Reported
  <2>1. CASE k = c
    BY <1>4, <1>5, <2>1
  <2>2. CASE k # c
    BY <1>4, <1>5, <1>6, <2>2 DEF ViewInv, Reported
  <2>3. QED
    BY <2>1, <2>2
<1>9. QED
  BY <1>7, <1>8 DEF ViewInv

LEMMA ConnectViews ==
  ASSUME ViewInv, HubInv', NEW c \in Client, Connect(c) \/ PongTimeout(c) PROVE ViewInv'
<1>0. HubTypeOK /\ HubTypeOK' /\ tab \in [Client -> TabState]
  BY HubTypes DEF ViewInv, HubInv, EndTypes
<1>1. /\ UNCHANGED sock /\ tab'[c].n = tab[c].n + 1 /\ tab'[c].n > 0
      /\ \A k \in Client : k # c => tab'[k] = tab[k]
  BY <1>0, ConnectSays
<1>2. tab'[c].status = "connecting"
  BY <1>0 DEF Connect, PongTimeout, TabState
<1>3. sock[<<c, tab'[c].n>>].st = "none" /\ <<c, tab'[c].n>> \in ClientSock
  <2>1. tab[c] \in TabState /\ tab'[c] \in TabState
    BY <1>0, HubTypes DEF EndTypes
  <2>2. tab[c].n \in 0 .. MaxTab /\ tab'[c].n \in 0 .. MaxTab
    BY <2>1, TabShapes
  <2>3. tab'[c].n \in 1 .. MaxTab /\ tab'[c].n > tab[c].n
    BY <1>1, <2>2, ConnAssumption
  <2>4. QED
    BY <2>3, Sockets DEF ViewInv, HubInv, UpgradesAreNew
<1>4. NewViewsNothing'
  <2> SUFFICES ASSUME NEW k \in Client, tab'[k].status = "connecting", sock[Here(k)'].st = "open"
               PROVE  sock[Here(k)'].viewing = None
    BY <1>1 DEF ViewInv, NewViewsNothing
  <2>1. k # c
    BY <1>3 DEF Here
  <2>2. QED
    BY <1>1, <2>1 DEF ViewInv, NewViewsNothing, Here
<1>5. Reported'
  <2> SUFFICES ASSUME NEW k \in Client, tab'[k].status = "open"
               PROVE  /\ tab'[k].sent = tab'[k].shown
                      /\ sock[Here(k)'].st = "open" => sock[Here(k)'].viewing = tab'[k].shown
    BY <1>1 DEF Reported
  <2>1. k # c
    BY <1>2
  <2>2. QED
    BY <1>1, <2>1 DEF ViewInv, Reported, Here
<1>6. QED
  BY <1>4, <1>5 DEF ViewInv

LEMMA AcceptViews ==
  ASSUME ViewInv, HubInv', NEW c \in Client, AcceptClient(c) PROVE ViewInv'
<1> DEFINE s == Here(c)
           y == [sock[s] EXCEPT !.st = "open"]
           x == [tab[c] EXCEPT !.upgrade = FALSE]
<1>0. HubTypeOK /\ HasNumber /\ tab \in [Client -> TabState] /\ sock \in [Sock -> SockState]
  BY HubTypes DEF ViewInv, HubInv, EndTypes, BoxTypes
<1>1. sock' = [sock EXCEPT ![s] = y] /\ tab' = [tab EXCEPT ![c] = x] /\ tab[c].status = "connecting"
  BY DEF AcceptClient
<1>2. s \in ClientSock /\ s \in Sock /\ s = <<c, tab[c].n>> /\ sock[s].st = "none" /\ s[1] = c
  <2>1. tab[c].n > 0 /\ tab[c].upgrade
    BY <1>0 DEF AcceptClient, HasNumber
  <2>2. s \in ClientSock /\ s \in Sock /\ s = <<c, tab[c].n>> /\ tab[c].n \in 1 .. MaxTab /\ s[1] = c
    BY <1>0, <2>1, TabSocket
  <2>3. sock[s].st = "none"
    BY <2>1, <2>2 DEF ViewInv, HubInv, UpgradesAreNew
  <2>4. QED
    BY <2>2, <2>3
<1>3. y.viewing = None /\ y.st = "open"
  BY <1>0, <1>2 DEF ViewInv, NewViewsNothing, SockState
<1>4. x.n = tab[c].n /\ x.status = "connecting"
  BY <1>0, <1>1 DEF TabState
<1> HIDE DEF x, y, s
<1>5. /\ sock'[s] = y /\ \A q \in ClientSock : q # s => sock'[q] = sock[q]
      /\ tab'[c] = x /\ \A k \in Client : k # c => tab'[k] = tab[k]
  BY <1>0, <1>1, <1>2, Sockets
<1>6. Here(c)' = s /\ \A k \in Client : k # c => Here(k)' = Here(k) /\ Here(k) # s
  BY <1>2, <1>4, <1>5 DEF Here
<1>7. \A k \in Client : tab[k].status \in {"connecting", "open"} => Here(k) \in ClientSock
  BY <1>0, TabSocket DEF HasNumber
<1>8. NewViewsNothing'
  BY <1>3, <1>5, <1>6, <1>7 DEF ViewInv, NewViewsNothing
<1>9. Reported'
  BY <1>4, <1>5, <1>6, <1>7 DEF ViewInv, Reported
<1>10. QED
  BY <1>8, <1>9 DEF ViewInv

LEMMA ViewStep ==
  ASSUME ViewInv, [HubNext]_hubVars PROVE ViewInv'
<1>0. HubInv' /\ HubTypeOK
  BY HubStep DEF ViewInv, HubInv
<1>1. CASE DeviceStep \/ SweepStep
  BY <1>0, <1>1, DeviceUnseen, UnseenKept
<1>2. ASSUME NEW c \in Client, TabStep(c) PROVE ViewInv'
  <2>1. CASE Connect(c) \/ PongTimeout(c)
    BY <1>0, <2>1, ConnectViews
  <2>2. CASE AcceptClient(c)
    BY <1>0, <2>2, AcceptViews
  <2>3. CASE Opened(c) \/ \E th \in Thread \cup {None} : SetThread(c, th)
    BY <1>0, <2>3, SyncKeeps
  <2>4. CASE Handle(c)
    BY <1>0, <2>4, DialerUnseen, UnseenKept
  <2>5. QED
    BY <1>2, <2>1, <2>2, <2>3, <2>4 DEF TabStep
<1>3. ASSUME NEW c \in Dialer, DialerStep(c) PROVE ViewInv'
  <2>1. c \in Client
    BY ConnAssumption
  <2>2. Unseen
    BY <1>0, <1>3, <2>1, DialerUnseen DEF DialerStep
  <2>3. QED
    BY <1>0, <2>2, UnseenKept
<1>4. CASE UNCHANGED hubVars
  <2>1. Unseen
    BY <1>4 DEF hubVars, Unseen, Wanes, Shows
  <2>2. QED
    BY <1>0, <2>1, UnseenKept
<1>5. QED
  BY <1>1, <1>2, <1>3, <1>4 DEF HubNext

(* The hub knows which thread a connected tab shows, however its sockets    *)
(* come and go: a new one starts out viewing nothing, and onopen reports.    *)
THEOREM HubViewingIsTrue == HubSpec => []ViewingIsTrue
<1>1. HubInit => ViewInv
  <2>1. ASSUME HubInit PROVE NewViewsNothing /\ Reported
    <3>1. \A c \in Client : tab[c].status = "idle"
      BY <2>1 DEF HubInit
    <3>2. \A s \in ClientSock : sock[s].viewing = None
      BY <2>1, Sockets DEF HubInit
    <3>3. QED
      BY <3>1, <3>2 DEF NewViewsNothing, Reported
  <2>2. QED
    BY <2>1, HubStart DEF ViewInv
<1>2. ViewInv /\ [HubNext]_hubVars => ViewInv'
  BY ViewStep
<1>3. ViewInv => ViewingIsTrue
  BY DEF ViewInv, Reported, ViewingIsTrue, Connected
<1>4. QED
  BY <1>1, <1>2, <1>3, PTL DEF HubSpec
-----------------------------------------------------------------------------
(* The hub knows who is here.                                                 *)

\* A tab whose socket is open here. What it was sent first, it may not have read yet.
Up(c) == tab[c].n > 0 /\ sock[Here(c)].st = "open"
UpIsUsed == \A c \in Client : Up(c) => tab[c].status \in {"connecting", "open"}

\* A daemon's sockets are numbered in a row, and a new one has not been silent.
InARow ==
  \A d \in Device, n, m \in 1 .. MaxConn :
    n < m /\ sock[<<d, n>>].st = "none" => sock[<<d, m>>].st = "none"
NewSpeaks == \A s \in DeviceSock : sock[s].st = "none" => ~sock[s].silent

Present(d) == \E n \in 1 .. MaxConn : sock[<<d, n>>].st \in {"open", "closing"}
ShownArePresent == \A c \in Client : Up(c) => \A d \in WillShow(c) : Present(d)
HeldAreShown ==
  naps = 0 => \A s \in DeviceSock : sock[s].st = "open" /\ held[s[1]] = s[2] =>
    ~sock[s].silent /\ \A c \in Client : Up(c) => s[1] \in WillShow(c)

PresenceInv ==
  HubInv /\ UpIsUsed /\ InARow /\ NewSpeaks /\ ShownArePresent /\ HeldAreShown /\ RpcHasSocket

-----------------------------------------------------------------------------
(* What a message does to what a tab will show.                               *)

LEMMA SaidAppend ==
  ASSUME NEW M, NEW box \in Seq(M), NEW m \in M, NEW d, NEW on
  PROVE  /\ About(m, d) => (WillBeShown(d, on, Append(box, m)) <=> SaysOnline(m, d))
         /\ ~About(m, d) => (WillBeShown(d, on, Append(box, m)) <=> WillBeShown(d, on, box))
<1> DEFINE more == Append(box, m)
           n == Len(box) + 1
           said == {i \in DOMAIN box : About(box[i], d)}
           says == {i \in DOMAIN more : About(more[i], d)}
<1>1. /\ DOMAIN more = 1 .. n /\ more[n] = m /\ n \in Nat \ {0} /\ DOMAIN box = 1 .. (n - 1)
      /\ \A i \in 1 .. (n - 1) : more[i] = box[i]
  OBVIOUS
<1>2. (WillBeShown(d, on, more) <=> IF says = {} THEN d \in on
        ELSE \E i \in says : SaysOnline(more[i], d) /\ \A j \in says : j <= i)
      /\ (WillBeShown(d, on, box) <=> IF said = {} THEN d \in on
        ELSE \E i \in said : SaysOnline(box[i], d) /\ \A j \in said : j <= i)
  BY DEF WillBeShown
<1> HIDE DEF more, n
<1>3. CASE About(m, d)
  <2>1. n \in says /\ \A j \in says : j <= n
    BY <1>1, <1>3
  <2>2. \A i \in says : (\A j \in says : j <= i) => i = n
    BY <1>1, <2>1
  <2> HIDE DEF says
  <2>3. QED
    BY <1>1, <1>2, <1>3, <2>1, <2>2 DEF more
<1>4. CASE ~About(m, d)
  <2>1. says = said /\ \A i \in said : more[i] = box[i]
    BY <1>1, <1>4
  <2> HIDE DEF says, said
  <2>2. QED
    BY <1>2, <1>4, <2>1 DEF more
<1>5. QED
  BY <1>3, <1>4

LEMMA SaidFirst ==
  ASSUME NEW M, NEW box \in Seq(M), box # <<>>, NEW d, NEW on, NEW now,
         IF About(Head(box), d) THEN d \in now <=> SaysOnline(Head(box), d) ELSE d \in now <=> d \in on
  PROVE  WillBeShown(d, now, Tail(box)) <=> WillBeShown(d, on, box)
<1> DEFINE rest == Tail(box)
           n == Len(box)
           said == {i \in DOMAIN box : About(box[i], d)}
           says == {i \in DOMAIN rest : About(rest[i], d)}
<1>1. /\ DOMAIN rest = 1 .. (n - 1) /\ n \in Nat \ {0} /\ DOMAIN box = 1 .. n /\ Head(box) = box[1]
      /\ \A i \in 1 .. (n - 1) : rest[i] = box[i + 1]
  OBVIOUS
<1>2. (WillBeShown(d, now, rest) <=> IF says = {} THEN d \in now
        ELSE \E i \in says : SaysOnline(rest[i], d) /\ \A j \in says : j <= i)
      /\ (WillBeShown(d, on, box) <=> IF said = {} THEN d \in on
        ELSE \E i \in said : SaysOnline(box[i], d) /\ \A j \in said : j <= i)
  BY DEF WillBeShown
<1> HIDE DEF rest, n
<1>3. /\ \A i \in says : i + 1 \in said /\ rest[i] = box[i + 1] /\ i \in Nat \ {0}
      /\ \A i \in said : i \in Nat \ {0} /\ (i # 1 => i - 1 \in says /\ rest[i - 1] = box[i])
      /\ 1 \in said <=> About(Head(box), d)
  BY <1>1
<1> HIDE DEF says, said
<1>4. CASE says = {}
  <2>1. \A i \in said : i = 1
    BY <1>3, <1>4
  <2>2. CASE said = {}
    BY <1>1, <1>2, <1>3, <1>4, <2>1, <2>2 DEF rest
  <2>3. CASE 1 \in said
    <3>1. (\E i \in said : SaysOnline(box[i], d) /\ \A j \in said : j <= i) <=> SaysOnline(box[1], d)
      BY <2>1, <2>3
    <3>2. QED
      BY <1>1, <1>2, <1>3, <1>4, <2>3, <3>1 DEF rest
  <2>4. QED
    BY <2>1, <2>2, <2>3
<1>5. CASE says # {}
  <2>1. ASSUME NEW i \in says, SaysOnline(rest[i], d), \A j \in says : j <= i
        PROVE  \E k \in said : SaysOnline(box[k], d) /\ \A j \in said : j <= k
    <3>1. i + 1 \in said /\ SaysOnline(box[i + 1], d) /\ i \in Nat
      BY <1>3, <2>1
    <3>2. \A j \in said : j <= i + 1
      BY <1>3, <2>1, <3>1
    <3>3. QED
      BY <3>1, <3>2
  <2>2. ASSUME NEW k \in said, SaysOnline(box[k], d), \A j \in said : j <= k
        PROVE  \E i \in says : SaysOnline(rest[i], d) /\ \A j \in says : j <= i
    <3>1. k # 1
      BY <1>3, <1>5, <2>2
    <3>2. k - 1 \in says /\ SaysOnline(rest[k - 1], d)
      BY <1>3, <2>2, <3>1
    <3>3. \A j \in says : j <= k - 1
      BY <1>3, <2>2
    <3>4. QED
      BY <3>2, <3>3
  <2>3. said # {}
    BY <1>3, <1>5
  <2>4. QED
    BY <1>2, <1>5, <2>1, <2>2, <2>3 DEF rest
<1>6. QED
  BY <1>4, <1>5

LEMMA SaidAtOnce ==
  ASSUME NEW m, m.t = "presence", NEW d, NEW on
  PROVE  WillBeShown(d, on, <<m>>) <=> d \in m.online
<1> DEFINE said == {i \in DOMAIN <<m>> : About(<<m>>[i], d)}
<1>1. DOMAIN <<m>> = {1} /\ <<m>>[1] = m
  OBVIOUS
<1>2. said = {1}
  BY <1>1 DEF About
<1>3. QED
  BY <1>1, <1>2 DEF WillBeShown, SaysOnline

\* What a step leaves of what a tab will show.
Unsaid(c) == \A d \in Device : d \in WillShow(c)' <=> d \in WillShow(c)
Said(c, d, on) ==
  /\ d \in WillShow(c)' <=> on
  /\ \A e \in Device \ {d} : e \in WillShow(c)' <=> e \in WillShow(c)

LEMMA UpSocket ==
  ASSUME HubTypeOK, NEW c \in Client, tab[c].n > 0
  PROVE  Here(c) \in ClientSock /\ Here(c) \in Sock /\ inbox[Here(c)] \in Seq(Sent) /\ Here(c)[1] = c
         /\ Here(c)[2] = tab[c].n
BY TabSocket, HubTypes DEF BoxTypes

\* Nothing about presence is told to a tab that shows what it showed.
LEMMA NothingSaid ==
  ASSUME HubTypeOK, NEW c \in Client, tab[c].n > 0, Here(c)' = Here(c), tab'[c].online = tab[c].online,
         \/ inbox'[Here(c)] = inbox[Here(c)]
         \/ \E m \in Sent : m.t \notin {"presence", "presence.update"}
                            /\ inbox'[Here(c)] = Append(inbox[Here(c)], m)
  PROVE  Unsaid(c)
<1> DEFINE box == inbox[Here(c)]
<1>1. box \in Seq(Sent)
  BY UpSocket
<1>2. \A d : d \in WillShow(c)' <=> d \in Device /\ WillBeShown(d, tab[c].online, inbox'[Here(c)])
  BY DEF WillShow
<1>3. \A d : d \in WillShow(c) <=> d \in Device /\ WillBeShown(d, tab[c].online, box)
  BY DEF WillShow
<1>4. CASE inbox'[Here(c)] = box
  BY <1>2, <1>3, <1>4 DEF Unsaid
<1>5. ASSUME NEW m \in Sent, m.t \notin {"presence", "presence.update"}, inbox'[Here(c)] = Append(box, m)
      PROVE  Unsaid(c)
  <2>1. \A d : ~About(m, d)
    BY <1>5 DEF About
  <2>2. \A d, on : WillBeShown(d, on, Append(box, m)) <=> WillBeShown(d, on, box)
    BY <1>1, <2>1, SaidAppend
  <2> HIDE DEF box
  <2>3. QED
    BY <1>2, <1>3, <1>5, <2>2 DEF Unsaid
<1>6. QED
  BY <1>4, <1>5

LEMMA PresenceSaid ==
  ASSUME HubTypeOK, NEW c \in Client, tab[c].n > 0, Here(c)' = Here(c), tab'[c].online = tab[c].online,
         NEW d \in Device, NEW on \in BOOLEAN, inbox'[Here(c)] = Append(inbox[Here(c)], PresenceAt(d, on))
  PROVE  Said(c, d, on)
<1> DEFINE box == inbox[Here(c)]
           m == PresenceAt(d, on)
<1>1. box \in Seq(Sent) /\ m \in Sent
  BY UpSocket, Messages
<1>2. \A e : e \in WillShow(c)' <=> e \in Device /\ WillBeShown(e, tab[c].online, inbox'[Here(c)])
  BY DEF WillShow
<1>3. \A e : e \in WillShow(c) <=> e \in Device /\ WillBeShown(e, tab[c].online, box)
  BY DEF WillShow
<1>4. /\ \A e : About(m, e) <=> e = d
      /\ SaysOnline(m, d) <=> on
  BY DEF About, SaysOnline, PresenceAt
<1> HIDE DEF m, box
<1>5. \A e, o : /\ e = d => (WillBeShown(e, o, Append(box, m)) <=> SaysOnline(m, e))
                /\ e # d => (WillBeShown(e, o, Append(box, m)) <=> WillBeShown(e, o, box))
  BY <1>1, <1>4, SaidAppend
<1>6. inbox'[Here(c)] = Append(box, m)
  BY DEF box, m
<1>7. QED
  BY <1>2, <1>3, <1>4, <1>5, <1>6 DEF Said

\* A broadcast reaches each tab that is up.
LEMMA BroadcastSaid ==
  ASSUME HubTypeOK, NEW sk, NEW d \in Device, NEW on \in BOOLEAN, NEW c \in Client, tab[c].n > 0,
         sk[Here(c)].st = "open", tab' = tab,
         inbox'[Here(c)] = Broadcast(sk, inbox, PresenceAt(d, on))[Here(c)]
  PROVE  Said(c, d, on)
<1>1. Here(c) \in ClientSock /\ Here(c) \in Sock /\ ~IsDevice(Here(c)) /\ Here(c)[1] = c /\ Here(c)[2] = tab[c].n
  BY UpSocket, Sockets
<1>2. Read(Here(c))
  BY <1>1 DEF Read
<1>3. inbox'[Here(c)] = Append(inbox[Here(c)], PresenceAt(d, on))
  BY <1>1, <1>2 DEF Broadcast, SendTo
<1>4. Here(c)' = Here(c)
  BY DEF Here
<1>5. QED
  BY <1>3, <1>4, PresenceSaid

-----------------------------------------------------------------------------
(* Steps that tell nobody of a daemon.                                        *)

\* A tab that is up was, and will show what it would, or is told who is here.
Told(c) == (Up(c) /\ Unsaid(c)) \/ WillShow(c)' = OnlineDevices(sock)
QuietTabs == \A c \in Client : Up(c)' => tab'[c].status \in {"connecting", "open"} /\ Told(c)

\* A daemon's socket may be closed, be heard again, or go silent when nobody is there.
QuietSockets ==
  /\ \A s \in DeviceSock :
       /\ sock'[s].st = sock[s].st \/ (sock[s].st = "open" /\ sock'[s].st = "closing")
       /\ sock'[s].st = "none" => (sock'[s].silent => sock[s].silent)
  /\ naps' = 0 => /\ naps = 0
                  /\ \A s \in DeviceSock : sock'[s].st = "open" /\ held'[s[1]] = s[2] =>
                       held[s[1]] = s[2] /\ (sock'[s].silent => sock[s].silent)
QuietRpcs ==
  \A r \in Rpc : pending'[r] \in {None, pending[r]} \/ (pending'[r] \in Device /\ SocketsOf(sock, pending'[r]) # {})

LEMMA LiveIsPresent == \A d \in Device : SocketsOf(sock, d) # {} => Present(d)
BY DEF SocketsOf, Live, Present

LEMMA PresentKept == ASSUME QuietSockets, NEW d \in Device, Present(d) PROVE Present(d)'
BY Sockets DEF QuietSockets, Present

LEMMA RowKept ==
  ASSUME InARow, NewSpeaks, QuietSockets PROVE InARow' /\ NewSpeaks'
<1>1. \A s \in DeviceSock : sock'[s].st = "none" <=> sock[s].st = "none"
  BY DEF QuietSockets
<1>2. QED
  BY <1>1, Sockets DEF InARow, NewSpeaks, QuietSockets

LEMMA QuietKeeps ==
  ASSUME PresenceInv, HubInv', QuietTabs, QuietSockets, QuietRpcs PROVE PresenceInv'
<1>1. UpIsUsed' /\ InARow' /\ NewSpeaks'
  BY RowKept DEF PresenceInv, UpIsUsed, QuietTabs
<1>2. ShownArePresent'
  <2> SUFFICES ASSUME NEW c \in Client, Up(c)', NEW d \in WillShow(c)' PROVE Present(d)'
    BY DEF ShownArePresent
  <2>1. d \in Device
    BY DEF WillShow
  <2>2. CASE Up(c) /\ Unsaid(c)
    BY <2>1, <2>2, PresentKept DEF PresenceInv, ShownArePresent, Unsaid
  <2>3. CASE WillShow(c)' = OnlineDevices(sock)
    <3>1. SocketsOf(sock, d) # {}
      BY <2>3 DEF OnlineDevices
    <3>2. QED
      BY <2>1, <3>1, LiveIsPresent, PresentKept
  <2>4. QED
    BY <2>2, <2>3 DEF QuietTabs, Told
<1>3. HeldAreShown'
  <2> SUFFICES ASSUME naps' = 0, NEW s \in DeviceSock, sock'[s].st = "open", held'[s[1]] = s[2]
               PROVE  ~sock'[s].silent /\ \A c \in Client : Up(c)' => s[1] \in WillShow(c)'
    BY DEF HeldAreShown
  <2>1. naps = 0 /\ sock[s].st = "open" /\ held[s[1]] = s[2] /\ (sock'[s].silent => sock[s].silent)
    BY DEF QuietSockets
  <2>2. ~sock[s].silent /\ \A c \in Client : Up(c) => s[1] \in WillShow(c)
    BY <2>1 DEF PresenceInv, HeldAreShown
  <2>3. s[1] \in Device /\ s \in SocketsOf(sock, s[1])
    BY <2>1, <2>2, Sockets DEF SocketsOf, Live
  <2>4. s[1] \in OnlineDevices(sock)
    BY <2>3 DEF OnlineDevices
  <2>5. QED
    BY <2>1, <2>2, <2>3, <2>4 DEF QuietTabs, Told, Unsaid
<1>4. RpcHasSocket'
  <2> SUFFICES ASSUME NEW r \in Rpc, pending'[r] # None
               PROVE  \E n \in 1 .. MaxConn : sock'[<<pending'[r], n>>].st \in {"open", "closing"}
    BY DEF RpcHasSocket
  <2>1. Present(pending'[r]) /\ pending'[r] \in Device
    <3>1. CASE pending'[r] = pending[r]
      BY <3>1, HubTypes DEF PresenceInv, HubInv, RpcTypes, RpcHasSocket, Present
    <3>2. CASE pending'[r] \in Device /\ SocketsOf(sock, pending'[r]) # {}
      BY <3>2, LiveIsPresent
    <3>3. QED
      BY <3>1, <3>2 DEF QuietRpcs
  <2>2. \A d \in Device : Present(d) => Present(d)'
    BY PresentKept
  <2>3. QED
    BY <2>1, <2>2 DEF Present
<1>5. QED
  BY <1>1, <1>2, <1>3, <1>4 DEF PresenceInv

\* What the server does without a word of presence.
LEMMA ServerQuiet ==
  ASSUME PresenceInv, TabsQuiet,
         \A q \in ClientSock : sock'[q].st = "open" => sock[q].st = "open",
         \A q \in ClientSock :
           \/ inbox'[q] = inbox[q]
           \/ \E m \in Sent : m.t \notin {"presence", "presence.update"} /\ inbox'[q] = Append(inbox[q], m)
  PROVE  QuietTabs
<1> SUFFICES ASSUME NEW c \in Client, Up(c)'
             PROVE  Up(c) /\ tab'[c].status \in {"connecting", "open"} /\ Unsaid(c)
  BY DEF QuietTabs, Told
<1>1. tab' = tab /\ Here(c)' = Here(c) /\ tab[c].n > 0 /\ HubTypeOK
  BY DEF TabsQuiet, Here, Up, PresenceInv, HubInv
<1>2. Here(c) \in ClientSock
  BY <1>1, UpSocket
<1>3. Up(c)
  BY <1>1, <1>2 DEF Up
<1>4. tab'[c].status \in {"connecting", "open"}
  BY <1>1, <1>3 DEF PresenceInv, UpIsUsed
<1>5. Unsaid(c)
  BY <1>1, <1>2, NothingSaid
<1>6. QED
  BY <1>3, <1>4, <1>5

LEMMA SameSockets ==
  ASSUME \A s \in DeviceSock : sock'[s] = sock[s], UNCHANGED <<held, naps>>
  PROVE  QuietSockets
BY DEF QuietSockets

LEMMA SameRpcs == ASSUME RpcQuiet PROVE QuietRpcs
BY DEF RpcQuiet, QuietRpcs

LEMMA SocketPresence ==
  ASSUME PresenceInv, HubInv', NEW s \in DeviceSock, Accepted(s) \/ Hello(s) \/ Nap(s) \/ Pings(s)
  PROVE  PresenceInv'
<1>0. /\ sock \in [Sock -> SockState] /\ s \in Sock /\ s \notin ClientSock /\ sock[s] \in SockState
      /\ naps \in Nat /\ HubTypeOK
  BY HubTypes, Sockets, ConnAssumption DEF BoxTypes, EndTypes, PresenceInv, HubInv
<1>1. /\ TabsQuiet /\ RpcQuiet /\ UNCHANGED <<inbox, held>>
      /\ naps' = naps \/ naps' = naps + 1
  BY DEF Accepted, Hello, Nap, Pings, DevicesQuiet
<1>2. PICK x \in SockState : sock' = [sock EXCEPT ![s] = x] /\ x.st \in {"none", "open", "closing", "gone"}
                              /\ (x.st = sock[s].st \/ (sock[s].st = "open" /\ x.st = "closing"))
                              /\ (x.st = "none" => x = sock[s])
                              /\ (x.silent => sock[s].silent \/ naps' # 0 \/ held[s[1]] # s[2])
  <2>1. CASE Accepted(s)
    BY <1>0, <2>1 DEF Accepted, SockState
  <2>2. CASE Hello(s)
    <3>1. CASE sock' = [sock EXCEPT ![s].rpc = TRUE]
      <4> DEFINE x == [sock[s] EXCEPT !.rpc = TRUE]
      <4>1. x \in SockState /\ x.st = sock[s].st /\ x.silent = sock[s].silent /\ sock[s].st = "open"
        BY <1>0, <2>2 DEF Hello, Holds, SockState
      <4>2. sock' = [sock EXCEPT ![s] = x]
        BY <1>0, <3>1
      <4> HIDE DEF x
      <4>3. QED
        BY <4>1, <4>2
    <3>2. CASE sock' = Closed(sock, {s})
      <4> DEFINE x == [sock[s] EXCEPT !.st = "closing"]
      <4>1. x \in SockState /\ x.st = "closing" /\ x.silent = sock[s].silent /\ sock[s].st = "open"
        BY <1>0, <2>2 DEF Hello, Holds, SockState
      <4>2. sock' = [sock EXCEPT ![s] = x]
        BY <1>0, <3>2, <4>1 DEF Closed
      <4> HIDE DEF x
      <4>3. QED
        BY <4>1, <4>2
    <3>3. QED
      BY <2>2, <3>1, <3>2 DEF Hello
  <2>3. CASE Nap(s)
    <3> DEFINE x == [sock[s] EXCEPT !.silent = TRUE]
    <3>1. x \in SockState /\ x.st = sock[s].st /\ sock[s].st = "open"
      BY <1>0, <2>3 DEF Nap, SockState
    <3>2. sock' = [sock EXCEPT ![s] = x] /\ naps' = naps + 1
      BY <1>0, <2>3 DEF Nap
    <3> HIDE DEF x
    <3>3. naps' # 0
      BY <1>0, <3>2
    <3>4. QED
      BY <3>1, <3>2, <3>3
  <2>4. CASE Pings(s)
    <3> DEFINE b == ~sock[s].silent
               x == [sock[s] EXCEPT !.silent = b]
    <3>1. x \in SockState /\ x.st = sock[s].st /\ sock[s].st = "open" /\ (x.silent <=> ~sock[s].silent)
      BY <1>0, <2>4 DEF Pings, SockState
    <3>2. sock' = [sock EXCEPT ![s] = x]
      BY <1>0, <2>4 DEF Pings
    <3>3. sock[s].silent <=> held[s[1]] = s[2]
      BY <2>4 DEF Pings
    <3> HIDE DEF x, b
    <3>4. QED
      BY <3>1, <3>2, <3>3
  <2>5. QED
    BY <2>1, <2>2, <2>3, <2>4
<1>3. /\ sock'[s] = x /\ \A q \in Sock : q # s => sock'[q] = sock[q]
      /\ \A q \in ClientSock : sock'[q] = sock[q]
  BY <1>0, <1>2, Sockets
<1>4. QuietSockets
  BY <1>0, <1>1, <1>2, <1>3, Sockets DEF QuietSockets
<1>5. QuietTabs
  BY <1>1, <1>3, ServerQuiet
<1>6. QED
  BY <1>1, <1>4, <1>5, QuietKeeps, SameRpcs

LEMMA RpcPresence ==
  ASSUME PresenceInv, HubInv', NEW r \in Rpc,
         RpcTimeout(r) \/ (\E d \in Device : DeviceRpc(r, d)) \/ (\E s \in DeviceSock : AnswerRpc(s, r))
  PROVE  PresenceInv'
<1>0. inbox \in [Sock -> Seq(Sent)] /\ pending \in [Rpc -> Device \cup {None}]
  BY HubTypes DEF BoxTypes, RpcTypes, PresenceInv, HubInv
<1>1. UNCHANGED sock /\ TabsQuiet /\ DevicesQuiet
  BY DEF RpcTimeout, DeviceRpc, AnswerRpc
<1>2. QuietRpcs
  <2>1. CASE RpcTimeout(r) \/ \E s \in DeviceSock : AnswerRpc(s, r)
    BY <1>0, <2>1 DEF RpcTimeout, AnswerRpc, RpcQuiet, QuietRpcs
  <2>2. ASSUME NEW d \in Device, DeviceRpc(r, d) PROVE QuietRpcs
    <3>1. pending' = pending \/ (pending' = [pending EXCEPT ![r] = d] /\ SocketsOf(sock, d) # {})
      BY <2>2 DEF DeviceRpc
    <3>2. QED
      BY <1>0, <3>1 DEF QuietRpcs
  <2>3. QED
    BY <2>1, <2>2
<1>3. \A q \in ClientSock : inbox'[q] = inbox[q]
  <2>1. CASE RpcTimeout(r)
    BY <2>1 DEF RpcTimeout
  <2>2. ASSUME NEW s \in DeviceSock, AnswerRpc(s, r) PROVE \A q \in ClientSock : inbox'[q] = inbox[q]
    BY <1>0, <2>2, Sockets DEF AnswerRpc
  <2>3. ASSUME NEW d \in Device, DeviceRpc(r, d) PROVE \A q \in ClientSock : inbox'[q] = inbox[q]
    <3>1. UNCHANGED inbox \/ \E s \in SocketsOf(sock, d) : inbox' = SendTo(sock, inbox, {s}, [t |-> "rpc", id |-> r])
      BY <2>3 DEF DeviceRpc
    <3>2. \A s \in SocketsOf(sock, d) : s \notin ClientSock
      BY KindAssumption DEF SocketsOf, ClientSock
    <3>3. QED
      BY <3>1, <3>2, Sockets DEF SendTo
  <2>4. QED
    BY <2>1, <2>2, <2>3
<1>4. QuietTabs
  BY <1>1, <1>3, ServerQuiet
<1>5. QED
  BY <1>1, <1>2, <1>4, SameSockets, QuietKeeps DEF DevicesQuiet

\* The other steps of the server that say nothing of a daemon.
LEMMA ServerPresence ==
  ASSUME PresenceInv, HubInv',
         \/ Alarm \/ AlarmEnds
         \/ \E d \in Device : DaemonDrops(d)
         \/ \E c \in Client : \/ ReadSession(c) \/ SessionChecked(c) \/ SignOut(c) \/ RevokeSessions(c)
                              \/ \E d \in Device : Relay(c, d)
                              \/ \E s \in DeviceSock, n \in 1 .. MaxTab :
                                   AnswerSignal(s, <<c, n>>) \/ ReadRevoked(s, <<c, n>>)
  PROVE  PresenceInv'
<1>0. /\ inbox \in [Sock -> Seq(Sent)] /\ sock \in [Sock -> SockState] /\ HubTypeOK
      /\ held \in [Device -> 0 .. MaxConn]
  BY HubTypes DEF BoxTypes, EndTypes, PresenceInv, HubInv
<1>1. TabsQuiet /\ RpcQuiet /\ naps' = naps
  BY DEF Alarm, AlarmEnds, DaemonDrops, ReadSession, SessionChecked, SignOut, RevokeSessions, Relay,
     AnswerSignal, ReadRevoked, DevicesQuiet
<1>2. held' = held \/ \E d \in Device : held' = [held EXCEPT ![d] = 0]
  BY DEF Alarm, AlarmEnds, DaemonDrops, ReadSession, SessionChecked, SignOut, RevokeSessions, Relay,
     AnswerSignal, ReadRevoked, DevicesQuiet
<1>3. sock' = sock \/ \E S : S \cap DeviceSock = {} /\ sock' = Closed(sock, S)
  <2>1. ASSUME NEW c \in Client, SessionChecked(c) PROVE sock' = sock \/ \E S : S \cap DeviceSock = {} /\ sock' = Closed(sock, S)
    <3>1. sock' = sock \/ sock' = Closed(sock, {offer[c][1]})
      BY <2>1 DEF SessionChecked
    <3>2. offer[c][1] \in ClientSock
      BY <1>0, <2>1, HubTypes DEF SessionChecked, TypesBut
    <3>3. {offer[c][1]} \cap DeviceSock = {}
      BY <3>2, Sockets
    <3>4. QED
      BY <3>1, <3>3
  <2>2. ASSUME NEW c \in Client, RevokeSessions(c) PROVE \E S : S \cap DeviceSock = {} /\ sock' = Closed(sock, S)
    <3> DEFINE conns == {s \in {c} \X (1 .. MaxTab) : sock[s].st = "open"}
    <3>1. sock' = Closed(sock, conns)
      BY <2>2 DEF RevokeSessions
    <3>2. conns \cap DeviceSock = {}
      BY KindAssumption DEF DeviceSock
    <3>3. QED
      BY <3>1, <3>2
  <2>3. QED
    BY <2>1, <2>2 DEF Alarm, AlarmEnds, DaemonDrops, ReadSession, SignOut, Relay, AnswerSignal, ReadRevoked
<1>4. \A q \in ClientSock :
           \/ inbox'[q] = inbox[q]
           \/ \E m \in Sent : m.t \notin {"presence", "presence.update"} /\ inbox'[q] = Append(inbox[q], m)
  <2>0. [t |-> "signal"] \in Sent /\ [t |-> "offline"] \in Sent
    BY Messages
  <2>1. ASSUME NEW c \in Client, NEW d \in Device, Relay(c, d), NEW q \in ClientSock
        PROVE  \/ inbox'[q] = inbox[q]
               \/ \E m \in Sent : m.t \notin {"presence", "presence.update"} /\ inbox'[q] = Append(inbox[q], m)
    <3>1. offer[c][1] \in ClientSock
      BY <1>0, <2>1, HubTypes DEF Relay, TypesBut
    <3>2. \/ inbox' = SendTo(sock, inbox, {offer[c][1]}, [t |-> "offline"])
          \/ \E to \in SocketsOf(sock, d) :
               inbox' = SendTo(sock, inbox, {to}, [t |-> "signal", from |-> offer[c][1]])
      BY <2>1 DEF Relay
    <3>3. [t |-> "signal", from |-> offer[c][1]] \in Sent
      BY <3>1, Messages
    <3>4. \E m \in Sent : \E S : m.t \notin {"presence", "presence.update"} /\ inbox' = SendTo(sock, inbox, S, m)
      <4>1. [t |-> "signal", from |-> offer[c][1]].t = "signal" /\ [t |-> "offline"].t = "offline"
        OBVIOUS
      <4>2. QED
        BY <2>0, <3>2, <3>3, <4>1
    <3>5. PICK m \in Sent : \E S : m.t \notin {"presence", "presence.update"} /\ inbox' = SendTo(sock, inbox, S, m)
      BY <3>4
    <3>6. inbox'[q] = inbox[q] \/ inbox'[q] = Append(inbox[q], m)
      BY <3>5, Sockets DEF SendTo
    <3>7. QED
      BY <3>5, <3>6
  <2>2. ASSUME NEW c \in Client, NEW s \in DeviceSock, NEW n \in 1 .. MaxTab, AnswerSignal(s, <<c, n>>), NEW q \in ClientSock
        PROVE  \/ inbox'[q] = inbox[q]
               \/ \E m \in Sent : m.t \notin {"presence", "presence.update"} /\ inbox'[q] = Append(inbox[q], m)
    <3> DEFINE box == [inbox EXCEPT ![s] = Tail(@)]
    <3>1. inbox' = SendTo(sock, box, {<<c, n>>}, [t |-> "signal"]) /\ inbox[s] # <<>>
      BY <2>2 DEF AnswerSignal
    <3>2. s \in Sock /\ q \in Sock /\ q # s
      BY Sockets
    <3>3. Tail(inbox[s]) \in Seq(Sent)
      BY <1>0, <3>1, <3>2
    <3>4. box \in [Sock -> Seq(Sent)] /\ box[q] = inbox[q]
      BY <1>0, <3>2, <3>3
    <3> DEFINE m == [t |-> "signal"]
    <3>5. m \in Sent /\ m.t = "signal" /\ inbox' = SendTo(sock, box, {<<c, n>>}, m)
      BY <2>0, <3>1
    <3> HIDE DEF box, m
    <3>6. inbox'[q] = box[q] \/ inbox'[q] = Append(box[q], m)
      BY <3>2, <3>5 DEF SendTo
    <3>7. QED
      BY <3>4, <3>5, <3>6
  <2>3. ASSUME NEW c \in Client, RevokeSessions(c), NEW q \in ClientSock PROVE inbox'[q] = inbox[q]
    BY <2>3, Sockets DEF RevokeSessions
  <2>4. ASSUME NEW c \in Client, NEW s \in DeviceSock, NEW n \in 1 .. MaxTab, ReadRevoked(s, <<c, n>>), NEW q \in ClientSock
        PROVE  inbox'[q] = inbox[q]
    BY <1>0, <2>4, Sockets DEF ReadRevoked
  <2>5. CASE UNCHANGED inbox
    BY <2>5
  <2>6. QED
    BY <2>1, <2>2, <2>3, <2>4, <2>5 DEF Alarm, AlarmEnds, DaemonDrops, ReadSession, SignOut, SessionChecked
<1>5. /\ \A s \in DeviceSock : sock'[s] = sock[s]
      /\ \A q \in ClientSock : sock'[q].st = "open" => sock[q].st = "open"
  <2>1. CASE sock' = sock
    BY <2>1
  <2>2. ASSUME NEW S, S \cap DeviceSock = {}, sock' = Closed(sock, S)
        PROVE  /\ \A s \in DeviceSock : sock'[s] = sock[s]
               /\ \A q \in ClientSock : sock'[q].st = "open" => sock[q].st = "open"
    <3>1. \A s \in DeviceSock : sock'[s] = sock[s]
      BY <2>2, Sockets DEF Closed
    <3>2. QED
      BY <1>0, <2>2, <3>1, ClosedSays, Sockets, SMTT(30)
  <2>3. QED
    BY <1>3, <2>1, <2>2
<1>6. QuietSockets
  <2>1. \A s \in DeviceSock : held'[s[1]] = s[2] => held[s[1]] = s[2]
    <3>1. \A s \in DeviceSock : s[1] \in Device /\ s[2] # 0
      BY Sockets, ConnAssumption
    <3>2. QED
      BY <1>0, <1>2, <3>1
  <2>2. QED
    BY <1>1, <1>5, <2>1 DEF QuietSockets
<1>7. QED
  BY <1>1, <1>4, <1>5, <1>6, ServerQuiet, SameRpcs, QuietKeeps

-----------------------------------------------------------------------------
(* Steps of a tab.                                                            *)

LEMMA TabQuiet ==
  ASSUME PresenceInv, NEW c \in Client, \A k \in Client : k # c => tab'[k] = tab[k],
         \A q \in ClientSock : q[1] # c => inbox'[q] = inbox[q],
         \A q \in ClientSock : q[1] # c /\ sock'[q].st = "open" => sock[q].st = "open",
         Up(c)' => tab'[c].status \in {"connecting", "open"} /\ Told(c)
  PROVE  QuietTabs
<1> SUFFICES ASSUME NEW k \in Client, k # c, Up(k)'
             PROVE  Up(k) /\ tab'[k].status \in {"connecting", "open"} /\ Unsaid(k)
  BY DEF QuietTabs, Told
<1>1. tab'[k] = tab[k] /\ Here(k)' = Here(k) /\ tab[k].n > 0 /\ HubTypeOK
  BY DEF Here, Up, PresenceInv, HubInv
<1>2. Here(k) \in ClientSock /\ Here(k)[1] = k
  BY <1>1, UpSocket
<1>3. Up(k)
  BY <1>1, <1>2 DEF Up
<1>4. tab'[k].status \in {"connecting", "open"}
  BY <1>1, <1>3 DEF PresenceInv, UpIsUsed
<1>5. Unsaid(k)
  BY <1>1, <1>2, NothingSaid
<1>6. QED
  BY <1>3, <1>4, <1>5

\* A tab that connects has a socket that is not accepted yet; one that is signed out has none.
LEMMA LeavePresence ==
  ASSUME PresenceInv, HubInv', NEW c \in Client, Connect(c) \/ PongTimeout(c) \/ Unauthorized(c)
  PROVE  PresenceInv'
<1>0. HubTypeOK /\ HubTypeOK' /\ tab \in [Client -> TabState] /\ tab[c] \in TabState
  BY HubTypes DEF PresenceInv, HubInv, EndTypes
<1>1. /\ UNCHANGED <<sock, inbox>> /\ RpcQuiet /\ DevicesQuiet
      /\ \A k \in Client : k # c => tab'[k] = tab[k]
  BY <1>0 DEF Connect, PongTimeout, Unauthorized
<1>2. ~Up(c)'
  <2>1. CASE Connect(c) \/ PongTimeout(c)
    <3>1. tab'[c].n = tab[c].n + 1 /\ tab'[c].n > 0
      BY <1>0, <2>1, ConnectSays
    <3>2. tab[c].n \in 0 .. MaxTab /\ tab'[c].n \in 0 .. MaxTab
      BY <1>0, HubTypes, TabShapes DEF EndTypes
    <3>3. tab'[c].n \in 1 .. MaxTab /\ tab'[c].n > tab[c].n
      BY <3>1, <3>2, ConnAssumption
    <3>4. sock[<<c, tab'[c].n>>].st = "none"
      BY <3>3 DEF PresenceInv, HubInv, UpgradesAreNew
    <3>5. QED
      BY <1>1, <3>4 DEF Up, Here
  <2>2. CASE Unauthorized(c)
    <3>1. tab'[c].n = tab[c].n /\ (tab[c].status = "closed" \/ sock[Here(c)].st = "none")
      BY <1>0, <2>2 DEF Unauthorized, TabState
    <3>2. ~Up(c)
      BY <3>1 DEF Up, PresenceInv, UpIsUsed
    <3>3. QED
      BY <1>1, <3>1, <3>2 DEF Up, Here
  <2>3. QED
    BY <2>1, <2>2
<1>3. QuietTabs
  BY <1>1, <1>2, TabQuiet DEF Told
<1>4. QED
  BY <1>1, <1>3, SameSockets, SameRpcs, QuietKeeps DEF DevicesQuiet

\* onopen, a change of thread and an offer say nothing about a daemon.
LEMMA SyncPresence ==
  ASSUME PresenceInv, HubInv', NEW c \in Client,
         Opened(c) \/ SendOffer(c) \/ \E th \in Thread \cup {None} : SetThread(c, th)
  PROVE  PresenceInv'
<1>0. /\ HubTypeOK /\ tab \in [Client -> TabState] /\ tab[c] \in TabState /\ sock \in [Sock -> SockState]
      /\ HasNumber
  BY HubTypes DEF PresenceInv, HubInv, EndTypes, BoxTypes
<1>1. UNCHANGED inbox /\ RpcQuiet /\ DevicesQuiet /\ tab[c].n > 0
  BY <1>0 DEF Opened, SendOffer, SetThread, HasNumber
<1>2. Here(c) \in ClientSock /\ Here(c) \in Sock
  BY <1>0, <1>1, UpSocket
<1>3. PICK x \in TabState : /\ tab' = [tab EXCEPT ![c] = x]
                            /\ x.n = tab[c].n /\ x.online = tab[c].online /\ x.status \in {"open", tab[c].status}
  <2>1. ASSUME NEW x \in TabState, x.n = tab[c].n, x.online = tab[c].online, x.status \in {"open", tab[c].status},
               SyncViewing(x, Here(c))
        PROVE  \E y \in TabState : /\ tab' = [tab EXCEPT ![c] = y]
                                   /\ y.n = tab[c].n /\ y.online = tab[c].online /\ y.status \in {"open", tab[c].status}
    <3> DEFINE y == [x EXCEPT !.sent = x.shown]
    <3>1. y \in TabState /\ y.n = x.n /\ y.online = x.online /\ y.status = x.status
      BY DEF TabState
    <3>2. tab' = [tab EXCEPT ![c] = x] \/ tab' = [tab EXCEPT ![c] = y]
      BY <2>1 DEF SyncViewing, Here
    <3> HIDE DEF y
    <3>3. QED
      BY <2>1, <3>1, <3>2
  <2>2. CASE Opened(c)
    <3> DEFINE x == [tab[c] EXCEPT !.status = "open", !.sent = None]
    <3>1. x \in TabState /\ x.n = tab[c].n /\ x.online = tab[c].online /\ x.status = "open"
      BY <1>0 DEF TabState
    <3>2. SyncViewing(x, Here(c))
      BY <2>2 DEF Opened
    <3> HIDE DEF x
    <3>3. QED
      BY <2>1, <3>1, <3>2
  <2>3. ASSUME NEW th \in Thread \cup {None}, SetThread(c, th)
        PROVE  \E y \in TabState : /\ tab' = [tab EXCEPT ![c] = y]
                                   /\ y.n = tab[c].n /\ y.online = tab[c].online /\ y.status \in {"open", tab[c].status}
    <3> DEFINE x == [tab[c] EXCEPT !.shown = th]
    <3>1. x \in TabState /\ x.n = tab[c].n /\ x.online = tab[c].online /\ x.status = tab[c].status
      BY <1>0 DEF TabState
    <3>2. SyncViewing(x, Here(c))
      BY <2>3 DEF SetThread
    <3> HIDE DEF x
    <3>3. QED
      BY <2>1, <3>1, <3>2
  <2>4. CASE SendOffer(c)
    <3> DEFINE x == [tab[c] EXCEPT !.sink = TRUE]
    <3>1. x \in TabState /\ x.n = tab[c].n /\ x.online = tab[c].online /\ x.status = tab[c].status
      BY <1>0 DEF TabState
    <3>2. tab' = [tab EXCEPT ![c] = x]
      BY <1>0, <2>4 DEF SendOffer
    <3> HIDE DEF x
    <3>3. QED
      BY <3>1, <3>2
  <2>5. QED
    BY <2>2, <2>3, <2>4
<1>4. sock' = sock \/ \E k : sock' = [sock EXCEPT ![Here(c)] = k] /\ k.st = sock[Here(c)].st
  <2>1. CASE SendOffer(c)
    BY <2>1 DEF SendOffer
  <2>2. CASE sock' = [sock EXCEPT ![Here(c)].viewing = IF sock[Here(c)].st = "open" THEN tab'[c].shown ELSE @]
    <3> DEFINE th == IF sock[Here(c)].st = "open" THEN tab'[c].shown ELSE sock[Here(c)].viewing
               k == [sock[Here(c)] EXCEPT !.viewing = th]
    <3>1. sock' = [sock EXCEPT ![Here(c)] = k]
      BY <2>2
    <3>2. k.st = sock[Here(c)].st
      BY <1>0, <1>2 DEF SockState
    <3> HIDE DEF k
    <3>3. QED
      BY <3>1, <3>2
  <2>3. ASSUME NEW z \in TabState, SyncViewing(z, Here(c))
        PROVE  sock' = sock \/ sock' = [sock EXCEPT ![Here(c)].viewing = IF sock[Here(c)].st = "open" THEN tab'[c].shown ELSE @]
    <3> DEFINE y == [z EXCEPT !.sent = z.shown]
    <3>1. y.shown = z.shown
      BY DEF TabState
    <3>2. \/ sock' = sock
          \/ tab' = [tab EXCEPT ![c] = y] /\ sock' = [sock EXCEPT ![Here(c)].viewing = IF sock[Here(c)].st = "open" THEN z.shown ELSE @]
      BY <2>3 DEF SyncViewing, Here
    <3> HIDE DEF y
    <3>3. QED
      BY <1>0, <3>1, <3>2
  <2>4. [tab[c] EXCEPT !.status = "open", !.sent = None] \in TabState
        /\ \A th \in Thread \cup {None} : [tab[c] EXCEPT !.shown = th] \in TabState
    BY <1>0 DEF TabState
  <2>5. QED
    BY <2>1, <2>2, <2>3, <2>4 DEF Opened, SetThread
<1>5. /\ tab'[c] = x /\ \A k \in Client : k # c => tab'[k] = tab[k]
      /\ \A q \in ClientSock : sock'[q].st = sock[q].st
      /\ \A s \in DeviceSock : sock'[s] = sock[s]
  <2>1. \A s \in DeviceSock : s # Here(c)
    BY <1>2, Sockets
  <2>2. QED
    BY <1>0, <1>2, <1>3, <1>4, <2>1, Sockets
<1>6. Up(c)' => Up(c) /\ tab'[c].status \in {"connecting", "open"} /\ Unsaid(c)
  <2> SUFFICES ASSUME Up(c)' PROVE Up(c) /\ tab'[c].status \in {"connecting", "open"} /\ Unsaid(c)
    OBVIOUS
  <2>1. Here(c)' = Here(c)
    BY <1>3, <1>5 DEF Here
  <2>2. Up(c)
    BY <1>1, <1>2, <1>5, <2>1 DEF Up
  <2>3. tab'[c].status \in {"connecting", "open"}
    BY <1>3, <1>5, <2>2 DEF PresenceInv, UpIsUsed
  <2>4. Unsaid(c)
    BY <1>0, <1>1, <1>3, <1>5, <2>1, NothingSaid
  <2>5. QED
    BY <2>2, <2>3, <2>4
<1>7. QuietTabs
  BY <1>1, <1>5, <1>6, TabQuiet DEF Told
<1>8. QED
  BY <1>1, <1>5, <1>7, SameSockets, SameRpcs, QuietKeeps DEF DevicesQuiet

\* What a tab shows is what it was about to show.
LEMMA HandlePresence ==
  ASSUME PresenceInv, HubInv', NEW c \in Client, Handle(c) PROVE PresenceInv'
<1> DEFINE box == inbox[Here(c)]
           m == Head(box)
           D == CASE m.t = "presence" -> m.online
                  [] m.t = "presence.update" -> (IF m.online THEN tab[c].online \cup {m.device}
                                                             ELSE tab[c].online \ {m.device})
                  [] OTHER -> tab[c].online
<1>0. /\ HubTypeOK /\ tab \in [Client -> TabState] /\ tab[c] \in TabState /\ inbox \in [Sock -> Seq(Sent)]
      /\ HasNumber
  BY HubTypes DEF PresenceInv, HubInv, EndTypes, BoxTypes
<1>1. /\ tab[c].status = "open" /\ box # <<>> /\ inbox' = [inbox EXCEPT ![Here(c)] = Tail(@)]
      /\ UNCHANGED sock /\ RpcQuiet /\ DevicesQuiet /\ tab[c].n > 0
  BY <1>0 DEF Handle, HasNumber
<1>2. Here(c) \in ClientSock /\ Here(c) \in Sock /\ box \in Seq(Sent) /\ Here(c)[1] = c
  BY <1>0, <1>1, UpSocket
<1>3. PICK x : tab' = [tab EXCEPT ![c] = x] /\ x.n = tab[c].n /\ x.status = "open" /\ x.online = D
  <2> DEFINE x == CASE m.t = "presence" -> [tab[c] EXCEPT !.online = m.online]
                    [] m.t = "presence.update" ->
                         [tab[c] EXCEPT !.online = IF m.online THEN tab[c].online \cup {m.device}
                                                               ELSE tab[c].online \ {m.device}]
                    [] OTHER -> [tab[c] EXCEPT !.sink = FALSE]
  <2>1. tab' = [tab EXCEPT ![c] = x]
    BY DEF Handle
  <2>2. x.n = tab[c].n /\ x.status = "open" /\ x.online = D
    <3>1. CASE m.t = "presence"
      BY <1>0, <1>1, <3>1 DEF TabState
    <3>2. CASE m.t = "presence.update"
      BY <1>0, <1>1, <3>2 DEF TabState
    <3>3. CASE m.t # "presence" /\ m.t # "presence.update"
      BY <1>0, <1>1, <3>3 DEF TabState
    <3>4. QED
      BY <3>1, <3>2, <3>3
  <2> HIDE DEF x, D
  <2>3. QED
    BY <2>1, <2>2
<1>4. \A d \in Device : IF About(m, d) THEN d \in D <=> SaysOnline(m, d) ELSE d \in D <=> d \in tab[c].online
  <2>1. CASE m.t = "presence"
    BY <2>1 DEF About, SaysOnline
  <2>2. CASE m.t = "presence.update"
    BY <2>2 DEF About, SaysOnline
  <2>3. CASE m.t # "presence" /\ m.t # "presence.update"
    BY <2>3 DEF About
  <2>4. QED
    BY <2>1, <2>2, <2>3
<1> HIDE DEF D, m, box
<1>5. /\ tab'[c] = x /\ Here(c)' = Here(c) /\ inbox'[Here(c)] = Tail(box)
      /\ \A k \in Client : k # c => tab'[k] = tab[k]
      /\ \A q \in ClientSock : q[1] # c => inbox'[q] = inbox[q]
  BY <1>0, <1>1, <1>2, <1>3, Sockets DEF Here, box
<1>6. Unsaid(c)
  <2> SUFFICES ASSUME NEW d \in Device PROVE WillBeShown(d, x.online, Tail(box)) <=> WillBeShown(d, tab[c].online, box)
    BY <1>5 DEF Unsaid, WillShow, box
  <2>1. IF About(Head(box), d) THEN d \in x.online <=> SaysOnline(Head(box), d) ELSE d \in x.online <=> d \in tab[c].online
    BY <1>3, <1>4 DEF m
  <2>2. QED
    BY <1>1, <1>2, <2>1, SaidFirst
<1>7. Up(c)' => Up(c) /\ tab'[c].status \in {"connecting", "open"} /\ Unsaid(c)
  BY <1>1, <1>3, <1>5, <1>6 DEF Up
<1>8. QuietTabs
  BY <1>1, <1>5, <1>7, TabQuiet DEF Told
<1>9. QED
  BY <1>1, <1>8, SameSockets, SameRpcs, QuietKeeps DEF DevicesQuiet

\* A new socket is told first who is here.
LEMMA AcceptPresence ==
  ASSUME PresenceInv, HubInv', NEW c \in Client, AcceptClient(c) PROVE PresenceInv'
<1> DEFINE m == [t |-> "presence", online |-> OnlineDevices(sock)]
           x == [tab[c] EXCEPT !.upgrade = FALSE]
<1>0. /\ HubTypeOK /\ HasNumber /\ tab \in [Client -> TabState] /\ tab[c] \in TabState
      /\ sock \in [Sock -> SockState] /\ inbox \in [Sock -> Seq(Sent)]
  BY HubTypes DEF PresenceInv, HubInv, EndTypes, BoxTypes
<1>1. /\ tab[c].status = "connecting" /\ sock' = [sock EXCEPT ![Here(c)].st = "open"]
      /\ inbox' = [inbox EXCEPT ![Here(c)] = <<m>>] /\ tab' = [tab EXCEPT ![c] = x]
      /\ RpcQuiet /\ DevicesQuiet /\ tab[c].n > 0
  BY <1>0 DEF AcceptClient, HasNumber
<1>2. Here(c) \in ClientSock /\ Here(c) \in Sock /\ Here(c)[1] = c
  BY <1>0, <1>1, UpSocket
<1>3. x.n = tab[c].n /\ x.status = "connecting"
  BY <1>0, <1>1 DEF TabState
<1>4. m.t = "presence" /\ m.online = OnlineDevices(sock)
  OBVIOUS
<1> HIDE DEF m, x
<1>5. /\ tab'[c] = x /\ Here(c)' = Here(c) /\ inbox'[Here(c)] = <<m>>
      /\ \A k \in Client : k # c => tab'[k] = tab[k]
      /\ \A q \in ClientSock : q[1] # c => inbox'[q] = inbox[q] /\ sock'[q] = sock[q]
      /\ \A s \in DeviceSock : sock'[s] = sock[s]
  BY <1>0, <1>1, <1>2, <1>3, Sockets DEF Here
<1>6. WillShow(c)' = OnlineDevices(sock)
  <2>1. \A d : WillBeShown(d, x.online, <<m>>) <=> d \in OnlineDevices(sock)
    BY <1>4, SaidAtOnce
  <2>2. OnlineDevices(sock) \subseteq Device
    BY DEF OnlineDevices
  <2>3. WillShow(c)' = {d \in Device : WillBeShown(d, x.online, <<m>>)}
    BY <1>5 DEF WillShow
  <2>4. QED
    BY <2>1, <2>2, <2>3
<1>7. QuietTabs
  BY <1>3, <1>5, <1>6, TabQuiet DEF Told
<1>8. QED
  BY <1>1, <1>5, <1>7, SameSockets, SameRpcs, QuietKeeps DEF DevicesQuiet

-----------------------------------------------------------------------------
(* Steps that tell of a daemon.                                               *)

\* A new socket of a daemon is the next in its row.
LEMMA NextSocket ==
  ASSUME HubTypeOK, InARow, NewSpeaks, NEW d \in Device,
         NEW used, used = {n \in 1 .. MaxConn : sock[<<d, n>>].st # "none"}, Cardinality(used) < MaxConn
  PROVE  /\ Cardinality(used) + 1 \in 1 .. MaxConn
         /\ \A n \in 1 .. MaxConn : sock[<<d, n>>].st = "none" <=> n >= Cardinality(used) + 1
<1> DEFINE k == Cardinality(used)
<1>1. used \in SUBSET (1 .. MaxConn) /\ IsFiniteSet(1 .. MaxConn) /\ MaxConn \in Nat
  BY FS_Interval, ConnAssumption
<1>2. k \in Nat /\ IsFiniteSet(used)
  BY <1>1, FS_Subset, FS_CardinalityType
<1>3. ASSUME NEW n \in 1 .. MaxConn, n \in used PROVE n <= k
  <2>1. 1 .. n \subseteq used
    BY <1>1, <1>3 DEF InARow
  <2>2. Cardinality(1 .. n) = n
    BY <1>1, FS_Interval
  <2>3. QED
    BY <1>2, <2>1, <2>2, FS_Subset
<1>4. ASSUME NEW n \in 1 .. MaxConn, n \notin used PROVE n >= k + 1
  <2>1. used \subseteq 1 .. (n - 1)
    BY <1>1, <1>4 DEF InARow
  <2>2. Cardinality(1 .. (n - 1)) = n - 1 /\ IsFiniteSet(1 .. (n - 1))
    BY <1>1, FS_Interval
  <2>3. k <= n - 1
    BY <2>1, <2>2, FS_Subset, ZenonT(30)
  <2>4. QED
    BY <1>1, <1>2, <2>3
<1> HIDE DEF k
<1>5. k + 1 \in 1 .. MaxConn
  BY <1>1, <1>2 DEF k
<1>6. \A n \in 1 .. MaxConn : sock[<<d, n>>].st = "none" <=> n >= k + 1
  BY <1>1, <1>2, <1>3, <1>4
<1>7. QED
  BY <1>5, <1>6 DEF k

LEMMA UpStays ==
  ASSUME HubTypeOK, TabsQuiet, \A q \in ClientSock : sock'[q].st = sock[q].st, NEW c \in Client
  PROVE  Here(c)' = Here(c) /\ (Up(c)' <=> Up(c))
<1>1. tab' = tab /\ Here(c)' = Here(c)
  BY DEF TabsQuiet, Here
<1>2. tab[c].n > 0 => Here(c) \in ClientSock
  BY UpSocket
<1>3. QED
  BY <1>1, <1>2 DEF Up

LEMMA TellsAll ==
  ASSUME HubTypeOK, TabsQuiet, \A q \in ClientSock : sock'[q].st = sock[q].st, NEW c \in Client, Up(c)',
         NEW d \in Device, NEW on \in BOOLEAN,
         \A q \in ClientSock : inbox'[q] = Broadcast(sock', inbox, PresenceAt(d, on))[q]
  PROVE  Said(c, d, on)
<1>1. tab' = tab /\ Here(c)' = Here(c) /\ tab[c].n > 0 /\ sock'[Here(c)].st = "open"
  BY DEF TabsQuiet, Here, Up
<1>2. Here(c) \in ClientSock
  BY <1>1, UpSocket
<1>3. QED
  BY <1>1, <1>2, BroadcastSaid

LEMMA AcceptDevicePresence ==
  ASSUME PresenceInv, HubInv', NEW d \in Device, AcceptDevice(d) PROVE PresenceInv'
<1> DEFINE used == {n \in 1 .. MaxConn : sock[<<d, n>>].st # "none"}
           s == <<d, Cardinality(used) + 1>>
           old == {<<d, n>> : n \in used}
           shut == Closed(sock, old)
<1>0. /\ HubTypeOK /\ InARow /\ NewSpeaks /\ sock \in [Sock -> SockState] /\ held \in [Device -> 0 .. MaxConn]
  BY HubTypes DEF PresenceInv, HubInv, BoxTypes, EndTypes
<1>1. /\ Cardinality(used) < MaxConn /\ sock' = [shut EXCEPT ![s].st = "open"]
      /\ inbox' = Broadcast(sock', inbox, PresenceAt(d, TRUE)) /\ held' = [held EXCEPT ![d] = s[2]]
      /\ naps' = naps /\ RpcQuiet /\ TabsQuiet
  BY DEF AcceptDevice
<1>2. /\ s[2] \in 1 .. MaxConn /\ s = <<d, s[2]>>
      /\ \A n \in 1 .. MaxConn : sock[<<d, n>>].st = "none" <=> n >= s[2]
  BY <1>0, <1>1, NextSocket
<1>3. s \in DeviceSock /\ s \in Sock /\ s \notin old /\ sock[s].st = "none" /\ s[1] = d
  <2>1. s \in DeviceSock /\ s \in Sock /\ s[1] = d
    BY <1>2, Sockets
  <2>2. sock[<<d, s[2]>>].st = "none" /\ s[2] \in Nat
    BY <1>2, ConnAssumption
  <2>3. \A n \in used : sock[<<d, n>>].st # "none"
    OBVIOUS
  <2> HIDE DEF s, used
  <2>4. s \notin old
    BY <1>2, <2>2, <2>3
  <2>5. QED
    BY <1>2, <2>1, <2>2, <2>4
<1>4. ~sock[s].silent
  BY <1>0, <1>3 DEF NewSpeaks
<1>5. \A q \in old : q[1] = d
  <2> HIDE DEF used
  <2>1. QED
    OBVIOUS
<1> HIDE DEF s, old
<1>6. /\ shut \in [Sock -> SockState] /\ shut[s] = sock[s]
      /\ \A q \in Sock : shut[q] = sock[q] \/ (sock[q].st = "open" /\ shut[q].st = "closing")
      /\ \A q \in ClientSock : shut[q] = sock[q]
  <2>1. \A q \in ClientSock : q \notin old
    <3>1. \A q \in ClientSock : q[1] # d
      BY KindAssumption DEF ClientSock
    <3>2. QED
      BY <1>5, <3>1
  <2>2. QED
    BY <1>0, <1>3, <2>1, ClosedSays, Sockets DEF Closed
<1> HIDE DEF shut
<1>7. /\ sock'[s].st = "open" /\ ~sock'[s].silent
      /\ \A q \in Sock : q # s => sock'[q] = sock[q] \/ (sock[q].st = "open" /\ sock'[q].st = "closing")
      /\ \A q \in ClientSock : sock'[q] = sock[q]
      /\ \A q \in DeviceSock : q # s /\ sock'[q].st = "none" => sock'[q] = sock[q]
  BY <1>1, <1>3, <1>4, <1>6, Sockets DEF SockState
<1>8. \A c \in Client : Up(c)' <=> Up(c)
  BY <1>0, <1>1, <1>7, UpStays
<1>9. \A c \in Client : Up(c)' => Said(c, d, TRUE)
  BY <1>0, <1>1, <1>7, TellsAll
<1>10. UpIsUsed'
  BY <1>1, <1>8 DEF UpIsUsed, TabsQuiet, PresenceInv
<1>11. InARow' /\ NewSpeaks'
  <2>1. \A q \in DeviceSock : sock'[q].st = "none" <=> sock[q].st = "none" /\ q # s
    BY <1>7, Sockets
  <2>2. NewSpeaks'
    BY <1>0, <1>7, <2>1 DEF NewSpeaks
  <2>3. ASSUME NEW e \in Device, NEW n \in 1 .. MaxConn, NEW m \in 1 .. MaxConn,
               n < m, sock'[<<e, n>>].st = "none"
        PROVE  sock'[<<e, m>>].st = "none"
    <3>1. <<e, n>> \in DeviceSock /\ <<e, m>> \in DeviceSock
      BY Sockets
    <3>2. sock[<<e, n>>].st = "none" /\ sock[<<e, m>>].st = "none"
      BY <1>0, <2>1, <2>3, <3>1 DEF InARow
    <3>3. <<e, m>> # s
      BY <1>2, <1>3, <2>3, <3>2
    <3>4. QED
      BY <2>1, <3>1, <3>2, <3>3
  <2>4. QED
    BY <2>2, <2>3 DEF InARow
<1>12. \A e \in Device : Present(e) => Present(e)'
  BY <1>7, Sockets DEF Present
<1>13. ShownArePresent'
  <2> SUFFICES ASSUME NEW c \in Client, Up(c)', NEW e \in WillShow(c)' PROVE Present(e)'
    BY DEF ShownArePresent
  <2>1. e \in Device
    BY DEF WillShow
  <2>2. CASE e = d
    BY <1>2, <1>7, <2>2 DEF Present
  <2>3. CASE e # d
    BY <1>8, <1>9, <1>12, <2>1, <2>3 DEF Said, PresenceInv, ShownArePresent
  <2>4. QED
    BY <2>2, <2>3
<1>14. HeldAreShown'
  <2> SUFFICES ASSUME naps' = 0, NEW q \in DeviceSock, sock'[q].st = "open", held'[q[1]] = q[2]
               PROVE  ~sock'[q].silent /\ \A c \in Client : Up(c)' => q[1] \in WillShow(c)'
    BY DEF HeldAreShown
  <2>1. CASE q[1] = d
    <3>1. q = s
      BY <1>0, <1>1, <1>2, <2>1, Sockets
    <3>2. QED
      BY <1>3, <1>7, <1>9, <3>1 DEF Said
  <2>2. CASE q[1] # d
    <3>1. q # s /\ held[q[1]] = q[2] /\ sock'[q] = sock[q] /\ q[1] \in Device
      BY <1>0, <1>1, <1>3, <1>7, <2>2, Sockets
    <3>2. ~sock[q].silent /\ \A c \in Client : Up(c) => q[1] \in WillShow(c)
      BY <1>1, <3>1 DEF PresenceInv, HeldAreShown
    <3>3. QED
      BY <1>8, <1>9, <2>2, <3>1, <3>2 DEF Said
  <2>3. QED
    BY <2>1, <2>2
<1>15. RpcHasSocket'
  <2> SUFFICES ASSUME NEW r \in Rpc, pending[r] # None
               PROVE  \E n \in 1 .. MaxConn : sock'[<<pending[r], n>>].st \in {"open", "closing"}
    BY <1>1 DEF RpcHasSocket, RpcQuiet
  <2>1. pending[r] \in Device /\ Present(pending[r])
    BY <1>0, HubTypes DEF RpcTypes, PresenceInv, RpcHasSocket, Present
  <2>2. QED
    BY <1>12, <2>1 DEF Present
<1>16. QED
  BY <1>10, <1>11, <1>13, <1>14, <1>15 DEF PresenceInv

LEMMA RevokeDevicePresence ==
  ASSUME PresenceInv, HubInv', NEW d \in Device, RevokeDevice(d) PROVE PresenceInv'
<1> DEFINE S == {d} \X (1 .. MaxConn)
<1>0. HubTypeOK /\ sock \in [Sock -> SockState]
  BY HubTypes DEF PresenceInv, HubInv, BoxTypes
<1>1. /\ sock' = Closed(sock, S) /\ inbox' = Broadcast(sock', inbox, PresenceAt(d, FALSE))
      /\ RpcQuiet /\ TabsQuiet /\ DevicesQuiet
  BY DEF RevokeDevice
<1>2. /\ \A q \in Sock : sock'[q] = sock[q] \/ (sock[q].st = "open" /\ sock'[q].st = "closing" /\ sock'[q].silent = sock[q].silent)
      /\ \A q \in ClientSock : sock'[q] = sock[q]
      /\ \A q \in DeviceSock : q[1] = d => sock'[q].st # "open"
  <2>1. \A q \in ClientSock : q \notin S
    BY KindAssumption DEF ClientSock
  <2>2. \A q \in DeviceSock : q[1] = d => q \in S
    BY Sockets
  <2> HIDE DEF S
  <2>3. QED
    BY <1>0, <1>1, <2>1, <2>2, Sockets DEF Closed, SockState
<1>3. QuietSockets
  BY <1>1, <1>2, Sockets DEF QuietSockets, DevicesQuiet
<1>4. \A c \in Client : Up(c)' <=> Up(c)
  BY <1>0, <1>1, <1>2, UpStays
<1>5. \A c \in Client : Up(c)' => Said(c, d, FALSE)
  BY <1>0, <1>1, <1>2, TellsAll
<1>6. UpIsUsed' /\ InARow' /\ NewSpeaks'
  BY <1>1, <1>3, <1>4, RowKept DEF UpIsUsed, TabsQuiet, PresenceInv
<1>7. ShownArePresent'
  <2> SUFFICES ASSUME NEW c \in Client, Up(c)', NEW e \in WillShow(c)' PROVE Present(e)'
    BY DEF ShownArePresent
  <2>1. e \in Device /\ e \in WillShow(c)
    BY <1>5 DEF Said, WillShow
  <2>2. QED
    BY <1>3, <1>4, <2>1, PresentKept DEF PresenceInv, ShownArePresent
<1>8. HeldAreShown'
  <2> SUFFICES ASSUME naps' = 0, NEW q \in DeviceSock, sock'[q].st = "open", held'[q[1]] = q[2]
               PROVE  ~sock'[q].silent /\ \A c \in Client : Up(c)' => q[1] \in WillShow(c)'
    BY DEF HeldAreShown
  <2>1. q[1] \in Device /\ q[1] # d /\ sock'[q] = sock[q] /\ held[q[1]] = q[2] /\ naps = 0
    BY <1>1, <1>2, Sockets DEF DevicesQuiet
  <2>2. QED
    BY <1>4, <1>5, <2>1 DEF Said, PresenceInv, HeldAreShown
<1>9. RpcHasSocket'
  <2> SUFFICES ASSUME NEW r \in Rpc, pending[r] # None
               PROVE  \E n \in 1 .. MaxConn : sock'[<<pending[r], n>>].st \in {"open", "closing"}
    BY <1>1 DEF RpcHasSocket, RpcQuiet
  <2>1. pending[r] \in Device /\ Present(pending[r])
    BY <1>0, HubTypes DEF RpcTypes, PresenceInv, RpcHasSocket, Present
  <2>2. QED
    BY <1>3, <2>1, PresentKept DEF Present
<1>10. QED
  BY <1>6, <1>7, <1>8, <1>9 DEF PresenceInv

\* onGone, once the socket is closed or gone: the device is offline unless another of
\* its sockets is live.
LEMMA GonePresence ==
  ASSUME PresenceInv, HubInv', NEW s \in DeviceSock, OnGone(sock', s), TabsQuiet,
         sock[s].st \in {"open", "closing"}, sock'[s].st \in {"closing", "gone"},
         \A q \in Sock : q # s => sock'[q] = sock[q],
         naps' = naps, \A q \in DeviceSock : held'[q[1]] = q[2] => held[q[1]] = q[2]
  PROVE  PresenceInv'
<1> DEFINE d == s[1]
           others == SocketsOf(sock', d) \ {s}
<1>0. /\ HubTypeOK /\ d \in Device /\ IsDevice(s) /\ s \in Sock /\ inbox \in [Sock -> Seq(Sent)]
      /\ \A q \in ClientSock : q \in Sock /\ q # s
      /\ \A q \in DeviceSock : q \in Sock /\ q[1] \in Device
  BY HubTypes, Sockets DEF PresenceInv, HubInv, BoxTypes
<1>1. \A c \in Client : Up(c)' <=> Up(c)
  BY <1>0, UpStays
<1>2. UpIsUsed'
  BY <1>1 DEF UpIsUsed, TabsQuiet, PresenceInv
<1>3. InARow' /\ NewSpeaks'
  <2>1. ASSUME NEW q \in DeviceSock
        PROVE  /\ sock'[q].st = "none" <=> sock[q].st = "none"
               /\ sock'[q].st = "none" => sock'[q] = sock[q]
    BY <1>0, q = s \/ q # s
  <2>2. QED
    BY <2>1, Sockets DEF InARow, NewSpeaks, PresenceInv
<1>4. ASSUME NEW e \in Device, e # d, Present(e) PROVE Present(e)'
  <2>1. \A n \in 1 .. MaxConn : <<e, n>> \in Sock /\ <<e, n>> # s
    BY <1>4, Sockets
  <2>2. QED
    BY <1>4, <2>1 DEF Present
<1>5. others # {} => Present(d)'
  BY <1>0 DEF SocketsOf, Live, Present
<1>6. CASE others # {}
  <2>1. inbox' = [inbox EXCEPT ![s] = <<>>] /\ UNCHANGED <<pending, result>>
    BY <1>6 DEF OnGone
  <2>2. \A c \in Client : Up(c)' => Unsaid(c)
    BY <1>0, <1>1, <2>1, UpSocket, NothingSaid DEF Up, Here, TabsQuiet
  <2>3. \A e \in Device : Present(e) => Present(e)'
    BY <1>4, <1>5, <1>6
  <2>4. ShownArePresent'
    <3> SUFFICES ASSUME NEW c \in Client, Up(c)', NEW e \in WillShow(c)' PROVE Present(e)'
      BY DEF ShownArePresent
    <3>1. e \in Device
      BY DEF WillShow
    <3>2. QED
      BY <1>1, <2>2, <2>3, <3>1 DEF Unsaid, PresenceInv, ShownArePresent
  <2>5. HeldAreShown'
    <3> SUFFICES ASSUME naps' = 0, NEW q \in DeviceSock, sock'[q].st = "open", held'[q[1]] = q[2]
                 PROVE  ~sock'[q].silent /\ \A c \in Client : Up(c)' => q[1] \in WillShow(c)'
      BY DEF HeldAreShown
    <3>1. sock'[q] = sock[q] /\ held[q[1]] = q[2] /\ q[1] \in Device
      BY <1>0
    <3>2. QED
      BY <1>1, <2>2, <3>1 DEF Unsaid, PresenceInv, HeldAreShown
  <2>6. RpcHasSocket'
    <3> SUFFICES ASSUME NEW r \in Rpc, pending[r] # None
                 PROVE  \E n \in 1 .. MaxConn : sock'[<<pending[r], n>>].st \in {"open", "closing"}
      BY <2>1 DEF RpcHasSocket
    <3>1. pending[r] \in Device /\ Present(pending[r])
      BY <1>0, HubTypes DEF RpcTypes, PresenceInv, RpcHasSocket, Present
    <3>2. QED
      BY <2>3, <3>1 DEF Present
  <2>7. QED
    BY <1>2, <1>3, <2>4, <2>5, <2>6 DEF PresenceInv
<1>7. CASE others = {}
  <2> DEFINE box == Broadcast(sock', inbox, PresenceAt(d, FALSE))
  <2>1. /\ pending' = [r \in Rpc |-> IF pending[r] = d THEN None ELSE pending[r]]
        /\ inbox' = [box EXCEPT ![s] = <<>>]
    <3>1. ~(~IsDevice(s) \/ SocketsOf(sock', s[1]) \ {s} # {})
      BY <1>0, <1>7
    <3>2. QED
      BY <3>1 DEF OnGone
  <2>2. \A q \in ClientSock : inbox'[q] = box[q]
    BY <1>0, <2>1 DEF Broadcast, SendTo
  <2>3. \A c \in Client : Up(c)' => Said(c, d, FALSE)
    BY <1>0, <2>2, TellsAll
  <2>4. ShownArePresent'
    <3> SUFFICES ASSUME NEW c \in Client, Up(c)', NEW e \in WillShow(c)' PROVE Present(e)'
      BY DEF ShownArePresent
    <3>1. e \in Device /\ e # d /\ e \in WillShow(c)
      BY <1>0, <2>3 DEF WillShow, Said
    <3>2. QED
      BY <1>1, <1>4, <3>1 DEF PresenceInv, ShownArePresent
  <2>5. HeldAreShown'
    <3> SUFFICES ASSUME naps' = 0, NEW q \in DeviceSock, sock'[q].st = "open", held'[q[1]] = q[2]
                 PROVE  ~sock'[q].silent /\ \A c \in Client : Up(c)' => q[1] \in WillShow(c)'
      BY DEF HeldAreShown
    <3>1. q # s /\ sock'[q] = sock[q] /\ held[q[1]] = q[2] /\ q[1] \in Device
      BY <1>0
    <3>2. ~sock[q].silent /\ \A c \in Client : Up(c) => q[1] \in WillShow(c)
      BY <3>1 DEF PresenceInv, HeldAreShown
    <3>3. q[1] # d
      BY <1>7, <3>1, <3>2, Sockets DEF SocketsOf, Live
    <3>4. QED
      BY <1>1, <2>3, <3>1, <3>2, <3>3 DEF Said
  <2>6. RpcHasSocket'
    <3> SUFFICES ASSUME NEW r \in Rpc, pending[r] # None, pending[r] # d
                 PROVE  \E n \in 1 .. MaxConn : sock'[<<pending[r], n>>].st \in {"open", "closing"}
      BY <2>1 DEF RpcHasSocket
    <3>1. pending[r] \in Device /\ Present(pending[r])
      BY <1>0, HubTypes DEF RpcTypes, PresenceInv, RpcHasSocket, Present
    <3>2. QED
      BY <1>4, <3>1 DEF Present
  <2>7. QED
    BY <1>2, <1>3, <2>4, <2>5, <2>6 DEF PresenceInv
<1>8. QED
  BY <1>6, <1>7

LEMMA SweepPresence ==
  ASSUME PresenceInv, HubInv', NEW h \in Handler, NEW s \in DeviceSock, SweepCloses(h, s) PROVE PresenceInv'
<1>0. HubTypeOK /\ sock \in [Sock -> SockState] /\ s \in Sock
  BY HubTypes, Sockets DEF PresenceInv, HubInv, BoxTypes
<1>1. /\ sock[s].st = "open" /\ sock' = Closed(sock, {s}) /\ OnGone(Closed(sock, {s}), s)
      /\ TabsQuiet /\ DevicesQuiet
  BY DEF SweepCloses
<1>2. sock'[s].st = "closing" /\ \A q \in Sock : q # s => sock'[q] = sock[q]
  BY <1>0, <1>1 DEF Closed, SockState
<1>3. OnGone(sock', s)
  BY <1>1
<1>4. QED
  BY <1>1, <1>2, <1>3, GonePresence DEF DevicesQuiet

LEMMA SocketGonePresence ==
  ASSUME PresenceInv, HubInv', NEW s \in Sock, SocketGone(s) PROVE PresenceInv'
<1> DEFINE dead == [st |-> "gone", silent |-> FALSE, rpc |-> FALSE, viewing |-> None]
<1>0. /\ HubTypeOK /\ sock \in [Sock -> SockState] /\ inbox \in [Sock -> Seq(Sent)] /\ tab \in [Client -> TabState]
      /\ held \in [Device -> 0 .. MaxConn]
  BY HubTypes DEF PresenceInv, HubInv, BoxTypes, EndTypes
<1>1. /\ sock[s].st \in {"open", "closing"} /\ sock' = [sock EXCEPT ![s] = dead] /\ OnGone([sock EXCEPT ![s] = dead], s)
      /\ held' = IF IsDevice(s) /\ held[s[1]] = s[2] THEN [held EXCEPT ![s[1]] = 0] ELSE held
      /\ tab' = IF ~IsDevice(s) /\ tab[s[1]].n = s[2] /\ tab[s[1]].status \in {"connecting", "open"}
                THEN [tab EXCEPT ![s[1]].status = "closed", ![s[1]].sink = FALSE]
                ELSE tab
      /\ UNCHANGED naps
  BY DEF SocketGone
<1>2. dead.st = "gone"
  OBVIOUS
<1> HIDE DEF dead
<1>3. sock'[s].st = "gone" /\ (\A q \in Sock : q # s => sock'[q] = sock[q]) /\ OnGone(sock', s)
  BY <1>0, <1>1, <1>2
<1>4. CASE IsDevice(s)
  <2>1. s \in DeviceSock /\ TabsQuiet
    BY <1>1, <1>4, Sockets DEF TabsQuiet
  <2>2. \A q \in DeviceSock : held'[q[1]] = q[2] => held[q[1]] = q[2]
    <3>1. \A q \in DeviceSock : q[1] \in Device /\ q[2] # 0
      BY Sockets, ConnAssumption
    <3>2. QED
      BY <1>0, <1>1, <3>1
  <2>3. QED
    BY <1>1, <1>3, <2>1, <2>2, GonePresence
<1>5. CASE ~IsDevice(s)
  <2> DEFINE c == s[1]
  <2>1. s \in ClientSock /\ c \in Client /\ s = <<c, s[2]>> /\ (\A q \in DeviceSock : q \in Sock /\ q # s)
        /\ \A q \in ClientSock : q \in Sock
    BY <1>5, Sockets DEF Sock
  <2>2. inbox' = [inbox EXCEPT ![s] = <<>>] /\ UNCHANGED <<pending, result>>
    BY <1>3, <1>5 DEF OnGone
  <2>3. /\ \A k \in Client : k # c => tab'[k] = tab[k]
        /\ \A q \in ClientSock : q[1] # c => inbox'[q] = inbox[q] /\ sock'[q] = sock[q]
    BY <1>0, <1>1, <1>3, <2>1, <2>2
  <2>4. tab'[c].n = tab[c].n /\ tab'[c].online = tab[c].online
        /\ (tab'[c].status = tab[c].status \/ tab[c].n = s[2])
    BY <1>0, <1>1, <2>1 DEF TabState
  <2>5. Up(c)' => tab'[c].status \in {"connecting", "open"} /\ Told(c)
    <3> SUFFICES ASSUME Up(c)' PROVE tab'[c].status \in {"connecting", "open"} /\ Told(c)
      OBVIOUS
    <3>1. Here(c)' = Here(c) /\ tab[c].n > 0
      BY <2>4 DEF Here, Up
    <3>2. Here(c) \in ClientSock /\ Here(c) = <<c, tab[c].n>>
      <4>1. tab[c].n > 0
        BY <3>1
      <4>2. QED
        BY <1>0, <2>1, <4>1, TabSocket
    <3>3. Here(c) # s
      BY <1>3, <3>1 DEF Up
    <3>4. Up(c) /\ inbox'[Here(c)] = inbox[Here(c)]
      BY <1>0, <1>3, <2>1, <2>2, <3>1, <3>2, <3>3 DEF Up
    <3>5. tab'[c].status = tab[c].status
      BY <2>1, <2>4, <3>2, <3>3
    <3>6. Unsaid(c)
      BY <1>0, <2>1, <2>4, <3>1, <3>4, NothingSaid
    <3>7. tab[c].status \in {"connecting", "open"}
      BY <2>1, <3>4 DEF PresenceInv, UpIsUsed
    <3>8. QED
      BY <3>4, <3>5, <3>6, <3>7 DEF Told
  <2> HIDE DEF c
  <2>6. QuietTabs
    BY <2>1, <2>3, <2>5, TabQuiet
  <2>7. \A q \in DeviceSock : sock'[q] = sock[q]
    BY <1>3, <2>1
  <2>8. QED
    BY <1>1, <1>5, <2>2, <2>6, <2>7, SameSockets, SameRpcs, QuietKeeps DEF RpcQuiet
<1>6. QED
  BY <1>4, <1>5

LEMMA PresenceStep ==
  ASSUME PresenceInv, [HubNext]_hubVars PROVE PresenceInv'
<1>0. HubInv'
  BY HubStep DEF PresenceInv
<1>1. CASE DeviceStep
  BY <1>0, <1>1, AcceptDevicePresence, RevokeDevicePresence, SocketPresence, RpcPresence, ServerPresence,
     SocketGonePresence DEF DeviceStep
<1>2. CASE SweepStep
  BY <1>0, <1>2, ServerPresence, SweepPresence DEF SweepStep
<1>3. ASSUME NEW c \in Client, TabStep(c) PROVE PresenceInv'
  BY <1>0, <1>3, LeavePresence, AcceptPresence, SyncPresence, HandlePresence DEF TabStep
<1>4. ASSUME NEW c \in Dialer, DialerStep(c) PROVE PresenceInv'
  <2>1. c \in Client
    BY ConnAssumption
  <2>2. QED
    BY <1>0, <1>4, <2>1, LeavePresence, SyncPresence, ServerPresence DEF DialerStep
<1>5. CASE UNCHANGED hubVars
  BY <1>0, <1>5 DEF hubVars, PresenceInv, UpIsUsed, InARow, NewSpeaks, ShownArePresent, HeldAreShown, RpcHasSocket,
     Up, Here, Present, WillShow
<1>6. QED
  BY <1>1, <1>2, <1>3, <1>4, <1>5 DEF HubNext

(* What a connected tab shows, or will once it has read what it was sent, are    *)
(* daemons that have a socket here; nobody who is here is left out unless silent *)
(* sockets came back; no request waits for a daemon that has none.               *)
THEOREM HubPresenceIsTrue == HubSpec => []HubKnowsWhoIsHere
<1>1. HubInit => PresenceInv
  <2> SUFFICES ASSUME HubInit PROVE PresenceInv
    OBVIOUS
  <2>1. /\ \A c \in Client : ~Up(c)
        /\ \A s \in DeviceSock : sock[s].st = "none" /\ ~sock[s].silent
        /\ \A r \in Rpc : pending[r] = None
    BY Sockets DEF HubInit, Up
  <2>2. QED
    BY <2>1, HubStart, Sockets DEF PresenceInv, UpIsUsed, InARow, NewSpeaks, ShownArePresent, HeldAreShown, RpcHasSocket
<1>2. PresenceInv /\ [HubNext]_hubVars => PresenceInv'
  BY PresenceStep
<1>3. PresenceInv => HubKnowsWhoIsHere
  <2> SUFFICES ASSUME PresenceInv PROVE HubKnowsWhoIsHere
    OBVIOUS
  <2>1. ASSUME NEW c \in Client, Connected(c) PROVE Up(c)
    BY <2>1 DEF Connected, Up, PresenceInv, HubInv, HasNumber
  <2>2. ASSUME NEW d \in Device, NEW s \in SocketsOf(sock, d)
        PROVE  s \in DeviceSock /\ s[1] = d /\ sock[s].st = "open"
    BY <2>2, Sockets DEF SocketsOf, Live
  <2>3. PresenceIsTrue
    BY <2>1, <2>2 DEF PresenceIsTrue, PresenceInv, ShownArePresent, HeldAreShown, Present
  <2>4. QED
    BY <2>3 DEF HubKnowsWhoIsHere, PresenceInv
<1>4. QED
  BY <1>1, <1>2, <1>3, PTL DEF HubSpec

-----------------------------------------------------------------------------
(* Dictation: whatever the recorder has yet to hand over, whatever waits for the *)
(* socket and whatever went over it is, in this order, the recording.           *)

\* Chunks the recorder has yet to hand over, and how many it has.
Left(d) == IF d.rec = "inactive" /\ d.queue # <<>> THEN Len(d.queue) - 1 ELSE Len(d.queue)
Handed(d) == d.chunks - Left(d)

QueueFine(d) ==
  /\ Left(d) <= d.chunks
  /\ \A i \in 1 .. Left(d) : d.queue[i] = Handed(d) + i
  /\ d.rec = "inactive" /\ d.queue # <<>> => d.queue[Len(d.queue)] = Stop
  /\ d.rec = "recording" => d.chunks < MaxChunk

\* Nothing but the first n chunks, and each of them.
Carries(s, n) ==
  /\ InOrder(s)
  /\ \A i \in DOMAIN s : s[i] <= n
  /\ \A c \in 1 .. n : \E j \in DOMAIN s : s[j] = c

OnItsWay(d) ==
  /\ d.discard => d.done
  /\ d.done => d.ws = "closed"
  /\ d.ws # "none"
  /\ d.ws = "connecting" => /\ d.sent = <<>> /\ Len(d.pending) = Handed(d)
                            /\ \A i \in DOMAIN d.pending : d.pending[i] = i
  /\ d.ws = "open" => Carries(d.sent, Handed(d))

GivenOnce(d) == d.given <= 1 /\ (~d.done => d.given = 0)

Recording(d) == d.rec # "none" /\ ~d.await /\ QueueFine(d) /\ InOrder(d.sent) /\ OnItsWay(d) /\ GivenOnce(d)
Heeded(d) == d \in {NoDict, [NoDict EXCEPT !.await = TRUE]} \/ Recording(d)

DictInv ==
  /\ DictTypeOK
  /\ \A a \in Dict : Heeded(dictation[a]) /\ (a > dictations => dictation[a] = NoDict)
  /\ currentCall # 0 => dictation[currentCall].rec # "none"

LEMMA NoneIsTyped == NoDict \in DictState /\ [NoDict EXCEPT !.await = TRUE] \in DictState
<1>1. 0 \in 0 .. MaxChunk /\ 0 \in 0 .. 2
  BY DictationAssumption
<1>2. <<>> \in Seq(Chunk) /\ <<>> \in Seq(Chunk \cup {Stop})
  OBVIOUS
<1>3. QED
  BY <1>1, <1>2 DEF NoDict, DictState

LEMMA StoppedKeeps ==
  ASSUME NEW d \in DictState, QueueFine(d), d.rec # "none"
  PROVE  /\ RecStopped(d) \in DictState /\ QueueFine(RecStopped(d)) /\ Handed(RecStopped(d)) = Handed(d)
         /\ RecStopped(d).rec = "inactive"
         /\ \A f \in {"await", "mic", "ws", "pending", "sent", "heard", "discard", "done", "finishing", "given"} :
              RecStopped(d)[f] = d[f]
<1> DEFINE n == d.chunks + 1
           q == d.queue \o <<n, Stop>>
           r == [d EXCEPT !.rec = "inactive", !.chunks = n, !.queue = q]
<1>1. CASE d.rec # "recording"
  BY <1>1 DEF RecStopped, DictState
<1>2. CASE d.rec = "recording"
  <2>1. n \in Chunk /\ d.queue \in Seq(Chunk \cup {Stop}) /\ d.chunks \in Nat
    BY <1>2, DictationAssumption DEF QueueFine, DictState, Chunk
  <2>2. <<n, Stop>> \in Seq(Chunk \cup {Stop}) /\ Len(<<n, Stop>>) = 2
    BY <2>1
  <2>3. /\ q \in Seq(Chunk \cup {Stop}) /\ Len(q) = Len(d.queue) + 2 /\ q # <<>>
        /\ \A i \in 1 .. Len(d.queue) : q[i] = d.queue[i]
        /\ q[Len(d.queue) + 1] = n /\ q[Len(d.queue) + 2] = Stop
    BY <2>1, <2>2
  <2> HIDE DEF q
  <2>k. n \in 0 .. MaxChunk
    BY <2>1 DEF Chunk
  <2>m. r \in DictState
    BY <2>k, <2>3 DEF DictState
  <2>4. /\ r.queue = q /\ r.rec = "inactive" /\ r.chunks = n /\ r \in DictState
        /\ \A f \in {"await", "mic", "ws", "pending", "sent", "heard", "discard", "done", "finishing", "given"} :
             r[f] = d[f]
    BY <2>m DEF DictState
  <2>5. RecStopped(d) = r
    BY <1>2 DEF RecStopped, q
  <2> HIDE DEF r
  <2>6. Left(d) = Len(d.queue) /\ Left(r) = Len(d.queue) + 1 /\ Len(d.queue) \in Nat
    BY <1>2, <2>1, <2>3, <2>4 DEF Left
  <2>7. Handed(r) = Handed(d) /\ Handed(d) = d.chunks - Len(d.queue)
    BY <2>1, <2>4, <2>6 DEF Handed
  <2>8. QueueFine(r)
    <3>1. ASSUME NEW i \in 1 .. Left(r) PROVE r.queue[i] = Handed(r) + i
      <4>1. CASE i \in 1 .. Len(d.queue)
        BY <2>3, <2>4, <2>6, <2>7, <4>1 DEF QueueFine
      <4>2. CASE i = Len(d.queue) + 1
        BY <2>1, <2>3, <2>4, <2>6, <2>7, <4>2
      <4>3. QED
        BY <2>6, <4>1, <4>2
    <3>2. Left(r) <= r.chunks
      BY <2>1, <2>4, <2>6 DEF QueueFine
    <3>3. QED
      BY <2>3, <2>4, <2>6, <3>1, <3>2 DEF QueueFine
  <2>9. QED
    BY <2>4, <2>5, <2>7, <2>8
<1>3. QED
  BY <1>1, <1>2

LEMMA EndedKeeps ==
  ASSUME NEW d \in DictState, d.rec # "none", ~d.await, QueueFine(d), InOrder(d.sent), GivenOnce(d),
         d.done => OnItsWay(d)
  PROVE  Ended(d) \in DictState /\ Recording(Ended(d))
<1> DEFINE r == RecStopped(d)
           g == IF ~d.discard /\ d.heard THEN r.given + 1 ELSE r.given
           e == [r EXCEPT !.done = TRUE, !.mic = FALSE, !.ws = "closed", !.finishing = FALSE, !.given = g]
<1>1. CASE d.done
  BY <1>1 DEF Ended, Recording
<1>2. CASE ~d.done
  <2>1. /\ r \in DictState /\ QueueFine(r) /\ r.rec = "inactive" /\ r.sent = d.sent /\ ~r.await
        /\ r.given = 0
    BY <1>2, StoppedKeeps DEF GivenOnce
  <2>2. Ended(d) = e
    BY <1>2 DEF Ended
  <2> HIDE DEF r
  <2>3. g \in 0 .. 1
    BY <2>1
  <2> HIDE DEF g
  <2>m. g \in 0 .. 2
    BY <2>3
  <2>n. e \in DictState
    BY <2>1, <2>m DEF DictState
  <2>4. /\ e \in DictState /\ e.done /\ e.ws = "closed" /\ e.given = g /\ e.sent = d.sent /\ ~e.await
        /\ e.rec = "inactive" /\ e.queue = r.queue /\ e.chunks = r.chunks
    BY <2>1, <2>n DEF DictState
  <2> HIDE DEF e
  <2>5. QueueFine(e)
    BY <2>1, <2>4 DEF QueueFine, Left, Handed
  <2>6. OnItsWay(e) /\ GivenOnce(e) /\ e.rec # "none"
    BY <2>3, <2>4 DEF OnItsWay, GivenOnce
  <2>7. QED
    BY <2>2, <2>4, <2>5, <2>6 DEF Recording
<1>3. QED
  BY <1>1, <1>2

\* What a step has to show when it leaves one call of start with state x.
LEMMA BecomesKeeps ==
  ASSUME DictInv, NEW a \in Dict, NEW x \in DictState, Heeded(x),
         dictation' = [dictation EXCEPT ![a] = x],
         dictations' \in dictations .. MaxStart, a <= dictations' \/ x = NoDict,
         currentCall' \in 0 .. MaxStart, shown' \in {"idle", "recording", "finishing"}, mounted' \in BOOLEAN,
         currentCall' # 0 => dictation'[currentCall'].rec # "none"
  PROVE  DictInv'
<1>1. dictation \in [Dict -> DictState] /\ dictations \in 0 .. MaxStart /\ MaxStart \in Nat
  BY DictationAssumption DEF DictInv, DictTypeOK
<1>2. /\ dictation' \in [Dict -> DictState] /\ dictation'[a] = x
      /\ \A b \in Dict : b # a => dictation'[b] = dictation[b]
  BY <1>1
<1>3. dictations' \in 0 .. MaxStart
  BY <1>1
<1>4. DictTypeOK'
  BY <1>2, <1>3 DEF DictTypeOK
<1>5. ASSUME NEW b \in Dict PROVE Heeded(dictation'[b])
  BY <1>2 DEF DictInv
<1>6. ASSUME NEW b \in Dict, b > dictations' PROVE dictation'[b] = NoDict
  <2>1. CASE b = a
    BY <1>1, <1>2, <1>6, <2>1 DEF Dict
  <2>2. CASE b # a
    <3>1. b > dictations
      BY <1>1, <1>6 DEF Dict
    <3>2. QED
      BY <1>2, <2>2, <3>1 DEF DictInv
  <2>3. QED
    BY <2>1, <2>2
<1>7. \A b \in Dict : Heeded(dictation[b])' /\ ((b > dictations)' => (dictation[b] = NoDict)')
  BY <1>5, <1>6 DEF Heeded, Recording, QueueFine, Left, Handed, InOrder, OnItsWay, Carries, GivenOnce
<1>8. QED
  BY <1>4, <1>7 DEF DictInv

\* A call that has its recorder has been made.
LEMMA RecordingIs ==
  ASSUME DictInv, NEW a \in Dict
  PROVE  /\ dictation[a] \in DictState /\ Heeded(dictation[a]) /\ dictations \in 0 .. MaxStart /\ mounted \in BOOLEAN
         /\ shown \in {"idle", "recording", "finishing"} /\ currentCall \in 0 .. MaxStart
         /\ dictation[a] # NoDict => a <= dictations
         /\ dictation[a].rec # "none" => Recording(dictation[a]) /\ dictation[a] # NoDict
<1>1. dictation[a] \in DictState /\ Heeded(dictation[a])
  BY DEF DictInv, DictTypeOK
<1>2. dictation[a] # NoDict => a <= dictations
  BY DictationAssumption DEF DictInv, DictTypeOK, Dict
<1>3. dictation[a].rec # "none" => Recording(dictation[a]) /\ dictation[a] # NoDict
  BY <1>1 DEF Heeded, NoDict
<1>4. QED
  BY <1>1, <1>2, <1>3 DEF DictInv, DictTypeOK

LEMMA SetsKeeps ==
  ASSUME DictInv, NEW a \in Dict, dictation[a].rec # "none", NEW x \in DictState, Recording(x),
         dictation' = [dictation EXCEPT ![a] = x], currentCall' \in {0, currentCall},
         shown' \in {"idle", "recording", "finishing"},
         UNCHANGED dictations, mounted' \in BOOLEAN
  PROVE  DictInv'
<1>1. /\ a <= dictations' /\ dictations' \in dictations .. MaxStart /\ currentCall' \in 0 .. MaxStart
      /\ Heeded(x)
  BY RecordingIs, DictationAssumption DEF Heeded
<1>2. ASSUME currentCall' # 0 PROVE dictation'[currentCall'].rec # "none"
  <2>1. currentCall' = currentCall /\ currentCall \in Dict /\ dictation[currentCall].rec # "none"
    BY <1>2, <1>1 DEF DictInv, Dict
  <2>2. dictation' [currentCall] = IF currentCall = a THEN x ELSE dictation[currentCall]
    BY <2>1 DEF DictInv, DictTypeOK
  <2>3. QED
    BY <2>1, <2>2 DEF Recording
<1>3. QED
  BY <1>1, <1>2, BecomesKeeps

LEMMA EndKeeps ==
  ASSUME DictInv, NEW a \in Dict, dictation[a].rec # "none", NEW d \in DictState, d.rec # "none", ~d.await,
         QueueFine(d), InOrder(d.sent), GivenOnce(d), d.done => OnItsWay(d), End(a, d),
         UNCHANGED dictations, mounted' \in BOOLEAN
  PROVE  DictInv'
<1>1. Ended(d) \in DictState /\ Recording(Ended(d))
  BY EndedKeeps
<1>2. dictation' = [dictation EXCEPT ![a] = Ended(d)]
  BY DEF End
<1>3. currentCall' \in {0, currentCall} /\ shown' \in {"idle", "recording", "finishing"}
  BY RecordingIs DEF End
<1>4. QED
  BY <1>1, <1>2, <1>3, SetsKeeps

LEMMA AwaitIs ==
  /\ [[NoDict EXCEPT !.await = TRUE] EXCEPT !.await = FALSE] = NoDict
  /\ [NoDict EXCEPT !.await = TRUE] # NoDict
<1>1. [[NoDict EXCEPT !.await = TRUE] EXCEPT !.await = FALSE] = NoDict
  <2>1. ASSUME NEW d \in DictState, d.await = FALSE
        PROVE  [[d EXCEPT !.await = TRUE] EXCEPT !.await = FALSE] = d
    BY <2>1 DEF DictState
  <2>2. NoDict \in DictState /\ NoDict.await = FALSE
    BY NoneIsTyped DEF NoDict
  <2>3. QED
    BY <2>1, <2>2
<1>2. [NoDict EXCEPT !.await = TRUE].await /\ ~NoDict.await
  BY DEF NoDict
<1>3. QED
  BY <1>1, <1>2

LEMMA StartDictationKeeps == ASSUME DictInv, StartDictation PROVE DictInv'
<1> DEFINE a == dictations + 1
           x == [NoDict EXCEPT !.await = TRUE]
<1>1. /\ dictation \in [Dict -> DictState] /\ a \in Dict /\ dictations' = a /\ a \in dictations .. MaxStart
      /\ a <= dictations'
  BY DictationAssumption DEF DictInv, DictTypeOK, StartDictation, Dict
<1>2. dictation[a] = NoDict
  BY <1>1, DictationAssumption DEF DictInv, DictTypeOK
<1>3. dictation' = [dictation EXCEPT ![a] = x]
  BY <1>1, <1>2 DEF StartDictation
<1>4. x \in DictState /\ Heeded(x)
  BY NoneIsTyped DEF Heeded
<1>5. /\ currentCall' = 0 /\ 0 \in 0 .. MaxStart /\ shown' \in {"idle", "recording", "finishing"}
      /\ mounted' \in BOOLEAN
  BY RecordingIs, <1>1, DictationAssumption DEF StartDictation
<1> HIDE DEF a, x
<1>6. QED
  BY <1>1, <1>3, <1>4, <1>5, BecomesKeeps

LEMMA MicDeniedKeeps == ASSUME DictInv, NEW a \in Dict, MicDenied(a) PROVE DictInv'
<1> DEFINE d == dictation[a]
           x == [d EXCEPT !.await = FALSE]
<1>1. d \in DictState /\ Heeded(d) /\ d.await
  BY RecordingIs DEF MicDenied
<1>2. d = [NoDict EXCEPT !.await = TRUE]
  BY <1>1 DEF Heeded, Recording, NoDict
<1>3. x = NoDict
  BY <1>2, AwaitIs
<1>4. dictation' = [dictation EXCEPT ![a] = x] /\ UNCHANGED <<dictations, currentCall, shown, mounted>>
  BY DEF MicDenied, Sets
<1>5. ASSUME currentCall' # 0 PROVE dictation'[currentCall'].rec # "none"
  <2>1. currentCall' \in Dict /\ dictation[currentCall'].rec # "none" /\ dictation[a].rec = "none"
    BY <1>2, <1>4, <1>5, RecordingIs, DictationAssumption DEF DictInv, Dict, NoDict
  <2>2. QED
    BY <1>4, <2>1 DEF DictInv, DictTypeOK
<1>6. /\ dictations' \in dictations .. MaxStart /\ currentCall' \in 0 .. MaxStart
      /\ shown' \in {"idle", "recording", "finishing"} /\ mounted' \in BOOLEAN
  BY <1>4, RecordingIs, DictationAssumption
<1>7. NoDict \in DictState /\ Heeded(NoDict)
  BY NoneIsTyped DEF Heeded
<1>8. QED
  BY <1>3, <1>4, <1>5, <1>6, <1>7, BecomesKeeps

LEMMA MicOpensKeeps == ASSUME DictInv, NEW a \in Dict, MicOpens(a) PROVE DictInv'
<1> DEFINE d == dictation[a]
           x == [d EXCEPT !.await = FALSE, !.mic = TRUE, !.rec = "recording", !.ws = "connecting"]
<1>1. d \in DictState /\ Heeded(d) /\ d.await
  BY RecordingIs DEF MicOpens
<1>2. d = [NoDict EXCEPT !.await = TRUE] /\ d # NoDict
  <2>1. ~Recording(d) /\ d # NoDict
    BY <1>1 DEF Recording, NoDict
  <2>2. QED
    BY <1>1, <2>1 DEF Heeded
<1>3. /\ x.await = FALSE /\ x.rec = "recording" /\ x.ws = "connecting" /\ x.queue = <<>> /\ x.chunks = 0
      /\ x.pending = <<>> /\ x.sent = <<>> /\ x.discard = FALSE /\ x.done = FALSE /\ x.given = 0
      /\ x \in DictState
  <2>1. x \in DictState
    BY <1>1 DEF DictState
  <2>2. QED
    BY <1>2, <2>1 DEF NoDict
<1>4. dictation' = [dictation EXCEPT ![a] = x] /\ currentCall' = a /\ shown' = "recording"
      /\ UNCHANGED <<dictations, mounted>>
  BY DEF MicOpens
<1> HIDE DEF x
<1>5. Left(x) = 0 /\ Handed(x) = 0
  <2>1. Len(x.queue) = 0
    BY <1>3
  <2>2. Left(x) = 0
    BY <1>3, <2>1 DEF Left
  <2>3. QED
    BY <1>3, <2>2 DEF Handed
<1>6. QueueFine(x) /\ InOrder(x.sent) /\ OnItsWay(x) /\ GivenOnce(x)
  BY <1>3, <1>5, DictationAssumption DEF QueueFine, InOrder, OnItsWay, GivenOnce
<1>7. Heeded(x)
  BY <1>3, <1>6 DEF Heeded, Recording
<1>8. dictation'[currentCall'].rec # "none"
  BY <1>3, <1>4 DEF DictInv, DictTypeOK
<1>9. /\ a <= dictations' /\ dictations' \in dictations .. MaxStart /\ currentCall' \in 0 .. MaxStart
      /\ mounted' \in BOOLEAN
  BY <1>2, <1>4, RecordingIs, DictationAssumption DEF Dict
<1>10. QED
  BY <1>3, <1>4, <1>7, <1>8, <1>9, BecomesKeeps

LEMMA CancelledKeeps == ASSUME DictInv, Cancelled, UNCHANGED dictations, mounted' \in BOOLEAN PROVE DictInv'
<1>1. CASE currentCall = 0
  BY <1>1 DEF Cancelled, DictInv, DictTypeOK
<1>2. CASE currentCall # 0
  <2> DEFINE a == currentCall
             d == [dictation[a] EXCEPT !.discard = TRUE]
  <2>1. a \in Dict /\ dictation[a].rec # "none" /\ End(a, d)
    BY <1>2, DictationAssumption DEF DictInv, DictTypeOK, Dict, Cancelled
  <2>2. dictation[a] \in DictState /\ Recording(dictation[a])
    BY <2>1, RecordingIs
  <2>3. d \in DictState /\ d.rec = dictation[a].rec /\ d.await = dictation[a].await /\ d.queue = dictation[a].queue
        /\ d.sent = dictation[a].sent /\ d.chunks = dictation[a].chunks /\ d.given = dictation[a].given
        /\ d.done = dictation[a].done /\ d.ws = dictation[a].ws
    BY <2>2 DEF DictState
  <2> HIDE DEF d
  <2>4. QueueFine(d) /\ InOrder(d.sent) /\ GivenOnce(d)
    BY <2>2, <2>3 DEF Recording, QueueFine, Left, Handed, GivenOnce
  <2>5. d.done => OnItsWay(d)
    BY <2>2, <2>3 DEF Recording, OnItsWay
  <2>6. d.rec # "none" /\ ~d.await
    BY <2>2, <2>3 DEF Recording
  <2> HIDE DEF a
  <2>7. QED
    BY <2>1, <2>3, <2>4, <2>5, <2>6, EndKeeps
<1>3. QED
  BY <1>1, <1>2

LEMMA StopsKeeps ==
  ASSUME DictInv, NEW a \in Dict, dictation[a].rec # "none", Sets(a, RecStopped(dictation[a])),
         UNCHANGED <<dictations, mounted>>
  PROVE  DictInv'
<1> DEFINE d == dictation[a]
           x == RecStopped(d)
<1>1. d \in DictState /\ Recording(d)
  BY RecordingIs
<1>2. /\ x \in DictState /\ QueueFine(x) /\ Handed(x) = Handed(d) /\ x.rec = "inactive"
      /\ x.await = d.await /\ x.ws = d.ws /\ x.pending = d.pending /\ x.sent = d.sent /\ x.discard = d.discard
      /\ x.done = d.done /\ x.given = d.given
  BY <1>1, StoppedKeeps DEF Recording
<1> HIDE DEF x
<1>3. Recording(x)
  BY <1>1, <1>2 DEF Recording, OnItsWay, GivenOnce
<1>4. QED
  BY <1>2, <1>3, SetsKeeps, RecordingIs DEF Sets, x

LEMMA RecordedKeeps == ASSUME DictInv, NEW a \in Dict, Recorded(a) PROVE DictInv'
<1> DEFINE d == dictation[a]
           n == d.chunks + 1
           q == Append(d.queue, n)
           x == [d EXCEPT !.chunks = n, !.queue = q]
<1>1. d \in DictState /\ Recording(d) /\ d.rec = "recording" /\ d.chunks < MaxChunk - 1
  BY RecordingIs DEF Recorded
<1>2. n \in Chunk /\ n \in 0 .. MaxChunk /\ n < MaxChunk /\ d.queue \in Seq(Chunk \cup {Stop}) /\ d.chunks \in Nat
  BY <1>1, DictationAssumption, SMTT(30) DEF DictState, Chunk
<1>3. q \in Seq(Chunk \cup {Stop}) /\ Len(q) = Len(d.queue) + 1
      /\ \A i \in 1 .. Len(q) : q[i] = IF i = Len(q) THEN n ELSE d.queue[i]
  BY <1>2
<1> HIDE DEF q, n
<1>4. x \in DictState
  BY <1>1, <1>2, <1>3 DEF DictState
<1>5. x.chunks = n /\ x.queue = q /\ x.rec = d.rec /\ x.await = d.await /\ x.ws = d.ws /\ x.pending = d.pending
      /\ x.sent = d.sent /\ x.discard = d.discard /\ x.done = d.done /\ x.given = d.given
  BY <1>1 DEF DictState
<1> HIDE DEF x
<1>6. Left(d) = Len(d.queue) /\ Left(x) = Len(d.queue) + 1 /\ Len(d.queue) \in Nat /\ n = d.chunks + 1
  BY <1>1, <1>2, <1>3, <1>5 DEF Left, n
<1>7. Handed(d) = d.chunks - Len(d.queue) /\ Handed(x) = Handed(d)
  <2>1. Handed(x) = n - (Len(d.queue) + 1)
    BY <1>5, <1>6 DEF Handed
  <2>2. Handed(d) = d.chunks - Len(d.queue)
    BY <1>6 DEF Handed
  <2>3. QED
    BY <1>2, <1>6, <2>1, <2>2
<1>8. QueueFine(x)
  <2>1. ASSUME NEW i \in 1 .. Left(x) PROVE x.queue[i] = Handed(x) + i
    <3>1. CASE i = Len(q)
      BY <1>2, <1>3, <1>5, <1>6, <1>7, <3>1
    <3>2. CASE i # Len(q)
      <4>1. i \in 1 .. Left(d) /\ x.queue[i] = d.queue[i]
        BY <1>3, <1>5, <1>6, <3>2
      <4>2. QED
        BY <1>1, <1>7, <4>1 DEF Recording, QueueFine
    <3>3. QED
      BY <3>1, <3>2
  <2>2. Left(x) <= x.chunks
    <3>1. Left(d) <= d.chunks
      BY <1>1 DEF Recording, QueueFine
    <3>2. QED
      BY <1>2, <1>5, <1>6, <3>1
  <2>3. x.rec = "recording" /\ x.chunks < MaxChunk
    BY <1>1, <1>2, <1>5
  <2>4. QED
    BY <2>1, <2>2, <2>3 DEF QueueFine
<1>9. Recording(x)
  BY <1>1, <1>5, <1>7, <1>8 DEF Recording, OnItsWay, GivenOnce
<1>10. QED
  BY <1>1, <1>4, <1>9, SetsKeeps, RecordingIs DEF Recorded, Sets, x, q, n

LEMMA HandedIs == ASSUME NEW d \in DictState, QueueFine(d) PROVE Handed(d) \in Nat
<1>1. Len(d.queue) \in Nat /\ d.chunks \in Nat /\ (d.queue # <<>> => Len(d.queue) # 0)
  BY DEF DictState
<1>2. Left(d) \in Nat
  BY <1>1 DEF Left
<1>3. QED
  BY <1>1, <1>2 DEF Handed, QueueFine

\* What is next handed over, of a recording that is not discarded.
LEMMA NextChunk ==
  ASSUME NEW d \in DictState, QueueFine(d), d.queue # <<>>, NEW x \in DictState,
         x.rec = d.rec, x.chunks = d.chunks, x.queue = Tail(d.queue), d.rec # "none"
  PROVE  /\ Handed(d) \in Nat
         /\ Head(d.queue) # Stop => /\ QueueFine(x) /\ Handed(x) = Handed(d) + 1
                                    /\ Head(d.queue) = Handed(d) + 1 /\ Head(d.queue) \in Chunk
         /\ Head(d.queue) = Stop => QueueFine(x) /\ Handed(x) = Handed(d)
<1> DEFINE q == d.queue
           r == Tail(q)
<1>1. q \in Seq(Chunk \cup {Stop}) /\ q # <<>> /\ d.chunks \in Nat
  BY DEF DictState
<1>2. /\ r \in Seq(Chunk \cup {Stop}) /\ Len(r) = Len(q) - 1 /\ Len(q) \in Nat \ {0} /\ Head(q) = q[1]
      /\ \A i \in 1 .. Len(r) : r[i] = q[i + 1]
      /\ q[1] \in Chunk \cup {Stop}
  BY <1>1
<1>4. x.queue = r
  OBVIOUS
<1> HIDE DEF r, q
<1>3. r # <<>> <=> Len(r) # 0
  <2>1. \A z \in Seq(Chunk \cup {Stop}) : z # <<>> <=> Len(z) # 0
    OBVIOUS
  <2>2. QED
    BY <1>2, <2>1
<1> USE DEF q
<1>0. Left(d) = IF d.rec = "inactive" THEN Len(q) - 1 ELSE Len(q)
  BY <1>1 DEF Left
<1>5. Left(d) \in Nat
  BY <1>0, <1>2
<1>6. Handed(d) = d.chunks - Left(d) /\ Handed(d) \in Nat
  BY <1>1, <1>5 DEF Handed, QueueFine
<1>7. ASSUME Head(d.queue) # Stop
      PROVE  /\ QueueFine(x) /\ Handed(x) = Handed(d) + 1
             /\ Head(d.queue) = Handed(d) + 1 /\ Head(d.queue) \in Chunk
  <2>1. d.rec = "inactive" => Len(q) # 1
    BY <1>2, <1>7 DEF QueueFine
  <2>2. Left(x) = Left(d) - 1 /\ 1 <= Left(d) /\ Left(x) <= Len(r)
    <3>1. CASE d.rec = "inactive"
      <4>1. Left(d) = Len(q) - 1 /\ r # <<>>
        BY <1>0, <1>2, <1>3, <2>1, <3>1
      <4>2. Left(x) = Len(r) - 1
        BY <1>4, <3>1, <4>1 DEF Left
      <4>3. QED
        BY <1>2, <2>1, <3>1, <4>1, <4>2
    <3>2. CASE d.rec # "inactive"
      <4>1. Left(x) = Len(r)
        BY <1>4, <3>2 DEF Left
      <4>2. QED
        BY <1>0, <1>2, <3>2, <4>1
    <3>3. QED
      BY <3>1, <3>2
  <2>3. Handed(x) = d.chunks - (Left(d) - 1)
    BY <2>2 DEF Handed
  <2>4. Handed(x) = Handed(d) + 1
    BY <1>1, <1>5, <1>6, <2>3
  <2>5. Head(d.queue) = Handed(d) + 1
    BY <1>2, <1>5, <2>2 DEF QueueFine
  <2>6. ASSUME NEW i \in 1 .. Left(x) PROVE x.queue[i] = Handed(x) + i
    <3>1. i + 1 \in 1 .. Left(d) /\ i \in 1 .. Len(r)
      BY <1>2, <1>5, <2>2
    <3>2. q[i + 1] = Handed(d) + (i + 1)
      BY <3>1 DEF QueueFine
    <3>3. x.queue[i] = q[i + 1]
      BY <1>2, <1>4, <3>1
    <3>4. Handed(d) + (i + 1) = Handed(d) + 1 + i
      BY <1>6
    <3>5. QED
      BY <2>4, <3>2, <3>3, <3>4
  <2>7. Left(x) <= x.chunks
    BY <1>1, <1>5, <2>2 DEF QueueFine
  <2>8. x.rec = "inactive" /\ x.queue # <<>> => x.queue[Len(x.queue)] = Stop
    <3>1. SUFFICES ASSUME x.rec = "inactive", r # <<>> PROVE r[Len(r)] = Stop
      BY <1>4
    <3>2. Len(r) \in 1 .. Len(r) /\ Len(r) + 1 = Len(q)
      BY <1>2, <1>3, <3>1
    <3>3. QED
      BY <1>2, <3>1, <3>2 DEF QueueFine
  <2>9. QED
    BY <1>2, <1>7, <2>4, <2>5, <2>6, <2>7, <2>8 DEF QueueFine
<1>8. ASSUME Head(d.queue) = Stop PROVE QueueFine(x) /\ Handed(x) = Handed(d)
  <2>1. Left(d) = 0
    <3>1. SUFFICES ASSUME Left(d) # 0 PROVE FALSE
      OBVIOUS
    <3>2. 1 \in 1 .. Left(d)
      BY <1>5, <3>1
    <3>3. q[1] = Handed(d) + 1
      BY <3>2 DEF QueueFine
    <3>4. QED
      BY <1>2, <1>6, <1>8, <3>3 DEF Stop
  <2>2. d.rec = "inactive" /\ Len(q) = 1
    BY <1>0, <1>2, <2>1
  <2>3. r = <<>> /\ Len(r) = 0
    BY <1>2, <1>3, <2>2
  <2>4. Left(x) = 0
    BY <1>4, <2>3 DEF Left
  <2>5. Handed(x) = Handed(d)
    BY <2>1, <2>4 DEF Handed
  <2>6. QED
    BY <1>1, <1>4, <2>2, <2>3, <2>4, <2>5 DEF QueueFine
<1>9. QED
  BY <1>6, <1>7, <1>8

\* The next chunk joins what went over the socket, and Stop where it may.
LEMMA CarriesNext ==
  ASSUME NEW s \in Seq(Chunk \cup {Stop}), NEW n \in Nat, Carries(s, n), n + 1 \in Chunk
  PROVE  Append(s, n + 1) \in Seq(Chunk \cup {Stop}) /\ Carries(Append(s, n + 1), n + 1)
<1> DEFINE t == Append(s, n + 1)
<1>1. /\ t \in Seq(Chunk \cup {Stop}) /\ DOMAIN t = 1 .. Len(s) + 1 /\ Len(s) \in Nat
      /\ t[Len(s) + 1] = n + 1 /\ \A i \in 1 .. Len(s) : t[i] = s[i]
      /\ DOMAIN s = 1 .. Len(s)
  BY DEF Chunk
<1>2. \A i \in DOMAIN s : s[i] \in Nat
  BY DEF Chunk, Stop
<1> HIDE DEF t
<1>3. \A i \in DOMAIN t : t[i] <= n + 1
  BY <1>1, <1>2 DEF Carries
<1>4. ASSUME NEW c \in 1 .. n + 1 PROVE \E j \in DOMAIN t : t[j] = c
  <2>1. CASE c = n + 1
    BY <1>1, <2>1
  <2>2. CASE c # n + 1
    <3>1. c \in 1 .. n
      BY <2>2
    <3>2. PICK j \in DOMAIN s : s[j] = c
      BY <3>1 DEF Carries
    <3>3. QED
      BY <1>1, <3>2
  <2>3. QED
    BY <2>1, <2>2
<1>5. ASSUME NEW i \in DOMAIN t, NEW j \in DOMAIN t, i < j, t[j] # Stop PROVE t[i] < t[j]
  <2>1. i \in DOMAIN s /\ t[i] = s[i]
    BY <1>1, <1>5
  <2>2. CASE j \in DOMAIN s
    BY <1>1, <1>5, <2>1, <2>2 DEF Carries, InOrder
  <2>3. CASE j \notin DOMAIN s
    BY <1>1, <1>2, <2>1, <2>3 DEF Carries
  <2>4. QED
    BY <2>2, <2>3
<1>6. ASSUME NEW i \in DOMAIN t, NEW c \in 1 .. t[i] PROVE \E j \in 1 .. i : t[j] = c
  <2>1. CASE i \in DOMAIN s
    <3>1. PICK j \in 1 .. i : s[j] = c
      BY <1>1, <2>1 DEF Carries, InOrder
    <3>2. QED
      BY <1>1, <2>1, <3>1
  <2>2. CASE i \notin DOMAIN s
    <3>1. i = Len(s) + 1 /\ c \in 1 .. n + 1
      BY <1>1, <2>2
    <3>2. QED
      BY <1>1, <1>4, <3>1
  <2>3. QED
    BY <2>1, <2>2
<1>7. InOrder(t)
  BY <1>5, <1>6 DEF InOrder
<1>8. QED
  BY <1>1, <1>3, <1>4, <1>7 DEF Carries, t

LEMMA CarriesStop ==
  ASSUME NEW s \in Seq(Chunk \cup {Stop}), NEW n \in Nat, Carries(s, n)
  PROVE  Append(s, Stop) \in Seq(Chunk \cup {Stop}) /\ Carries(Append(s, Stop), n)
<1> DEFINE t == Append(s, Stop)
<1>1. /\ t \in Seq(Chunk \cup {Stop}) /\ DOMAIN t = 1 .. Len(s) + 1 /\ Len(s) \in Nat
      /\ t[Len(s) + 1] = Stop /\ \A i \in 1 .. Len(s) : t[i] = s[i]
      /\ DOMAIN s = 1 .. Len(s)
  OBVIOUS
<1>2. \A i \in DOMAIN s : s[i] \in Nat
  BY DEF Chunk, Stop
<1> HIDE DEF t
<1>3. \A i \in DOMAIN t : t[i] <= n
  BY <1>1, <1>2 DEF Carries, Stop
<1>4. \A c \in 1 .. n : \E j \in DOMAIN t : t[j] = c
  BY <1>1 DEF Carries
<1>5. ASSUME NEW i \in DOMAIN t, NEW j \in DOMAIN t, i < j, t[j] # Stop PROVE t[i] < t[j]
  BY <1>1, <1>5 DEF Carries, InOrder
<1>6. ASSUME NEW i \in DOMAIN t, NEW c \in 1 .. t[i] PROVE \E j \in 1 .. i : t[j] = c
  <2>1. i \in DOMAIN s /\ t[i] = s[i]
    BY <1>1, <1>6 DEF Stop
  <2>2. PICK j \in 1 .. i : s[j] = c
    BY <2>1 DEF Carries, InOrder
  <2>3. QED
    BY <1>1, <2>1, <2>2
<1>7. InOrder(t)
  BY <1>5, <1>6 DEF InOrder
<1>8. QED
  BY <1>1, <1>3, <1>4, <1>7 DEF Carries, t

LEMMA ChunkHandedOverKeeps == ASSUME DictInv, NEW a \in Dict, ChunkHandedOver(a) PROVE DictInv'
<1> DEFINE d == dictation[a]
           c == Head(d.queue)
           r == Tail(d.queue)
           x == [d EXCEPT !.queue = r]
           s == Append(d.sent, c)
           p == Append(d.pending, c)
           xs == [d EXCEPT !.queue = r, !.sent = s]
           xp == [d EXCEPT !.queue = r, !.pending = p]
<1>1. d \in DictState /\ Heeded(d) /\ d.queue # <<>> /\ c # Stop
  BY RecordingIs DEF ChunkHandedOver
<1>2. Recording(d) /\ d.rec # "none"
  BY <1>1 DEF Heeded, Recording, NoDict
<1>3. d.queue \in Seq(Chunk \cup {Stop}) /\ r \in Seq(Chunk \cup {Stop}) /\ c \in Chunk
      /\ d.pending \in Seq(Chunk) /\ p \in Seq(Chunk) /\ s \in Seq(Chunk \cup {Stop}) /\ d.sent \in Seq(Chunk \cup {Stop})
  BY <1>1 DEF DictState
<1>4. dictation' = [dictation EXCEPT ![a] = IF d.discard THEN x ELSE IF d.ws = "open" THEN xs ELSE xp]
      /\ UNCHANGED <<currentCall, shown, dictations, mounted>>
  BY <1>1 DEF ChunkHandedOver, Sets
<1>5. Handed(d) \in Nat
  BY <1>1, <1>2, HandedIs DEF Recording
<1> HIDE DEF r
<1>6. shown' \in {"idle", "recording", "finishing"} /\ mounted' \in BOOLEAN /\ currentCall' \in {0, currentCall}
      /\ UNCHANGED dictations
  BY <1>4, RecordingIs
<1>7. CASE d.discard
  <2>1. x \in DictState
    BY <1>1, <1>3 DEF DictState
  <2>2. x.queue = r /\ x.chunks = d.chunks /\ x.rec = d.rec /\ x.await = d.await /\ x.ws = d.ws /\ x.pending = d.pending
        /\ x.sent = d.sent /\ x.discard = d.discard /\ x.done = d.done /\ x.given = d.given
    BY <1>1 DEF DictState
  <2> HIDE DEF x
  <2>3. QueueFine(x)
    BY <1>1, <1>2, <2>1, <2>2, NextChunk DEF Recording, r
  <2>4. Recording(x)
    BY <1>2, <1>7, <2>2, <2>3 DEF Recording, OnItsWay, GivenOnce
  <2>5. QED
    BY <1>2, <1>4, <1>6, <1>7, <2>1, <2>4, SetsKeeps
<1>8. CASE ~d.discard /\ d.ws = "open"
  <2>1. xs \in DictState
    BY <1>1, <1>3 DEF DictState
  <2>2. xs.queue = r /\ xs.chunks = d.chunks /\ xs.rec = d.rec /\ xs.await = d.await /\ xs.ws = d.ws
        /\ xs.sent = s /\ xs.discard = d.discard /\ xs.done = d.done /\ xs.given = d.given
    BY <1>1 DEF DictState
  <2> HIDE DEF xs
  <2>3. QueueFine(xs) /\ Handed(xs) = Handed(d) + 1 /\ c = Handed(d) + 1
    BY <1>1, <1>2, <2>1, <2>2, NextChunk DEF Recording, r
  <2>4. Carries(d.sent, Handed(d))
    BY <1>2, <1>8 DEF Recording, OnItsWay
  <2>5. Carries(s, Handed(xs))
    BY <1>3, <1>5, <2>3, <2>4, CarriesNext
  <2>6. Recording(xs)
    BY <1>2, <1>8, <2>2, <2>3, <2>5 DEF Recording, OnItsWay, GivenOnce, Carries
  <2>7. QED
    BY <1>2, <1>4, <1>6, <1>8, <2>1, <2>6, SetsKeeps
<1>9. CASE ~d.discard /\ d.ws # "open"
  <2>1. xp \in DictState
    BY <1>1, <1>3 DEF DictState
  <2>2. xp.queue = r /\ xp.chunks = d.chunks /\ xp.rec = d.rec /\ xp.await = d.await /\ xp.ws = d.ws
        /\ xp.pending = p /\ xp.sent = d.sent /\ xp.discard = d.discard /\ xp.done = d.done /\ xp.given = d.given
    BY <1>1 DEF DictState
  <2> HIDE DEF xp
  <2>3. QueueFine(xp) /\ Handed(xp) = Handed(d) + 1 /\ c = Handed(d) + 1
    BY <1>1, <1>2, <2>1, <2>2, NextChunk DEF Recording, r
  <2>4. ASSUME d.ws = "connecting"
        PROVE  Len(p) = Handed(xp) /\ \A i \in DOMAIN p : p[i] = i
    <3>1. Len(d.pending) = Handed(d) /\ \A i \in DOMAIN d.pending : d.pending[i] = i
      BY <1>2, <2>4 DEF Recording, OnItsWay
    <3>2. /\ Len(p) = Len(d.pending) + 1 /\ DOMAIN p = 1 .. Len(d.pending) + 1 /\ p[Len(d.pending) + 1] = c
          /\ \A i \in 1 .. Len(d.pending) : p[i] = d.pending[i]
          /\ DOMAIN d.pending = 1 .. Len(d.pending) /\ Len(d.pending) \in Nat
      BY <1>3
    <3> HIDE DEF p
    <3>3. QED
      BY <2>3, <3>1, <3>2
  <2>5. OnItsWay(xp)
    BY <1>2, <1>9, <2>2, <2>4 DEF Recording, OnItsWay
  <2>6. Recording(xp)
    BY <1>2, <2>2, <2>3, <2>5 DEF Recording, GivenOnce
  <2>7. QED
    BY <1>2, <1>4, <1>6, <1>9, <2>1, <2>6, SetsKeeps
<1>10. QED
  BY <1>7, <1>8, <1>9

LEMMA OnStopKeeps == ASSUME DictInv, NEW a \in Dict, OnStop(a) PROVE DictInv'
<1> DEFINE d == dictation[a]
           r == Tail(d.queue)
           q == [d EXCEPT !.queue = r]
           s == IF d.ws = "open" THEN Append(d.sent, Stop) ELSE d.sent
           x == [q EXCEPT !.finishing = TRUE, !.sent = s]
<1>1. d \in DictState /\ Heeded(d) /\ d.queue # <<>> /\ Head(d.queue) = Stop
  BY RecordingIs DEF OnStop
<1>2. Recording(d) /\ d.rec # "none"
  BY <1>1 DEF Heeded, Recording, NoDict
<1>3. d.queue \in Seq(Chunk \cup {Stop}) /\ r \in Seq(Chunk \cup {Stop})
      /\ s \in Seq(Chunk \cup {Stop}) /\ d.sent \in Seq(Chunk \cup {Stop})
  BY <1>1 DEF DictState
<1>4. q \in DictState
  BY <1>1, <1>3 DEF DictState
<1>5. q.queue = r /\ q.chunks = d.chunks /\ q.rec = d.rec /\ q.await = d.await /\ q.ws = d.ws /\ q.pending = d.pending
      /\ q.sent = d.sent /\ q.discard = d.discard /\ q.done = d.done /\ q.given = d.given
  BY <1>1 DEF DictState
<1>6. dictation' = [dictation EXCEPT ![a] = IF d.discard \/ d.done THEN q ELSE x]
      /\ shown' \in {shown, "finishing"} /\ UNCHANGED <<currentCall, dictations, mounted>>
  BY <1>4 DEF OnStop, Sets, DictState
<1> HIDE DEF q
<1>7. QueueFine(q) /\ Handed(q) = Handed(d) /\ Handed(d) \in Nat
  BY <1>1, <1>2, <1>4, <1>5, NextChunk DEF Recording
<1>8. shown' \in {"idle", "recording", "finishing"} /\ mounted' \in BOOLEAN /\ currentCall' \in {0, currentCall}
      /\ UNCHANGED dictations
  BY <1>6, RecordingIs
<1>9. CASE d.discard \/ d.done
  <2>1. Recording(q)
    BY <1>2, <1>5, <1>7 DEF Recording, OnItsWay, GivenOnce
  <2>2. QED
    BY <1>2, <1>4, <1>6, <1>8, <1>9, <2>1, SetsKeeps
<1>10. CASE ~(d.discard \/ d.done)
  <2> HIDE DEF s
  <2>1. x \in DictState
    BY <1>3, <1>4 DEF DictState
  <2>2. x.queue = q.queue /\ x.chunks = q.chunks /\ x.rec = q.rec /\ x.await = q.await /\ x.ws = q.ws
        /\ x.pending = q.pending /\ x.sent = s /\ x.discard = q.discard /\ x.done = q.done /\ x.given = q.given
    BY <1>4 DEF DictState
  <2> HIDE DEF x
  <2>3. QueueFine(x) /\ Handed(x) = Handed(d)
    BY <1>7, <2>2 DEF QueueFine, Left, Handed
  <2>4. d.ws = "open" => Carries(s, Handed(d))
    BY <1>2, <1>3, <1>7, CarriesStop DEF Recording, OnItsWay, s
  <2>5. InOrder(s)
    BY <1>2, <2>4 DEF Recording, Carries, s
  <2>6. Recording(x)
    BY <1>2, <1>5, <1>7, <1>10, <2>2, <2>3, <2>4, <2>5 DEF Recording, OnItsWay, GivenOnce, s
  <2>7. QED
    BY <1>2, <1>6, <1>8, <1>10, <2>1, <2>6, SetsKeeps
<1>11. QED
  BY <1>9, <1>10

LEMMA SpeechOpensKeeps == ASSUME DictInv, NEW a \in Dict, SpeechOpens(a) PROVE DictInv'
<1> DEFINE d == dictation[a]
           s == d.sent \o d.pending \o (IF d.rec = "inactive" THEN <<Stop>> ELSE <<>>)
           x == [d EXCEPT !.ws = "open", !.pending = <<>>, !.sent = s]
<1>1. d \in DictState /\ Heeded(d) /\ d.ws = "connecting"
  BY RecordingIs DEF SpeechOpens
<1>2. Recording(d) /\ d.rec # "none"
  BY <1>1 DEF Heeded, Recording, NoDict
<1>3. /\ d.sent = <<>> /\ Len(d.pending) = Handed(d) /\ \A i \in DOMAIN d.pending : d.pending[i] = i
      /\ Handed(d) \in Nat /\ QueueFine(d) /\ ~d.discard /\ ~d.done
  BY <1>1, <1>2, HandedIs DEF Recording, OnItsWay
<1>4. d.pending \in Seq(Chunk) /\ d.pending \in Seq(Chunk \cup {Stop}) /\ DOMAIN d.pending = 1 .. Handed(d)
  BY <1>1, <1>3 DEF DictState
<1>5. Carries(d.pending, Handed(d))
  BY <1>3, <1>4 DEF Carries, InOrder
<1>6. s = IF d.rec = "inactive" THEN Append(d.pending, Stop) ELSE d.pending
  <2>1. \A p \in Seq(Chunk \cup {Stop}) : <<>> \o p \o <<>> = p /\ <<>> \o p \o <<Stop>> = Append(p, Stop)
    OBVIOUS
  <2>2. QED
    BY <1>3, <1>4, <2>1
<1>7. s \in Seq(Chunk \cup {Stop}) /\ Carries(s, Handed(d))
  <2> HIDE DEF s
  <2>1. QED
    BY <1>3, <1>4, <1>5, <1>6, CarriesStop
<1>8. dictation' = [dictation EXCEPT ![a] = x] /\ UNCHANGED <<currentCall, shown, dictations, mounted>>
  BY DEF SpeechOpens, Sets
<1> HIDE DEF s
<1>9. x \in DictState
  <2>1. <<>> \in Seq(Chunk)
    OBVIOUS
  <2>2. QED
    BY <1>1, <1>7, <2>1 DEF DictState
<1>10. x.queue = d.queue /\ x.chunks = d.chunks /\ x.rec = d.rec /\ x.await = d.await /\ x.ws = "open"
       /\ x.sent = s /\ x.discard = d.discard /\ x.done = d.done /\ x.given = d.given
  BY <1>1 DEF DictState
<1> HIDE DEF x
<1>11. QueueFine(x) /\ Handed(x) = Handed(d)
  BY <1>3, <1>10 DEF QueueFine, Left, Handed
<1>12. Recording(x)
  BY <1>2, <1>3, <1>7, <1>10, <1>11 DEF Recording, OnItsWay, GivenOnce, Carries
<1>13. QED
  BY <1>2, <1>8, <1>9, <1>12, SetsKeeps, RecordingIs

LEMMA SpeechHeardKeeps == ASSUME DictInv, NEW a \in Dict, SpeechHeard(a) PROVE DictInv'
<1> DEFINE d == dictation[a]
           x == [d EXCEPT !.heard = TRUE]
<1>1. d \in DictState /\ Heeded(d) /\ d.ws = "open"
  BY RecordingIs DEF SpeechHeard
<1>2. Recording(d) /\ d.rec # "none"
  BY <1>1 DEF Heeded, Recording, NoDict
<1>3. x \in DictState
  BY <1>1 DEF DictState
<1>4. x.queue = d.queue /\ x.chunks = d.chunks /\ x.rec = d.rec /\ x.await = d.await /\ x.ws = d.ws /\ x.pending = d.pending
      /\ x.sent = d.sent /\ x.discard = d.discard /\ x.done = d.done /\ x.given = d.given
  BY <1>1 DEF DictState
<1>5. dictation' = [dictation EXCEPT ![a] = x] /\ UNCHANGED <<currentCall, shown, dictations, mounted>>
  BY DEF SpeechHeard, Sets
<1> HIDE DEF x
<1>6. Recording(x)
  BY <1>2, <1>4 DEF Recording, QueueFine, Left, Handed, OnItsWay, GivenOnce
<1>7. QED
  BY <1>2, <1>3, <1>5, <1>6, SetsKeeps, RecordingIs

LEMMA SpeechClosesKeeps == ASSUME DictInv, NEW a \in Dict, SpeechCloses(a) PROVE DictInv'
<1> DEFINE d == dictation[a]
           x == [d EXCEPT !.ws = "closed"]
<1>1. d \in DictState /\ Heeded(d) /\ d.ws \in {"connecting", "open"}
  BY RecordingIs DEF SpeechCloses
<1>2. Recording(d) /\ d.rec # "none"
  BY <1>1 DEF Heeded, Recording, NoDict
<1>3. x \in DictState
  BY <1>1 DEF DictState
<1>4. x.queue = d.queue /\ x.chunks = d.chunks /\ x.rec = d.rec /\ x.await = d.await /\ x.pending = d.pending
      /\ x.sent = d.sent /\ x.discard = d.discard /\ x.done = d.done /\ x.given = d.given
  BY <1>1 DEF DictState
<1>5. End(a, x) /\ UNCHANGED <<dictations, mounted>> /\ mounted' \in BOOLEAN
  BY RecordingIs DEF SpeechCloses
<1> HIDE DEF x
<1>6. QueueFine(x) /\ InOrder(x.sent) /\ GivenOnce(x) /\ ~x.done /\ x.rec # "none" /\ ~x.await
  BY <1>1, <1>2, <1>4 DEF Recording, QueueFine, Left, Handed, OnItsWay, GivenOnce
<1>7. QED
  BY <1>2, <1>3, <1>5, <1>6, EndKeeps

LEMMA FinishTimeoutKeeps == ASSUME DictInv, NEW a \in Dict, FinishTimeout(a) PROVE DictInv'
<1> DEFINE d == dictation[a]
<1>1. d \in DictState /\ Heeded(d) /\ d.finishing
  BY RecordingIs DEF FinishTimeout
<1>2. Recording(d) /\ d.rec # "none"
  BY <1>1 DEF Heeded, Recording, NoDict
<1>3. End(a, d) /\ UNCHANGED <<dictations, mounted>> /\ mounted' \in BOOLEAN
  BY RecordingIs DEF FinishTimeout
<1>4. QED
  BY <1>1, <1>2, <1>3, EndKeeps DEF Recording

LEMMA DictStep == DictInv /\ [DictNext]_dictVars => DictInv'
<1>1. SUFFICES ASSUME DictInv, [DictNext]_dictVars PROVE DictInv'
  OBVIOUS
<1>2. CASE UNCHANGED dictVars
  BY <1>1, <1>2 DEF dictVars, DictInv, DictTypeOK
<1>3. CASE StartDictation
  BY <1>1, <1>3, StartDictationKeeps
<1>4. CASE StopDictation
  <2>1. currentCall \in Dict
    BY <1>1, <1>4, RecordingIs, DictationAssumption DEF StopDictation, DictInv, DictTypeOK, Dict
  <2>2. QED
    BY <1>1, <1>4, <2>1, StopsKeeps DEF StopDictation
<1>5. CASE CancelDictation \/ LeaveThread
  <2>1. Cancelled /\ UNCHANGED dictations /\ mounted' \in BOOLEAN
    BY <1>1, <1>5 DEF CancelDictation, LeaveThread, DictInv, DictTypeOK
  <2>2. QED
    BY <1>1, <2>1, CancelledKeeps
<1>6. ASSUME NEW a \in Dict, RecordingEnds(a) PROVE DictInv'
  BY <1>1, <1>6, StopsKeeps DEF RecordingEnds
<1>7. ASSUME NEW a \in Dict,
             \/ MicDenied(a) \/ MicOpens(a) \/ Recorded(a) \/ ChunkHandedOver(a) \/ OnStop(a)
             \/ FinishTimeout(a) \/ SpeechOpens(a) \/ SpeechHeard(a) \/ SpeechCloses(a)
      PROVE  DictInv'
  BY <1>1, <1>7, MicDeniedKeeps, MicOpensKeeps, RecordedKeeps, ChunkHandedOverKeeps, OnStopKeeps,
     FinishTimeoutKeeps, SpeechOpensKeeps, SpeechHeardKeeps, SpeechClosesKeeps
<1>8. QED
  BY <1>1, <1>2, <1>3, <1>4, <1>5, <1>6, <1>7 DEF DictNext

\* Wherever a recording has got to, what waits for the socket and what went over it are the
\* chunks that the recorder has handed over, in order and without a gap.
THEOREM DictationInvariant == DictSpec => []DictInv
<1>1. DictInit => DictInv
  <2>1. SUFFICES ASSUME DictInit PROVE DictInv
    OBVIOUS
  <2>2. /\ dictation \in [Dict -> DictState] /\ \A a \in Dict : dictation[a] = NoDict
        /\ dictations \in 0 .. MaxStart /\ currentCall \in 0 .. MaxStart
    BY <2>1, NoneIsTyped, DictationAssumption DEF DictInit
  <2>3. DictTypeOK
    BY <2>1, <2>2 DEF DictInit, DictTypeOK
  <2>4. QED
    BY <2>1, <2>2, <2>3 DEF DictInit, DictInv, Heeded
<1>2. DictInv /\ [DictNext]_dictVars => DictInv'
  BY DictStep
<1>3. QED
  BY <1>1, <1>2, PTL DEF DictSpec

LEMMA NoneInOrder == InOrder(<<>>)
  BY DEF InOrder

\* ChunksInOrder, for any number of recordings and chunks: the socket carries a prefix of the
\* recording, and the text joins the draft once at most.
THEOREM DictationInOrder == DictSpec => []ChunksInOrder
<1>1. DictInv => ChunksInOrder
  <2>1. SUFFICES ASSUME DictInv, NEW a \in Dict
                 PROVE  InOrder(dictation[a].sent) /\ dictation[a].given <= 1
    BY DEF ChunksInOrder
  <2>2. CASE Recording(dictation[a])
    BY <2>2 DEF Recording, GivenOnce
  <2>3. CASE ~Recording(dictation[a])
    <3>1. dictation[a].sent = <<>> /\ dictation[a].given = 0
      BY <2>1, <2>3 DEF DictInv, Heeded, NoDict
    <3>2. QED
      BY <3>1, NoneInOrder
  <2>4. QED
    BY <2>2, <2>3
<1>2. QED
  BY <1>1, DictationInvariant, PTL
=============================================================================
