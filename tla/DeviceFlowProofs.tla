-------------------------- MODULE DeviceFlowProofs --------------------------
(***************************************************************************)
(* Proofs about DeviceFlow, for every number of browsers, devices, users   *)
(* and codes, also where several grants show one code.                     *)
(***************************************************************************)
EXTENDS DeviceFlow, FiniteSetTheorems, TLAPS

LEMMA InitInv == Init => Inv
BY ConstantsAssumption
DEF Init, Inv, TypeOK, FreshGrants, GrantsSound, RequestsSound, TokensNeedAcceptance,
    TokenUserEnteredCode, Exists, Busy, Steps, Answers

\* What is known of a request under way
LEMMA RequestKnown ==
  ASSUME Inv, NEW p \in Workers, Busy(p)
  PROVE  /\ request[p] \in Request /\ request[p].grant \in Grants
         /\ RequestSound(p)
         /\ DeviceGrant[request[p].grant] \in GrantRow
<1>1. request[p] # Absent /\ request[p] \in Request /\ RequestSound(p)
  BY DEF Inv, TypeOK, RequestsSound, RequestSound
<1>2. QED
  BY <1>1 DEF Request, RequestSound, Exists, Inv, TypeOK

\* Rows are never removed, and the histories only grow.
Grows ==
  \A g \in Grants : /\ Exists(g) => Exists(g)'
                    /\ entered[g] \subseteq entered'[g]
                    /\ accepted[g] \subseteq accepted'[g]

LEMMA StaysSound ==
  ASSUME Inv, NEW q \in Workers, Busy(q), Grows, pc'[q] = pc[q], request'[q] = request[q]
  PROVE  RequestSound(q)'
<1>1. RequestSound(q) /\ request[q].grant \in Grants
  BY RequestKnown
<1>2. PICK g \in Grants : g = request[q].grant
  BY <1>1
<1>3. Exists(g)'
  BY <1>1, <1>2 DEF Grows, RequestSound
<1>4. Exists(request[q].grant)'
  BY <1>2, <1>3 DEF Exists
<1>5. accepted[g] # {} => accepted'[g] # {}
  BY DEF Grows
<1>6. QED
  BY <1>1, <1>2, <1>4, <1>5 DEF RequestSound, Grows

\* A step of worker p: what has to be shown of the tables and of p
LEMMA WorkerInv ==
  ASSUME Inv, NEW p \in Workers, TypeOK', FreshGrants', GrantsSound', Grows,
         \A q \in Workers \ {p} : pc'[q] = pc[q] /\ request'[q] = request[q],
         Busy(p)' => RequestSound(p)',
         TokensNeedAcceptance', TokenUserEnteredCode'
  PROVE  Inv'
<1>1. ASSUME NEW q \in Workers \ {p}, Busy(q)' PROVE RequestSound(q)'
  BY <1>1, StaysSound DEF Busy
<1>2. RequestsSound'
  BY <1>1 DEF RequestsSound
<1>3. QED
  BY <1>2 DEF Inv

\* The tokens keep a user who entered the code of a grant that was accepted.
LEMMA TokensStay ==
  ASSUME Inv, Grows, UNCHANGED AccessToken
  PROVE  TokensNeedAcceptance' /\ TokenUserEnteredCode'
<1>1. \A t \in Tokens : AccessToken[t] # Absent => AccessToken[t].grant \in Grants
  BY DEF Inv, TypeOK, TokenRow
<1>2. \A g \in Grants : /\ accepted[g] # {} => accepted'[g] # {}
                        /\ entered[g] \subseteq entered'[g]
  BY DEF Grows
<1>3. QED
  BY <1>1, <1>2 DEF Inv, TokensNeedAcceptance, TokenUserEnteredCode

LEMMA DbGrows ==
  ASSUME Inv, UNCHANGED <<db, accepted, denied>>,
         \A g \in Grants : entered[g] \subseteq entered'[g]
  PROVE  FreshGrants' /\ GrantsSound' /\ Grows
<1>1. FreshGrants' /\ Grows
  BY DEF db, Inv, FreshGrants, Grows, Exists
<1>2. GrantsSound'
  BY DEF db, Inv, GrantsSound, Exists, Authorized
<1>3. QED
  BY <1>1, <1>2

\* An answer ends a request without touching a row; a code may have been entered.
LEMMA AnswerInv ==
  ASSUME Inv, NEW p \in Workers, NEW status \in Answers, Answer(p, status),
         UNCHANGED <<now, db, accepted, denied>>,
         entered' \in [Grants -> SUBSET Users],
         \A g \in Grants : entered[g] \subseteq entered'[g]
  PROVE  Inv'
<1>1. pc' = [pc EXCEPT ![p] = status] /\ request' = [request EXCEPT ![p] = Absent]
  BY DEF Answer, Goto
<1>2. TypeOK'
  BY <1>1 DEF Inv, TypeOK, db
<1>3. /\ ~Busy(p)'
      /\ \A q \in Workers \ {p} : pc'[q] = pc[q] /\ request'[q] = request[q]
  BY <1>1 DEF Inv, TypeOK, Busy, Answers, Steps
<1>4. FreshGrants' /\ GrantsSound' /\ Grows
  BY DbGrows
<1>5. TokensNeedAcceptance' /\ TokenUserEnteredCode'
  BY <1>4, TokensStay DEF db
<1>6. QED
  BY <1>2, <1>3, <1>4, <1>5, WorkerInv

\* A request goes on, or begins, with rec for what it has read.
LEMMA StepInv ==
  ASSUME Inv, NEW p \in Workers, NEW step \in Steps, NEW rec \in Request,
         pc' = [pc EXCEPT ![p] = step], request' = [request EXCEPT ![p] = rec],
         UNCHANGED <<now, db, accepted, denied>>,
         entered' \in [Grants -> SUBSET Users],
         \A g \in Grants : entered[g] \subseteq entered'[g],
         Exists(rec.grant),
         step \in {"expiring", "binding", "accepting", "denying"} => rec.user \in Users,
         step = "binding" => rec.user \in entered'[rec.grant],
         step \in {"authorized", "saving"} => accepted[rec.grant] # {},
         step = "saving" => rec.user \in entered[rec.grant] \cup {Anonymous}
  PROVE  Inv'
<1>1. TypeOK'
  BY DEF Inv, TypeOK, db
<1>2. /\ pc'[p] = step /\ request'[p] = rec /\ rec # Absent /\ rec.grant \in Grants
      /\ \A q \in Workers \ {p} : pc'[q] = pc[q] /\ request'[q] = request[q]
  BY AbsentAssumption DEF Inv, TypeOK, Request
<1>3. RequestSound(p)'
  <2>1. Exists(request[p].grant)'
    BY <1>2 DEF Exists, db
  <2>2. QED
    BY <1>2, <2>1 DEF RequestSound, Steps
<1>4. FreshGrants' /\ GrantsSound' /\ Grows
  BY DbGrows
<1>5. TokensNeedAcceptance' /\ TokenUserEnteredCode'
  BY <1>4, TokensStay DEF db
<1>6. QED
  BY <1>1, <1>2, <1>3, <1>4, <1>5, WorkerInv
-----------------------------------------------------------------------------
(* The views                                                                 *)

\* A new row is pending, under a key that nothing was known of.
LEMMA InitiateInv ==
  ASSUME Inv, NEW c \in Clients, NEW code \in UserCodes, Initiate(c, code)
  PROVE  Inv'
<1>1. PICK g \in Grants : g = nextGrant
  BY ConstantsAssumption DEF Initiate, Inv, TypeOK, Grants
<1> DEFINE row == [client_id |-> c, user_code |-> code, user |-> Anonymous,
                   status |-> "authorization-pending", expires |-> now + EXPIRES_IN]
<1>2. /\ DeviceGrant' = [DeviceGrant EXCEPT ![g] = row] /\ nextGrant' = nextGrant + 1
      /\ UNCHANGED <<now, AccessToken, nextToken, pc, request, entered, accepted, denied>>
  BY <1>1 DEF Initiate, hist
<1>3. row \in GrantRow /\ row.user = Anonymous /\ row.status = "authorization-pending"
  BY ConstantsAssumption DEF GrantRow, Status, Inv, TypeOK
<1> HIDE DEF row
<1>4. TypeOK'
  BY <1>1, <1>2, <1>3, ConstantsAssumption DEF Inv, TypeOK, Grants
<1>5. FreshGrants'
  <2>1. ASSUME NEW h \in Grants, h >= nextGrant' PROVE h # g /\ h >= nextGrant
    BY <1>1, <1>2, <2>1, ConstantsAssumption DEF Grants, Inv, TypeOK
  <2>2. QED
    BY <1>2, <2>1 DEF Inv, TypeOK, FreshGrants, Exists
<1>6. /\ DeviceGrant'[g] = row /\ row # Absent
      /\ \A h \in Grants \ {g} : DeviceGrant'[h] = DeviceGrant[h]
  BY <1>2, <1>3, AbsentAssumption DEF Inv, TypeOK
<1>7. GrantsSound' /\ Grows
  BY <1>2, <1>3, <1>6 DEF Inv, GrantsSound, Grows, Exists, Authorized
<1>8. TokensNeedAcceptance' /\ TokenUserEnteredCode'
  BY <1>2, <1>7, TokensStay
<1>9. RequestsSound'
  <2>1. ASSUME NEW q \in Workers, Busy(q)' PROVE RequestSound(q)'
    BY <1>2, <1>7, <2>1, StaysSound DEF Busy
  <2>2. QED
    BY <2>1 DEF RequestsSound
<1>10. QED
  BY <1>4, <1>5, <1>7, <1>8, <1>9 DEF Inv

LEMMA EnterSharedCodeInv ==
  ASSUME Inv, NEW b \in Browsers, NEW code \in UserCodes,
         EnterSharedCode(b, code) \/ \E c \in Clients : ConfirmFails(b, c, code)
  PROVE  Inv'
<1>1. \E status \in Answers : Answer(b, status)
  BY DEF EnterSharedCode, ConfirmFails, Answers
<1>2. b \in Workers
  BY DEF Workers
<1>3. QED
  BY <1>1, <1>2, AnswerInv DEF EnterSharedCode, ConfirmFails, hist, Inv, TypeOK

LEMMA EnterCodeInv ==
  ASSUME Inv, NEW b \in Browsers, NEW u \in Users, NEW g \in Grants, EnterCode(b, u, g)
  PROVE  Inv'
<1>1. /\ UNCHANGED <<now, db, accepted, denied>> /\ Exists(g) /\ b \in Workers
      /\ entered' = [entered EXCEPT ![g] = @ \cup {u}]
  BY DEF EnterCode, Workers
<1>2. /\ entered' \in [Grants -> SUBSET Users] /\ u \in entered'[g]
      /\ \A h \in Grants : entered[h] \subseteq entered'[h]
  BY <1>1 DEF Inv, TypeOK
<1>3. CASE \E step \in {"expiring", "binding"} : Begin(b, step, g, u)
  <2> DEFINE rec == [grant |-> g, user |-> u]
  <2>1. rec \in Request /\ rec.grant = g /\ rec.user = u
    BY DEF Request
  <2>2. PICK step \in {"expiring", "binding"} :
          pc' = [pc EXCEPT ![b] = step] /\ request' = [request EXCEPT ![b] = rec]
    BY <1>3 DEF Begin, Goto
  <2> HIDE DEF rec
  <2>3. QED
    BY <1>1, <1>2, <2>1, <2>2, StepInv DEF Steps
<1>4. CASE Answer(b, "refused")
  BY <1>1, <1>2, <1>4, AnswerInv DEF Answers
<1>5. QED
  BY <1>3, <1>4 DEF EnterCode

LEMMA ConfirmInv ==
  ASSUME Inv, NEW b \in Browsers, NEW u \in Users, NEW g \in Grants,
         NEW decision \in {"accepting", "denying"}, Confirm(b, u, g, decision)
  PROVE  Inv'
<1> DEFINE rec == [grant |-> g, user |-> u]
<1>1. rec \in Request /\ rec.grant = g /\ rec.user = u /\ b \in Workers
  BY DEF Request, Workers
<1>2. /\ pc' = [pc EXCEPT ![b] = decision] /\ request' = [request EXCEPT ![b] = rec]
      /\ UNCHANGED <<now, db, hist>> /\ Exists(g)
  BY DEF Confirm, Begin, Goto
<1> HIDE DEF rec
<1>3. QED
  BY <1>1, <1>2, StepInv DEF Steps, hist, Inv, TypeOK

\* A save of one column of a row: the row stays, with the user who is saved having
\* entered the code, or the status saved being "authorized" only after an acceptance.
LEMMA SaveInv ==
  ASSUME Inv, NEW b \in Workers, NEW g \in Grants, NEW row \in GrantRow,
         Exists(g), NEW answer \in Answers, Answer(b, answer),
         DeviceGrant' = [DeviceGrant EXCEPT ![g] = row],
         row.user \in entered[g] \cup {Anonymous},
         row.status = "authorized" => accepted'[g] # {},
         UNCHANGED <<now, nextGrant, AccessToken, nextToken, entered>>,
         accepted' \in [Grants -> SUBSET Users], denied' \in [Grants -> SUBSET Users],
         \A h \in Grants : accepted[h] \subseteq accepted'[h],
         \A h \in Grants \ {g} : accepted'[h] = accepted[h] /\ denied'[h] = denied[h]
  PROVE  Inv'
<1>1. pc' = [pc EXCEPT ![b] = answer] /\ request' = [request EXCEPT ![b] = Absent]
  BY DEF Answer, Goto
<1>2. /\ ~Busy(b)'
      /\ \A q \in Workers \ {b} : pc'[q] = pc[q] /\ request'[q] = request[q]
  BY <1>1 DEF Inv, TypeOK, Busy, Answers, Steps
<1>3. /\ DeviceGrant'[g] = row /\ row # Absent
      /\ \A h \in Grants \ {g} : DeviceGrant'[h] = DeviceGrant[h]
  BY AbsentAssumption DEF Inv, TypeOK
<1>4. TypeOK'
  BY <1>1 DEF Inv, TypeOK
<1>5. FreshGrants'
  BY <1>3 DEF Inv, FreshGrants, Exists
<1>6. GrantsSound' /\ Grows
  BY <1>3 DEF Inv, GrantsSound, Grows, Exists, Authorized
<1>7. TokensNeedAcceptance' /\ TokenUserEnteredCode'
  BY <1>6, TokensStay
<1>8. QED
  BY <1>2, <1>4, <1>5, <1>6, <1>7, WorkerInv

LEMMA FinishInv ==
  ASSUME Inv, NEW b \in Browsers, Finish(b)
  PROVE  Inv'
<1>1. /\ Busy(b) /\ b \in Workers
      /\ pc[b] \in {"expiring", "binding", "accepting", "denying"}
  BY DEF Finish, MarkExpired, BindUser, Accept, Deny, Busy, Steps, Workers
<1>2. PICK g \in Grants, old \in GrantRow, u \in Users :
        /\ g = request[b].grant /\ old = DeviceGrant[g] /\ u = request[b].user /\ Exists(g)
  BY <1>1, RequestKnown DEF RequestSound
<1>3. /\ old.user \in entered[g] \cup {Anonymous}
      /\ old.status = "authorized" => accepted[g] # {}
  BY <1>2 DEF Inv, GrantsSound, Authorized
<1>4. \A status \in Status : LET row == [old EXCEPT !.status = status] IN
        row \in GrantRow /\ row.status = status /\ row.user = old.user
  BY DEF GrantRow
<1>5. LET row == [old EXCEPT !.user = u] IN
        row \in GrantRow /\ row.status = old.status /\ row.user = u
  BY DEF GrantRow
<1>6. CASE MarkExpired(b)
  <2>1. /\ Answer(b, "refused")
        /\ DeviceGrant' = [DeviceGrant EXCEPT ![g] = [old EXCEPT !.status = "expired"]]
        /\ UNCHANGED <<now, nextGrant, AccessToken, nextToken, entered, accepted, denied>>
    BY <1>2, <1>6 DEF MarkExpired, SaveStatus, hist
  <2>2. "expired" \in Status
    BY DEF Status
  <2>3. QED
    BY <1>1, <1>2, <1>3, <1>4, <2>1, <2>2, SaveInv DEF Answers, Inv, TypeOK
<1>7. CASE BindUser(b)
  <2>1. /\ Answer(b, "ok") /\ u \in entered[g]
        /\ DeviceGrant' = [DeviceGrant EXCEPT ![g] = [old EXCEPT !.user = u]]
        /\ UNCHANGED <<now, nextGrant, AccessToken, nextToken, entered, accepted, denied>>
    BY <1>1, <1>2, <1>7, RequestKnown DEF BindUser, RequestSound, hist
  <2>2. QED
    BY <1>1, <1>2, <1>3, <1>5, <2>1, SaveInv DEF Answers, Inv, TypeOK
<1>8. CASE Accept(b)
  <2>1. /\ Answer(b, "ok")
        /\ DeviceGrant' = [DeviceGrant EXCEPT ![g] = [old EXCEPT !.status = "authorized"]]
        /\ accepted' = [accepted EXCEPT ![g] = @ \cup {u}]
        /\ UNCHANGED <<now, nextGrant, AccessToken, nextToken, entered, denied>>
    BY <1>2, <1>8 DEF Accept, SaveStatus
  <2>2. /\ accepted' \in [Grants -> SUBSET Users] /\ accepted'[g] # {}
        /\ \A h \in Grants : accepted[h] \subseteq accepted'[h]
        /\ \A h \in Grants \ {g} : accepted'[h] = accepted[h]
    BY <2>1 DEF Inv, TypeOK
  <2>3. "authorized" \in Status /\ "ok" \in Answers
    BY DEF Status, Answers
  <2>4. QED
    BY <1>1, <1>2, <1>3, <1>4, <2>1, <2>2, <2>3, SaveInv DEF Inv, TypeOK
<1>9. CASE Deny(b)
  <2>1. /\ Answer(b, "ok")
        /\ DeviceGrant' = [DeviceGrant EXCEPT ![g] = [old EXCEPT !.status = "denied"]]
        /\ denied' = [denied EXCEPT ![g] = @ \cup {u}]
        /\ UNCHANGED <<now, nextGrant, AccessToken, nextToken, entered, accepted>>
    BY <1>2, <1>9 DEF Deny, SaveStatus
  <2>2. /\ denied' \in [Grants -> SUBSET Users]
        /\ \A h \in Grants \ {g} : denied'[h] = denied[h]
    BY <2>1 DEF Inv, TypeOK
  <2>3. "denied" \in Status /\ "ok" \in Answers
    BY DEF Status, Answers
  <2>4. QED
    BY <1>1, <1>2, <1>3, <1>4, <2>1, <2>2, <2>3, SaveInv DEF Inv, TypeOK
<1>10. QED
  BY <1>6, <1>7, <1>8, <1>9 DEF Finish
-----------------------------------------------------------------------------
(* The polls                                                                 *)

LEMMA PollInv ==
  ASSUME Inv, NEW p \in Pollers, NEW g \in Grants, Poll(p, g)
  PROVE  Inv'
<1>1. p \in Workers
  BY DEF Workers
<1>2. CASE PollRefused(p, g)
  BY <1>1, <1>2, AnswerInv DEF PollRefused, Answers, hist, Inv, TypeOK
<1>3. CASE PollAuthorized(p, g)
  <2> DEFINE rec == [grant |-> g, user |-> Anonymous]
  <2>1. rec \in Request /\ rec.grant = g
    BY DEF Request
  <2>2. /\ pc' = [pc EXCEPT ![p] = "authorized"] /\ request' = [request EXCEPT ![p] = rec]
        /\ UNCHANGED <<now, db, hist>> /\ Authorized(g)
    BY <1>3 DEF PollAuthorized, Begin, Goto
  <2> HIDE DEF rec
  <2>3. Exists(g) /\ accepted[g] # {}
    BY <2>2 DEF Authorized, Inv, GrantsSound
  <2>4. QED
    BY <1>1, <2>1, <2>2, <2>3, StepInv DEF Steps, hist, Inv, TypeOK
<1>4. QED
  BY <1>2, <1>3 DEF Poll

\* The user is read from the row a second time: whoever it is entered the code.
LEMMA ReadUserInv ==
  ASSUME Inv, NEW p \in Pollers, ReadUser(p)
  PROVE  Inv'
<1>1. pc[p] = "authorized" /\ Busy(p) /\ p \in Workers /\ UNCHANGED <<now, db, hist>>
  BY DEF ReadUser, Busy, Steps, Workers
<1>2. PICK g \in Grants, row \in GrantRow :
        g = request[p].grant /\ row = DeviceGrant[g] /\ Exists(g)
  BY <1>1, RequestKnown DEF RequestSound
<1>3. /\ row.user \in entered[g] \cup {Anonymous} /\ accepted[g] # {}
      /\ row.user \in Users \cup {Anonymous}
  BY <1>1, <1>2, RequestKnown DEF RequestSound, Inv, GrantsSound, GrantRow
<1> DEFINE rec == [request[p] EXCEPT !.user = row.user]
<1>4. /\ pc' = [pc EXCEPT ![p] = "saving"] /\ request' = [request EXCEPT ![p] = rec]
  BY <1>2 DEF ReadUser, Goto
<1>5. rec \in Request /\ rec.grant = g /\ rec.user = row.user
  BY <1>1, <1>2, <1>3, RequestKnown DEF Request
<1> HIDE DEF rec
<1>6. QED
  BY <1>1, <1>2, <1>3, <1>4, <1>5, StepInv DEF Steps, hist, Inv, TypeOK

LEMMA SaveTokenInv ==
  ASSUME Inv, NEW p \in Pollers, SaveToken(p)
  PROVE  Inv'
<1>1. pc[p] = "saving" /\ Busy(p) /\ p \in Workers
  BY DEF SaveToken, Busy, Steps, Workers
<1>2. PICK t \in Tokens : t = nextToken
  BY ConstantsAssumption DEF SaveToken, Inv, TypeOK, Tokens
<1>3. PICK g \in Grants, u \in Users :
        /\ g = request[p].grant /\ u = request[p].user
        /\ u \in entered[g] /\ accepted[g] # {}
  BY <1>1, RequestKnown DEF SaveToken, RequestSound, Request
<1>4. PICK row \in TokenRow : row = [grant |-> g, user |-> u]
  BY DEF TokenRow
<1>5. /\ AccessToken' = [AccessToken EXCEPT ![t] = row]
      /\ nextToken' = nextToken + 1
      /\ pc' = [pc EXCEPT ![p] = "ok"] /\ request' = [request EXCEPT ![p] = Absent]
      /\ UNCHANGED <<now, DeviceGrant, nextGrant, entered, accepted, denied>>
  BY <1>2, <1>3, <1>4 DEF SaveToken, Answer, Goto, hist
<1>6. TypeOK'
  BY <1>1, <1>2, <1>5, ConstantsAssumption DEF Inv, TypeOK, Answers, Tokens
<1>7. /\ ~Busy(p)'
      /\ \A q \in Workers \ {p} : pc'[q] = pc[q] /\ request'[q] = request[q]
  BY <1>1, <1>5 DEF Inv, TypeOK, Busy, Steps
<1>8. FreshGrants' /\ GrantsSound' /\ Grows
  BY <1>5 DEF Inv, FreshGrants, GrantsSound, Grows, Exists, Authorized
<1>9. TokensNeedAcceptance' /\ TokenUserEnteredCode'
  <2>1. row.grant = g /\ row.user = u
    BY <1>4
  <2>2. \A s \in Tokens : AccessToken'[s] = IF s = t THEN row ELSE AccessToken[s]
    BY <1>5 DEF Inv, TypeOK
  <2>3. QED
    BY <1>3, <1>5, <2>1, <2>2 DEF Inv, TokensNeedAcceptance, TokenUserEnteredCode
<1>10. QED
  BY <1>1, <1>6, <1>7, <1>8, <1>9, WorkerInv

LEMMA SaveTokenFailsInv ==
  ASSUME Inv, NEW p \in Pollers, SaveTokenFails(p)
  PROVE  Inv'
<1>1. p \in Workers
  BY DEF Workers
<1>2. QED
  BY <1>1, AnswerInv DEF SaveTokenFails, Answers, hist, Inv, TypeOK

LEMMA StandInv ==
  ASSUME Inv, now' \in 1..MaxTime, UNCHANGED <<db, pc, request, hist>>
  PROVE  Inv'
BY DEF db, hist, Inv, TypeOK, FreshGrants, GrantsSound, RequestsSound, RequestSound,
       TokensNeedAcceptance, TokenUserEnteredCode, Exists, Authorized, Busy

LEMMA NextInv == Inv /\ [Next]_vars => Inv'
<1>1. SUFFICES ASSUME Inv, [Next]_vars PROVE Inv'
  OBVIOUS
<1>2. ASSUME NEW b \in Browsers, Visit(b) PROVE Inv'
  BY <1>1, <1>2, EnterSharedCodeInv, EnterCodeInv, ConfirmInv DEF Visit
<1>3. ASSUME NEW p \in Pollers, Respond(p) PROVE Inv'
  BY <1>1, <1>3, ReadUserInv, SaveTokenInv, SaveTokenFailsInv DEF Respond
<1>4. CASE Tick
  BY <1>1, <1>4, StandInv, ConstantsAssumption DEF Tick, Inv, TypeOK
<1>5. CASE UNCHANGED vars
  BY <1>1, <1>5, StandInv DEF vars, Inv, TypeOK
<1>6. QED
  BY <1>1, <1>2, <1>3, <1>4, <1>5, InitiateInv, FinishInv, PollInv DEF Next

\* The inductive invariant holds in every state that can be reached.
THEOREM Invariance == Spec => []Inv
BY InitInv, NextInv, PTL DEF Spec

\* The tables, the requests and the history keep their types: a save of one column of
\* a row that was read before always finds a row.
THEOREM TypeCorrect == Spec => []TypeOK
<1>1. Inv => TypeOK
  BY DEF Inv
<1>2. QED
  BY <1>1, Invariance, PTL

\* A device gets tokens only of a grant that some user accepted, however polls,
\* decisions and expiry interleave.
THEOREM TokensAccepted == Spec => []TokensNeedAcceptance
<1>1. Inv => TokensNeedAcceptance
  BY DEF Inv
<1>2. QED
  BY <1>1, Invariance, PTL

\* A token is a user's only if that user entered the code of that very device: also
\* when requests run at once, and when two devices show the same code.
THEOREM TokensOfWhoEntered == Spec => []TokenUserEnteredCode
<1>1. Inv => TokenUserEnteredCode
  BY DEF Inv
<1>2. QED
  BY <1>1, Invariance, PTL
-----------------------------------------------------------------------------
(* Nothing is pending again                                                  *)

\* The status of a row after a step: the one it had, or one that a view saves
StatusMoves(g) ==
  Exists(g) => DeviceGrant'[g].status
                 \in {DeviceGrant[g].status, "expired", "authorized", "denied"}

LEMMA StepMovesStatus ==
  ASSUME Inv, [Next]_vars, NEW g \in Grants
  PROVE  StatusMoves(g)
<1>1. CASE UNCHANGED DeviceGrant
  BY <1>1 DEF StatusMoves
<1>2. ASSUME NEW c \in Clients, NEW code \in UserCodes, Initiate(c, code) PROVE StatusMoves(g)
  BY <1>2, ConstantsAssumption
  DEF Initiate, StatusMoves, Inv, TypeOK, FreshGrants, Grants
<1>3. ASSUME NEW b \in Browsers, Finish(b) PROVE StatusMoves(g)
  <2>1. Busy(b) /\ b \in Workers
    BY <1>3 DEF Finish, MarkExpired, BindUser, Accept, Deny, Busy, Steps, Workers
  <2>2. PICK h \in Grants, old \in GrantRow : h = request[b].grant /\ old = DeviceGrant[h]
    BY <2>1, RequestKnown
  <2>3. PICK row : DeviceGrant' = [DeviceGrant EXCEPT ![h] = row]
                   /\ row.status \in {old.status, "expired", "authorized", "denied"}
    <3>1. \A status : LET row == [old EXCEPT !.status = status] IN row.status = status
      BY DEF GrantRow
    <3>2. LET row == [old EXCEPT !.user = request[b].user] IN row.status = old.status
      BY DEF GrantRow
    <3>3. QED
      BY <1>3, <2>2, <3>1, <3>2 DEF Finish, MarkExpired, BindUser, Accept, Deny, SaveStatus
  <2>4. QED
    BY <2>2, <2>3 DEF StatusMoves, Inv, TypeOK
<1>4. QED
  BY <1>1, <1>2, <1>3
  DEF Next, Visit, EnterSharedCode, ConfirmFails, EnterCode, Confirm, Respond, ReadUser,
      SaveToken, SaveTokenFails, Poll, PollRefused, PollAuthorized, Tick, db, vars

\* A grant that was decided or has expired never waits for a decision again, although
\* the views save what they decided on a row they read before.
THEOREM DecisionsStand == Spec => NeverPendingAgain
<1>1. Inv /\ [Next]_vars =>
        [\A g \in Grants :
           Exists(g) /\ DeviceGrant[g].status # "authorization-pending"
             => DeviceGrant'[g].status # "authorization-pending"]_vars
  BY StepMovesStatus DEF StatusMoves
<1>2. QED
  BY <1>1, Invariance, PTL DEF Spec, NeverPendingAgain
-----------------------------------------------------------------------------
(* One decision, where one request is served at a time                       *)

LEMMA InitDecision == Init => DecisionInv
BY DEF Init, DecisionInv, OneAtATime, PendingUndecided, DecidersHoldPending, DecidedOnce,
       Exists, Busy, Steps

\* A request is begun when no other is under way, and goes on alone.
LEMMA Alone ==
  ASSUME Serial, DecisionInv, NEW p \in Workers,
         \/ p \in Browsers /\ (Visit(p) \/ Finish(p))
         \/ p \in Pollers /\ (Respond(p) \/ \E g \in Grants : Poll(p, g))
  PROVE  \A q \in Workers \ {p} : ~Busy(q)
<1>1. CASE Visit(p) \/ \E g \in Grants : Poll(p, g)
  BY <1>1
  DEF Visit, EnterSharedCode, ConfirmFails, EnterCode, Confirm, Poll, PollRefused,
      PollAuthorized, Free, Undisturbed
<1>2. CASE Finish(p) \/ Respond(p)
  <2>1. Busy(p)
    BY <1>2 DEF Finish, MarkExpired, BindUser, Accept, Deny, Respond, ReadUser, SaveToken,
                SaveTokenFails, Busy, Steps
  <2>2. QED
    BY <2>1 DEF DecisionInv, OneAtATime
<1>3. QED
  BY <1>1, <1>2

\* A step of the only request under way that leaves the rows and decisions alone
LEMMA WorkerDecision ==
  ASSUME Inv, DecisionInv, NEW p \in Workers,
         \A q \in Workers \ {p} : ~Busy(q) /\ pc'[q] = pc[q],
         UNCHANGED <<DeviceGrant, accepted, denied>>,
         pc'[p] \in {"accepting", "denying"}
           => DeviceGrant[request'[p].grant].status = "authorization-pending"
  PROVE  DecisionInv'
<1>1. \A q \in Workers \ {p} : ~Busy(q)'
  BY DEF Busy
<1>2. OneAtATime' /\ DecidersHoldPending'
  BY <1>1 DEF OneAtATime, DecidersHoldPending, Busy, Steps
<1>3. PendingUndecided' /\ DecidedOnce'
  BY DEF DecisionInv, PendingUndecided, DecidedOnce, Exists
<1>4. QED
  BY <1>2, <1>3 DEF DecisionInv

LEMMA VisitDecision ==
  ASSUME Serial, Inv, DecisionInv, NEW b \in Browsers, Visit(b)
  PROVE  DecisionInv'
<1>1. b \in Workers /\ UNCHANGED <<DeviceGrant, accepted, denied>>
  BY DEF Workers, Visit, EnterSharedCode, ConfirmFails, EnterCode, Confirm, db, hist
<1>2. \A q \in Workers \ {b} : ~Busy(q)
  BY <1>1, Alone
<1>3. ASSUME NEW u \in Users, NEW g \in Grants, NEW decision \in {"accepting", "denying"},
             Confirm(b, u, g, decision)
      PROVE  DecisionInv'
  <2>1. /\ pc' = [pc EXCEPT ![b] = decision]
        /\ request' = [request EXCEPT ![b] = [grant |-> g, user |-> u]]
        /\ g \in Pending(DeviceGrant[g].client_id, DeviceGrant[g].user_code)
    BY <1>3 DEF Confirm, Begin, Goto
  <2>2. /\ \A q \in Workers \ {b} : pc'[q] = pc[q]
        /\ request'[b].grant = g
    BY <1>1, <2>1 DEF Inv, TypeOK
  <2>3. DeviceGrant[g].status = "authorization-pending"
    BY <2>1 DEF Pending
  <2>4. QED
    BY <1>1, <1>2, <2>2, <2>3, WorkerDecision
<1>4. CASE \E step \in (Steps \cup Answers) \ {"accepting", "denying"} :
             pc' = [pc EXCEPT ![b] = step]
  BY <1>1, <1>2, <1>4, WorkerDecision DEF Inv, TypeOK
<1>5. QED
  BY <1>3, <1>4
  DEF Visit, EnterSharedCode, ConfirmFails, EnterCode, Begin, Answer, Goto, Steps, Answers

LEMMA RespondDecision ==
  ASSUME Serial, Inv, DecisionInv, NEW p \in Pollers,
         Respond(p) \/ \E g \in Grants : Poll(p, g)
  PROVE  DecisionInv'
<1>1. /\ p \in Workers /\ UNCHANGED <<DeviceGrant, accepted, denied>>
      /\ \E step \in (Steps \cup Answers) \ {"accepting", "denying"} :
           pc' = [pc EXCEPT ![p] = step]
  BY DEF Workers, Respond, ReadUser, SaveToken, SaveTokenFails, Poll, PollRefused,
         PollAuthorized, Begin, Answer, Goto, Steps, Answers, db, hist
<1>2. \A q \in Workers \ {p} : ~Busy(q)
  BY <1>1, Alone
<1>3. QED
  BY <1>1, <1>2, WorkerDecision DEF Inv, TypeOK

\* The decision is made on a grant that is pending still, so it is the first one.
LEMMA FinishDecision ==
  ASSUME Serial, Inv, DecisionInv, NEW b \in Browsers, Finish(b)
  PROVE  DecisionInv'
<1>1. /\ Busy(b) /\ b \in Workers
      /\ pc[b] \in {"expiring", "binding", "accepting", "denying"}
  BY DEF Finish, MarkExpired, BindUser, Accept, Deny, Busy, Steps, Workers
<1>2. PICK g \in Grants, old \in GrantRow :
        g = request[b].grant /\ old = DeviceGrant[g] /\ Exists(g)
  BY <1>1, RequestKnown DEF RequestSound
<1>3. \A q \in Workers \ {b} : ~Busy(q)
  BY <1>1, Alone
<1>4. \E status \in Answers : pc' = [pc EXCEPT ![b] = status]
  BY DEF Finish, MarkExpired, BindUser, Accept, Deny, Answer, Goto, Answers
<1>5. \A q \in Workers : ~Busy(q)'
  BY <1>1, <1>3, <1>4 DEF Inv, TypeOK, Busy, Steps, Answers
<1>6. OneAtATime' /\ DecidersHoldPending'
  BY <1>5 DEF OneAtATime, DecidersHoldPending, Busy, Steps
<1>7. \A status : LET row == [old EXCEPT !.status = status] IN row.status = status
  BY DEF GrantRow
<1>8. CASE MarkExpired(b) \/ BindUser(b)
  <2>1. PICK row : DeviceGrant' = [DeviceGrant EXCEPT ![g] = row]
                   /\ row.status \in {old.status, "expired"}
    <3>1. LET row == [old EXCEPT !.user = request[b].user] IN row.status = old.status
      BY DEF GrantRow
    <3>2. QED
      BY <1>2, <1>7, <1>8, <3>1 DEF MarkExpired, BindUser, SaveStatus
  <2>2. UNCHANGED <<accepted, denied>>
    BY <1>8 DEF MarkExpired, BindUser, hist
  <2>3. PendingUndecided' /\ DecidedOnce'
    BY <1>2, <2>1, <2>2 DEF DecisionInv, PendingUndecided, DecidedOnce, Exists, Inv, TypeOK
  <2>4. QED
    BY <1>6, <2>3 DEF DecisionInv
<1>9. CASE Accept(b) \/ Deny(b)
  <2>1. accepted[g] = {} /\ denied[g] = {}
    BY <1>1, <1>2, <1>9
    DEF Accept, Deny, DecisionInv, DecidersHoldPending, PendingUndecided
  <2>2. PICK row : DeviceGrant' = [DeviceGrant EXCEPT ![g] = row]
                   /\ row.status \in {"authorized", "denied"}
    BY <1>2, <1>7, <1>9 DEF Accept, Deny, SaveStatus
  <2>3. /\ accepted'[g] = {} \/ denied'[g] = {}
        /\ \A h \in Grants \ {g} : accepted'[h] = accepted[h] /\ denied'[h] = denied[h]
    BY <1>2, <1>9, <2>1 DEF Accept, Deny, Inv, TypeOK
  <2>4. PendingUndecided' /\ DecidedOnce'
    BY <1>2, <2>2, <2>3 DEF DecisionInv, PendingUndecided, DecidedOnce, Exists, Inv, TypeOK
  <2>5. QED
    BY <1>6, <2>4 DEF DecisionInv
<1>10. QED
  BY <1>8, <1>9 DEF Finish

LEMMA InitiateDecision ==
  ASSUME Serial, Inv, DecisionInv, NEW c \in Clients, NEW code \in UserCodes, Initiate(c, code)
  PROVE  DecisionInv'
<1>1. PICK g \in Grants : g = nextGrant
  BY ConstantsAssumption DEF Initiate, Inv, TypeOK, Grants
<1>2. /\ accepted[g] = {} /\ denied[g] = {}
  BY <1>1, ConstantsAssumption DEF Inv, FreshGrants, Grants
<1>3. /\ \A h \in Grants \ {g} : DeviceGrant'[h] = DeviceGrant[h]
      /\ UNCHANGED <<pc, request, accepted, denied>>
      /\ \A q \in Workers : ~Busy(q)
  BY <1>1 DEF Initiate, hist, Inv, TypeOK, Undisturbed
<1>4. \A q \in Workers : ~Busy(q)'
  BY <1>3 DEF Busy
<1>5. OneAtATime' /\ DecidersHoldPending'
  BY <1>4 DEF OneAtATime, DecidersHoldPending, Busy, Steps
<1>6. PendingUndecided' /\ DecidedOnce'
  BY <1>2, <1>3 DEF DecisionInv, PendingUndecided, DecidedOnce, Exists
<1>7. QED
  BY <1>5, <1>6 DEF DecisionInv

LEMMA NextDecision ==
  ASSUME Serial, Inv, DecisionInv, [Next]_vars
  PROVE  DecisionInv'
<1>1. CASE UNCHANGED <<DeviceGrant, pc, request, accepted, denied>>
  BY <1>1
  DEF DecisionInv, OneAtATime, PendingUndecided, DecidersHoldPending, DecidedOnce, Exists, Busy
<1>2. QED
  BY <1>1, InitiateDecision, VisitDecision, FinishDecision, RespondDecision
  DEF Next, Tick, vars, db, hist

THEOREM DecisionInvariance == ASSUME Serial PROVE Spec => []DecisionInv
BY InitDecision, NextDecision, Invariance, PTL DEF Spec

\* Where one request is served at a time one decision is made on a grant, and what was
\* denied is never redeemed.
THEOREM DecidedOnceOnly == ASSUME Serial PROVE Spec => []OneDecision
<1>1. Inv /\ DecisionInv => OneDecision
  <2>1. SUFFICES ASSUME Inv, DecisionInv, NEW g \in Grants
        PROVE  /\ accepted[g] = {} \/ denied[g] = {}
               /\ denied[g] # {} => \A t \in Tokens : AccessToken[t] # Absent
                                                        => AccessToken[t].grant # g
    BY DEF OneDecision
  <2>2. QED
    BY <2>1 DEF DecisionInv, DecidedOnce, Inv, TokensNeedAcceptance
<1>2. QED
  BY <1>1, Invariance, DecisionInvariance, PTL
=============================================================================
