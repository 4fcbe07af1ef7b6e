---------------------- MODULE AuthorizationCodeProofs ----------------------
(***************************************************************************)
(* Proofs about AuthorizationCode, for every number of workers, users,     *)
(* applications, scopes, grants and clock readings.                        *)
(***************************************************************************)
EXTENDS AuthorizationCode, TLAPS

LEMMA RowTypes ==
  ASSUME TypeOK
  PROVE  /\ \A g \in Codes : Grant[g] # Absent => Grant[g] \in GrantRow
         /\ \A g \in Codes : authorized[g] # Absent => authorized[g] \in GrantRow
         /\ \A t \in Tokens : AccessToken[t] # Absent => AccessToken[t] \in TokenRow
         /\ \A p \in Workers : request[p] # Absent => request[p] \in Request
BY DEF TypeOK

LEMMA InitInv == Init => Inv
BY ConstantsAssumption
DEF Init, Inv, TypeOK, GrantsKept, ConsentCovers, TokensMatchGrant, CodeBoundToRequest,
    ExchangesSound, DeletedOnce, AnsweredOnce, Busy, Steps, Answers
-----------------------------------------------------------------------------
(* The authorization endpoint                                                *)

\* The grants are the business of these conjuncts; of the exchanges only those
\* of codes created before are under way.
LEMMA CreateGrantInv ==
  ASSUME Inv, NEW u \in Users, NEW c \in Clients, NEW uri \in RedirectUris,
         NEW scope \in SUBSET Scopes, NEW challenge \in Verifiers \cup {None},
         CreateGrant(u, c, uri, scope, challenge),
         consent' \in [Users -> [Clients -> SUBSET Scopes]],
         \A v \in Users, d \in Clients : consent[v][d] \subseteq consent'[v][d],
         c \notin SkipAuthorization => scope \subseteq consent'[u][c]
  PROVE  Inv'
<1> DEFINE k == nextGrant
           row == [user |-> u, application |-> c, redirect_uri |-> uri, scope |-> scope,
                   code_challenge |-> challenge,
                   expires |-> now + AUTHORIZATION_CODE_EXPIRE_SECONDS]
<1>1. /\ k \in Codes /\ k + 1 \in 1..(MaxGrants + 1)
      /\ Grant' = [Grant EXCEPT ![k] = row]
      /\ authorized' = [authorized EXCEPT ![k] = row]
      /\ nextGrant' = k + 1
      /\ UNCHANGED <<now, AccessToken, nextToken, pc, request, committed, answered>>
  BY ConstantsAssumption DEF CreateGrant, Inv, TypeOK, Codes
<1>2. row \in GrantRow /\ row # Absent
  <2>1. now + AUTHORIZATION_CODE_EXPIRE_SECONDS \in Nat
    BY ConstantsAssumption DEF Inv, TypeOK
  <2>2. row \in GrantRow
    BY <2>1 DEF GrantRow
  <2>3. QED
    BY <2>2, AbsentAssumption
<1>3. /\ row.user = u /\ row.application = c /\ row.scope = scope
  OBVIOUS
<1> HIDE DEF row
<1>4. authorized[k] = Absent /\ answered[k] = {}
  BY <1>1 DEF Inv, GrantsKept, TypeOK
<1>5. \A g \in Codes : /\ Grant'[g] = IF g = k THEN row ELSE Grant[g]
                       /\ authorized'[g] = IF g = k THEN row ELSE authorized[g]
  BY <1>1 DEF Inv, TypeOK
<1>6. TypeOK'
  BY <1>1, <1>2 DEF Inv, TypeOK
<1>7. GrantsKept'
  BY <1>1, <1>4, <1>5 DEF Inv, GrantsKept, TypeOK, Codes
<1>8. ConsentCovers'
  <2>1. \A g \in Codes : authorized[g] # Absent =>
          authorized[g].user \in Users /\ authorized[g].application \in Clients
    BY RowTypes DEF Inv, GrantRow
  <2>2. QED
    BY <1>3, <1>5, <2>1 DEF Inv, ConsentCovers
<1>9. TokensMatchGrant' /\ CodeBoundToRequest'
  <2>1. \A t \in Tokens : AccessToken[t] # Absent =>
          AccessToken[t].by.code \in Codes /\ AccessToken[t].by.code # k
    BY <1>4, RowTypes DEF Inv, TokensMatchGrant, TokenRow, Exchange
  <2>2. QED
    BY <1>1, <1>5, <2>1 DEF Inv, TokensMatchGrant, CodeBoundToRequest
<1>10. \A p \in Workers : Busy(p) =>
         request[p].exchange.code \in Codes /\ request[p].exchange.code # k
  BY <1>4, RowTypes DEF Inv, ExchangesSound, ExchangeSound, Request, Exchange
<1>11. ExchangesSound'
  BY <1>1, <1>5, <1>10 DEF Inv, ExchangesSound, ExchangeSound, Busy
<1>12. DeletedOnce' /\ AnsweredOnce'
  BY <1>1, <1>5, <1>10 DEF Inv, DeletedOnce, AnsweredOnce, Busy, Steps
<1>13. QED
  BY <1>6, <1>7, <1>8, <1>9, <1>11, <1>12 DEF Inv

LEMMA AuthorizeInv ==
  ASSUME Inv, NEW u \in Users, NEW c \in Clients, NEW uri \in RedirectUris,
         NEW scope \in SUBSET Scopes, NEW challenge \in Verifiers \cup {None},
         Authorize(u, c, uri, scope, challenge)
  PROVE  Inv'
<1>1. consent' = [consent EXCEPT ![u][c] = @ \cup scope]
  BY DEF Authorize
<1>2. /\ consent' \in [Users -> [Clients -> SUBSET Scopes]]
      /\ \A v \in Users, d \in Clients :
           consent'[v][d] = IF v = u /\ d = c THEN consent[u][c] \cup scope ELSE consent[v][d]
  BY <1>1 DEF Inv, TypeOK
<1>3. QED
  BY <1>2, CreateGrantInv DEF Authorize

LEMMA SkipApprovalInv ==
  ASSUME Inv, NEW u \in Users, NEW c \in Clients, NEW uri \in RedirectUris,
         NEW scope \in SUBSET Scopes, NEW challenge \in Verifiers \cup {None},
         SkipApproval(u, c, uri, scope, challenge)
  PROVE  Inv'
BY CreateGrantInv DEF SkipApproval, Inv, TypeOK

\* The token that stands for the form was issued for a code, whose scope the user
\* allowed or inherited from such a token in turn.
LEMMA ConsentFollows == Inv => ScopeWithinConsent
<1>1. SUFFICES ASSUME Inv, NEW t \in Tokens, AccessToken[t] # Absent,
                      AccessToken[t].application \notin SkipAuthorization
               PROVE  AccessToken[t].scope \subseteq
                        consent[AccessToken[t].user][AccessToken[t].application]
  BY DEF ScopeWithinConsent
<1>2. AccessToken[t].by.code \in Codes
  BY <1>1, RowTypes DEF Inv, TokenRow, Exchange
<1>3. QED
  BY <1>1, <1>2 DEF Inv, TokensMatchGrant, ConsentCovers

LEMMA AutoApproveInv ==
  ASSUME Inv, NEW u \in Users, NEW c \in Clients, NEW uri \in RedirectUris,
         NEW scope \in SUBSET Scopes, NEW challenge \in Verifiers \cup {None},
         AutoApprove(u, c, uri, scope, challenge)
  PROVE  Inv'
<1>1. PICK t \in PastAuthorizations(u, c) : scope \subseteq AccessToken[t].scope
  BY DEF AutoApprove
<1>2. scope \subseteq consent[u][c]
  BY <1>1, ConsentFollows DEF AutoApprove, PastAuthorizations, ScopeWithinConsent
<1>3. QED
  BY <1>2, CreateGrantInv DEF AutoApprove, Inv, TypeOK
-----------------------------------------------------------------------------
(* The token endpoint                                                        *)

\* An exchange that ends, or has none to end, leaves the tables as they are.
LEMMA AnswerInv ==
  ASSUME Inv, NEW p \in Workers, NEW status \in Answers, Answer(p, status),
         UNCHANGED <<now, db, hist>>
  PROVE  Inv'
<1>1. /\ pc' = [pc EXCEPT ![p] = status]
      /\ request' = [request EXCEPT ![p] = Absent]
  BY DEF Answer, Goto
<1>2. TypeOK'
  BY <1>1 DEF Inv, TypeOK, db, hist
<1>3. \A q \in Workers : Busy(q)' => q # p /\ pc'[q] = pc[q] /\ request'[q] = request[q]
  BY <1>1 DEF Inv, TypeOK, Busy, Answers, Steps
<1>4. ExchangesSound'
  BY <1>3 DEF Inv, ExchangesSound, ExchangeSound, Busy, db, hist
<1>5. DeletedOnce'
  BY <1>3 DEF Inv, DeletedOnce, Busy, Steps, db, hist
<1>6. GrantsKept' /\ ConsentCovers' /\ TokensMatchGrant' /\ CodeBoundToRequest' /\ AnsweredOnce'
  BY DEF Inv, GrantsKept, ConsentCovers, TokensMatchGrant, CodeBoundToRequest, AnsweredOnce,
         db, hist
<1>7. QED
  BY <1>2, <1>4, <1>5, <1>6 DEF Inv

\* A step of one exchange towards its tokens, with nothing written yet
LEMMA LookupInv ==
  ASSUME Inv, NEW p \in Workers, NEW step \in {"validated", "challenged", "confirmed"},
         pc' = [pc EXCEPT ![p] = step],
         request' \in [Workers -> Request \cup {Absent}],
         \A q \in Workers \ {p} : request'[q] = request[q],
         ExchangeSound(p)',
         UNCHANGED <<now, db, hist>>
  PROVE  Inv'
<1>1. TypeOK'
  BY DEF Inv, TypeOK, Steps, db, hist
<1>2. \A q \in Workers \ {p} : pc'[q] = pc[q]
  BY DEF Inv, TypeOK
<1>3. pc'[p] = step
  BY DEF Inv, TypeOK
<1>4. ExchangesSound'
  BY <1>2 DEF Inv, ExchangesSound, ExchangeSound, Busy, db, hist
<1>5. DeletedOnce'
  BY <1>2, <1>3 DEF Inv, DeletedOnce, db, hist
<1>6. GrantsKept' /\ ConsentCovers' /\ TokensMatchGrant' /\ CodeBoundToRequest' /\ AnsweredOnce'
  BY DEF Inv, GrantsKept, ConsentCovers, TokensMatchGrant, CodeBoundToRequest, AnsweredOnce,
         db, hist
<1>7. QED
  BY <1>1, <1>4, <1>5, <1>6 DEF Inv

LEMMA ValidateCodeInv ==
  ASSUME Inv, NEW p \in Workers, NEW e \in Exchange, ValidateCode(p, e)
  PROVE  Inv'
<1> DEFINE rec == [exchange |-> e, user |-> Grant[e.code].user,
                   scopes |-> Grant[e.code].scope, token |-> Absent]
<1>1. /\ Grant[e.code] # Absent /\ Grant[e.code].application = e.client
      /\ request' = [request EXCEPT ![p] = rec]
      /\ pc' = [pc EXCEPT ![p] = "validated"]
      /\ UNCHANGED <<now, db, hist>>
  BY DEF ValidateCode, Found, Goto
<1>2. e.code \in Codes /\ Grant[e.code] \in GrantRow /\ Grant[e.code] = authorized[e.code]
  BY <1>1, RowTypes DEF Inv, GrantsKept, Exchange
<1>3. rec \in Request /\ rec # Absent
  <2>1. rec \in Request
    BY <1>2 DEF Request, GrantRow
  <2>2. QED
    BY <2>1, AbsentAssumption
<1>4. request' \in [Workers -> Request \cup {Absent}]
  BY <1>1, <1>3 DEF Inv, TypeOK
<1>5. ExchangeSound(p)'
  BY <1>1, <1>2, <1>3 DEF ExchangeSound, Inv, TypeOK, db, hist
<1>6. QED
  BY <1>1, <1>4, <1>5, LookupInv DEF Inv, TypeOK

LEMMA CheckChallengeInv ==
  ASSUME Inv, NEW p \in Workers, CheckChallenge(p)
  PROVE  Inv'
<1> DEFINE e == request[p].exchange
<1>1. pc[p] = "validated" /\ Found(e.code, e.client) /\ UNCHANGED <<now, db, hist>>
  BY DEF CheckChallenge
<1>2. CASE ~ChallengeMet(e)
  <2>1. Answer(p, "denied")
    BY <1>2 DEF CheckChallenge
  <2>2. QED
    BY <1>1, <2>1, AnswerInv DEF Answers
<1>3. CASE ChallengeMet(e)
  <2>1. pc' = [pc EXCEPT ![p] = "challenged"] /\ UNCHANGED request
    BY <1>3 DEF CheckChallenge, Goto
  <2>2. ExchangeSound(p)
    BY <1>1 DEF Inv, ExchangesSound, Busy, Steps
  <2>3. Grant[e.code] = authorized[e.code]
    BY <1>1, <2>2, RowTypes DEF Found, Inv, GrantsKept, ExchangeSound, Request, Exchange
  <2>4. ExchangeSound(p)'
    BY <1>1, <1>3, <2>1, <2>2, <2>3 DEF ExchangeSound, ChallengeMet, Inv, TypeOK, db, hist
  <2>5. QED
    BY <1>1, <2>1, <2>4, LookupInv DEF Inv, TypeOK
<1>4. QED
  BY <1>2, <1>3

LEMMA ConfirmRedirectUriInv ==
  ASSUME Inv, NEW p \in Workers, ConfirmRedirectUri(p)
  PROVE  Inv'
<1> DEFINE e == request[p].exchange
<1>1. pc[p] = "challenged" /\ Found(e.code, e.client) /\ UNCHANGED <<now, db, hist>>
  BY DEF ConfirmRedirectUri
<1>2. CASE e.redirect_uri # Grant[e.code].redirect_uri
  <2>1. Answer(p, "denied")
    BY <1>2 DEF ConfirmRedirectUri
  <2>2. QED
    BY <1>1, <2>1, AnswerInv DEF Answers
<1>3. CASE e.redirect_uri = Grant[e.code].redirect_uri
  <2>1. pc' = [pc EXCEPT ![p] = "confirmed"] /\ UNCHANGED request
    BY <1>3 DEF ConfirmRedirectUri, Goto
  <2>2. ExchangeSound(p)
    BY <1>1 DEF Inv, ExchangesSound, Busy, Steps
  <2>3. Grant[e.code] = authorized[e.code]
    BY <1>1, <2>2, RowTypes DEF Found, Inv, GrantsKept, ExchangeSound, Request, Exchange
  <2>4. ExchangeSound(p)'
    BY <1>1, <1>3, <2>1, <2>2, <2>3 DEF ExchangeSound, Inv, TypeOK, db, hist
  <2>5. QED
    BY <1>1, <2>1, <2>4, LookupInv DEF Inv, TypeOK
<1>4. QED
  BY <1>2, <1>3

\* The tokens take over what the exchange was shown to know of its grant.
LEMMA SaveTokensInv ==
  ASSUME Inv, NEW p \in Workers, SaveTokens(p)
  PROVE  Inv'
<1> DEFINE e == request[p].exchange
           k == nextToken
           row == [user |-> request[p].user, application |-> e.client,
                   scope |-> request[p].scopes, by |-> e]
           rec == [request[p] EXCEPT !.token = k]
<1>1. /\ pc[p] = "confirmed" /\ k <= MaxTokens
      /\ AccessToken' = [AccessToken EXCEPT ![k] = row]
      /\ committed' = [committed EXCEPT ![e.code] = @ \cup {k}]
      /\ request' = [request EXCEPT ![p] = rec]
      /\ nextToken' = k + 1
      /\ pc' = [pc EXCEPT ![p] = "saved"]
      /\ UNCHANGED <<now, Grant, nextGrant, consent, authorized, answered>>
  BY DEF SaveTokens, Goto
<1>2. k \in Tokens /\ k + 1 \in 1..(MaxTokens + 1)
  BY <1>1, ConstantsAssumption DEF Inv, TypeOK, Tokens
<1>3. ExchangeSound(p)
  BY <1>1 DEF Inv, ExchangesSound, Busy, Steps
<1>4. request[p] \in Request /\ e \in Exchange /\ e.code \in Codes
  BY <1>3, RowTypes DEF Inv, ExchangeSound, Request, Exchange
<1>5. rec \in Request /\ rec # Absent /\ rec.token = k /\ rec.exchange = e
      /\ rec.user = request[p].user /\ rec.scopes = request[p].scopes
  <2>1. rec \in Request
    BY <1>2, <1>4 DEF Request
  <2>2. QED
    BY <1>4, <2>1, AbsentAssumption DEF Request
<1>6. row \in TokenRow /\ row # Absent
  <2>1. row \in TokenRow
    BY <1>4 DEF Request, Exchange, TokenRow
  <2>2. QED
    BY <2>1, AbsentAssumption
<1>7. row.user = request[p].user /\ row.application = e.client
      /\ row.scope = request[p].scopes /\ row.by = e
  OBVIOUS
<1> HIDE DEF row, rec
<1>8. TypeOK'
  BY <1>1, <1>2, <1>4, <1>5, <1>6 DEF Inv, TypeOK, Steps
<1>9. GrantsKept' /\ ConsentCovers' /\ AnsweredOnce'
  BY <1>1 DEF Inv, GrantsKept, ConsentCovers, AnsweredOnce
<1>10. \A t \in Tokens : AccessToken'[t] = IF t = k THEN row ELSE AccessToken[t]
  BY <1>1 DEF Inv, TypeOK
<1>11. TokensMatchGrant' /\ CodeBoundToRequest'
  <2> HIDE DEF e, k
  <2>1. TokensMatchGrant'
    BY <1>1, <1>3, <1>7, <1>10 DEF Inv, TokensMatchGrant, ExchangeSound, e
  <2>2. CodeBoundToRequest'
    BY <1>1, <1>3, <1>7, <1>10 DEF Inv, CodeBoundToRequest, ExchangeSound, e
  <2>3. QED
    BY <2>1, <2>2
<1>12. \A g \in Codes : committed[g] \subseteq committed'[g]
  BY <1>1 DEF Inv, TypeOK
<1>13. /\ pc'[p] = "saved" /\ request'[p] = rec /\ k \in committed'[e.code]
       /\ \A q \in Workers \ {p} : pc'[q] = pc[q] /\ request'[q] = request[q]
  BY <1>1, <1>4 DEF Inv, TypeOK
<1>14. ExchangesSound'
  <2>1. ExchangeSound(p)'
    BY <1>1, <1>3, <1>5, <1>13 DEF ExchangeSound
  <2>2. ASSUME NEW q \in Workers \ {p}, Busy(q)' PROVE ExchangeSound(q)'
    <3>1. ExchangeSound(q) /\ request[q].exchange.code \in Codes
      BY <1>13, <2>2, RowTypes
      DEF Inv, ExchangesSound, ExchangeSound, Busy, Request, Exchange
    <3>2. QED
      BY <1>1, <1>12, <1>13, <3>1 DEF ExchangeSound
  <2>3. QED
    BY <2>1, <2>2 DEF ExchangesSound
<1>15. DeletedOnce'
  BY <1>1, <1>13 DEF Inv, DeletedOnce
<1>16. QED
  BY <1>8, <1>9, <1>11, <1>14, <1>15 DEF Inv

\* Deleting the row is what makes one exchange of a code the last.
LEMMA InvalidateCodeInv ==
  ASSUME Inv, NEW p \in Workers, InvalidateCode(p)
  PROVE  Inv'
<1> DEFINE e == request[p].exchange
<1>1. pc[p] = "saved" /\ UNCHANGED <<now, nextGrant, AccessToken, nextToken, hist>>
  BY DEF InvalidateCode
<1>2. CASE ~Found(e.code, e.client)
  <2>1. Answer(p, "denied") /\ UNCHANGED db
    BY <1>1, <1>2 DEF InvalidateCode, db
  <2>2. QED
    BY <1>1, <2>1, AnswerInv DEF Answers
<1>3. CASE Found(e.code, e.client)
  <2>1. /\ Grant' = [Grant EXCEPT ![e.code] = Absent]
        /\ pc' = [pc EXCEPT ![p] = "invalidated"]
        /\ UNCHANGED request
    BY <1>3 DEF InvalidateCode, Goto
  <2>2. ExchangeSound(p) /\ e.code \in Codes
    BY <1>1, RowTypes
    DEF Inv, ExchangesSound, ExchangeSound, Busy, Steps, Request, Exchange
  <2>3. Grant[e.code] # Absent /\ answered[e.code] = {}
    BY <1>3, <2>2 DEF Found, Inv, GrantsKept
  <2>4. TypeOK'
    BY <1>1, <2>1 DEF Inv, TypeOK, Steps, hist
  <2>5. /\ pc'[p] = "invalidated" /\ \A q \in Workers \ {p} : pc'[q] = pc[q]
        /\ \A g \in Codes : Grant'[g] = IF g = e.code THEN Absent ELSE Grant[g]
    BY <2>1 DEF Inv, TypeOK
  <2>6. GrantsKept' /\ ConsentCovers' /\ AnsweredOnce'
    BY <1>1, <2>5 DEF Inv, GrantsKept, ConsentCovers, AnsweredOnce, hist
  <2>7. TokensMatchGrant' /\ CodeBoundToRequest'
    BY <1>1 DEF Inv, TokensMatchGrant, CodeBoundToRequest, hist
  <2>8. ExchangesSound'
    BY <1>1, <2>1, <2>2, <2>5 DEF Inv, ExchangesSound, ExchangeSound, Busy, hist
  <2>9. DeletedOnce'
    <3>1. \A q \in Workers : pc[q] = "invalidated" =>
            request[q].exchange.code \in Codes /\ request[q].exchange.code # e.code
      BY <2>3, RowTypes
      DEF Inv, DeletedOnce, ExchangesSound, ExchangeSound, Busy, Steps, Request, Exchange
    <3>2. ASSUME NEW q \in Workers, pc'[q] = "invalidated", q # p
          PROVE  /\ request'[q].exchange.code # e.code
                 /\ LET g == request'[q].exchange.code IN Grant'[g] = Absent /\ answered'[g] = {}
      BY <1>1, <2>1, <2>5, <3>1, <3>2 DEF Inv, DeletedOnce, hist
    <3>3. ASSUME NEW q \in Workers \ {p}, NEW h \in Workers \ {p},
                 pc'[q] = "invalidated", pc'[h] = "invalidated",
                 request'[h].exchange.code = request'[q].exchange.code
          PROVE  q = h
      BY <2>1, <2>5, <3>3 DEF Inv, DeletedOnce
    <3>4. Grant'[e.code] = Absent /\ answered'[e.code] = {} /\ request' = request
      BY <1>1, <2>1, <2>2, <2>3, <2>5 DEF hist
    <3> HIDE DEF e
    <3>5. QED
      BY <3>2, <3>3, <3>4 DEF DeletedOnce, e
  <2>10. QED
    BY <2>4, <2>6, <2>7, <2>8, <2>9 DEF Inv
<1>4. QED
  BY <1>2, <1>3

LEMMA SendSignalInv ==
  ASSUME Inv, NEW p \in Workers, SendSignal(p)
  PROVE  Inv'
<1> DEFINE t == request[p].token
           g == request[p].exchange.code
<1>1. pc[p] = "invalidated" /\ UNCHANGED <<now, db, consent, authorized, committed>>
  BY DEF SendSignal
<1>2. CASE AccessToken[t] = Absent
  <2>1. Answer(p, "error") /\ UNCHANGED hist
    BY <1>1, <1>2 DEF SendSignal, hist
  <2>2. QED
    BY <1>1, <2>1, AnswerInv DEF Answers
<1>3. CASE AccessToken[t] # Absent
  <2>1. /\ pc' = [pc EXCEPT ![p] = "ok"]
        /\ request' = [request EXCEPT ![p] = Absent]
        /\ answered' = [answered EXCEPT ![g] = @ \cup {t}]
    BY <1>3 DEF SendSignal, Answer, Goto
  <2>2. ExchangeSound(p) /\ g \in Codes
    BY <1>1, RowTypes
    DEF Inv, ExchangesSound, ExchangeSound, Busy, Steps, Request, Exchange
  <2>3. t \in Tokens
    BY <1>1, <2>2 DEF ExchangeSound, Inv, TypeOK
  <2>4. /\ Grant[g] = Absent /\ answered[g] = {}
        /\ \A q \in Workers : pc[q] = "invalidated" /\ request[q].exchange.code = g => p = q
    BY <1>1 DEF Inv, DeletedOnce
  <2>5. TypeOK'
    BY <1>1, <2>1, <2>3 DEF Inv, TypeOK, Answers, db
  <2>6. /\ pc'[p] = "ok"
        /\ \A q \in Workers \ {p} : pc'[q] = pc[q] /\ request'[q] = request[q]
        /\ \A h \in Codes : answered'[h] = IF h = g THEN {t} ELSE answered[h]
    BY <2>1, <2>2, <2>4 DEF Inv, TypeOK
  <2>7. GrantsKept'
    BY <1>1, <2>2, <2>4, <2>6 DEF Inv, GrantsKept, ExchangeSound, db
  <2>8. ConsentCovers' /\ TokensMatchGrant' /\ CodeBoundToRequest'
    BY <1>1 DEF Inv, ConsentCovers, TokensMatchGrant, CodeBoundToRequest, db
  <2>9. ExchangesSound'
    BY <1>1, <2>6 DEF Inv, ExchangesSound, ExchangeSound, Busy, Steps, db
  <2>10. DeletedOnce'
    <3>1. \A q \in Workers : pc[q] = "invalidated" => request[q].exchange.code \in Codes
      BY RowTypes DEF Inv, ExchangesSound, ExchangeSound, Busy, Steps, Request, Exchange
    <3>2. QED
      BY <1>1, <2>4, <2>6, <3>1 DEF Inv, DeletedOnce, db
  <2>11. AnsweredOnce'
    BY <2>6 DEF Inv, AnsweredOnce
  <2>12. QED
    BY <2>5, <2>7, <2>8, <2>9, <2>10, <2>11 DEF Inv
<1>4. QED
  BY <1>2, <1>3
-----------------------------------------------------------------------------
(* Tokens that go, clean-up and the clock                                    *)

LEMMA DropTokenInv ==
  ASSUME Inv, NEW t \in Tokens, DropToken(t)
  PROVE  Inv'
BY DEF DropToken, hist, Inv, TypeOK, GrantsKept, ConsentCovers, TokensMatchGrant,
       CodeBoundToRequest, ExchangesSound, ExchangeSound, DeletedOnce, AnsweredOnce, Busy

LEMMA CleanGrantInv ==
  ASSUME Inv, NEW g \in Codes, CleanGrant(g)
  PROVE  Inv'
<1>1. /\ Grant' = [Grant EXCEPT ![g] = Absent]
      /\ UNCHANGED <<now, nextGrant, AccessToken, nextToken, pc, request, hist>>
  BY DEF CleanGrant
<1>2. \A h \in Codes : Grant'[h] = IF h = g THEN Absent ELSE Grant[h]
  BY <1>1 DEF Inv, TypeOK
<1>3. \A p \in Workers : pc[p] = "invalidated" => request[p].exchange.code \in Codes
  BY RowTypes DEF Inv, ExchangesSound, ExchangeSound, Busy, Steps, Request, Exchange
<1>4. TypeOK' /\ GrantsKept' /\ ConsentCovers' /\ AnsweredOnce'
  BY <1>1, <1>2 DEF Inv, TypeOK, GrantsKept, ConsentCovers, AnsweredOnce, hist
<1>5. TokensMatchGrant' /\ CodeBoundToRequest' /\ ExchangesSound' /\ DeletedOnce'
  BY <1>1, <1>2, <1>3
  DEF Inv, TokensMatchGrant, CodeBoundToRequest, ExchangesSound, ExchangeSound, DeletedOnce,
      Busy, hist
<1>6. QED
  BY <1>4, <1>5 DEF Inv

\* A step that moves nothing but the clock, or nothing at all
LEMMA ClockInv ==
  ASSUME Inv, now' \in 1..MaxTime, UNCHANGED <<db, pc, request, hist>>
  PROVE  Inv'
BY DEF db, hist, Inv, TypeOK, GrantsKept, ConsentCovers, TokensMatchGrant,
       CodeBoundToRequest, ExchangesSound, ExchangeSound, DeletedOnce, AnsweredOnce, Busy
-----------------------------------------------------------------------------
(* The theorems                                                              *)

LEMMA NextInv == Inv /\ [Next]_vars => Inv'
<1>1. SUFFICES ASSUME Inv, [Next]_vars PROVE Inv'
  OBVIOUS
<1>2. ASSUME NEW u \in Users, NEW c \in Clients, NEW uri \in RedirectUris,
             NEW scope \in SUBSET Scopes, NEW challenge \in Verifiers \cup {None},
             \/ Authorize(u, c, uri, scope, challenge)
             \/ SkipApproval(u, c, uri, scope, challenge)
             \/ AutoApprove(u, c, uri, scope, challenge)
      PROVE  Inv'
  BY <1>1, <1>2, AuthorizeInv, SkipApprovalInv, AutoApproveInv
<1>3. ASSUME NEW p \in Workers, NEW e \in Exchange, ValidateCode(p, e) PROVE Inv'
  BY <1>1, <1>3, ValidateCodeInv
<1>4. ASSUME NEW p \in Workers, NEW e \in Exchange, RejectCode(p, e) PROVE Inv'
  BY <1>1, <1>4, AnswerInv DEF RejectCode, Answers
<1>5. ASSUME NEW p \in Workers, LookupFails(p) \/ Crash(p) PROVE Inv'
  <2>1. \E status \in Answers : Answer(p, status) /\ UNCHANGED <<now, db, hist>>
    BY <1>5 DEF LookupFails, Crash, Answers
  <2>2. QED
    BY <1>1, <2>1, AnswerInv
<1>6. ASSUME NEW p \in Workers,
             \/ CheckChallenge(p) \/ ConfirmRedirectUri(p) \/ SaveTokens(p)
             \/ InvalidateCode(p) \/ SendSignal(p)
      PROVE  Inv'
  BY <1>1, <1>6, CheckChallengeInv, ConfirmRedirectUriInv, SaveTokensInv, InvalidateCodeInv,
     SendSignalInv
<1>7. ASSUME NEW t \in Tokens, DropToken(t) PROVE Inv'
  BY <1>1, <1>7, DropTokenInv
<1>8. ASSUME NEW g \in Codes, CleanGrant(g) PROVE Inv'
  BY <1>1, <1>8, CleanGrantInv
<1>9. CASE Tick \/ UNCHANGED vars
  <2>1. now' \in 1..MaxTime /\ UNCHANGED <<db, pc, request, hist>>
    BY <1>1, <1>9, ConstantsAssumption DEF Tick, vars, Inv, TypeOK
  <2>2. QED
    BY <1>1, <2>1, ClockInv
<1>10. QED
  BY <1>1, <1>2, <1>3, <1>4, <1>5, <1>6, <1>7, <1>8, <1>9 DEF Next

\* The inductive invariant holds in every reachable state.
THEOREM Invariance == Spec => []Inv
<1>1. Init => Inv
  BY InitInv
<1>2. Inv /\ [Next]_vars => Inv'
  BY NextInv
<1>3. QED
  BY <1>1, <1>2, PTL DEF Spec

\* Grants, tokens and exchanges keep their types under every interleaving of
\* exchanges, crashes and clean-up.
THEOREM TypeCorrect == Spec => []TypeOK
<1>1. Inv => TypeOK
  BY DEF Inv
<1>2. QED
  BY <1>1, Invariance, PTL

\* At most one client is answered with tokens for a code, however many workers
\* exchange it at once and wherever they crash (invalidate_authorization_code).
THEOREM AnsweredAtMostOnce == Spec => []AnsweredOnce
<1>1. Inv => AnsweredOnce
  BY DEF Inv
<1>2. QED
  BY <1>1, Invariance, PTL

\* Tokens carry the user, application and scope of the grant of their code.
THEOREM TokensAreOfTheirGrant == Spec => []TokensMatchGrant
<1>1. Inv => TokensMatchGrant
  BY DEF Inv
<1>2. QED
  BY <1>1, Invariance, PTL

\* Tokens are had only by who met the challenge and named the redirect URI of the
\* authorization request, although the row is read anew for each of the checks.
THEOREM CodesAreBound == Spec => []CodeBoundToRequest
<1>1. Inv => CodeBoundToRequest
  BY DEF Inv
<1>2. QED
  BY <1>1, Invariance, PTL

\* No sequence of consents, refreshes of consent and automatic approvals gets a
\* token beyond what the user allowed the application (AuthorizationView.get).
THEOREM ConsentIsRespected == Spec => []ScopeWithinConsent
BY ConsentFollows, Invariance, PTL
-----------------------------------------------------------------------------
(* Where grants go                                                           *)

\* ConsumedMeansIssued for one grant and one step
Consumed(g) ==
  (Grant[g] # Absent /\ Grant'[g] = Absent)
    => committed[g] # {} \/ Grant[g].expires < now

LEMMA StepConsumes ==
  ASSUME Inv, [Next]_vars, NEW g \in Codes
  PROVE  Consumed(g)
<1>1. CASE UNCHANGED Grant
  BY <1>1 DEF Consumed
<1>2. ASSUME NEW u \in Users, NEW c \in Clients, NEW uri \in RedirectUris,
             NEW scope \in SUBSET Scopes, NEW challenge \in Verifiers \cup {None},
             CreateGrant(u, c, uri, scope, challenge)
      PROVE  Consumed(g)
  <2>1. nextGrant \in Codes /\ authorized[nextGrant] = Absent
    BY <1>2, ConstantsAssumption DEF CreateGrant, Inv, TypeOK, GrantsKept, Codes
  <2>2. g # nextGrant => Grant'[g] = Grant[g]
    BY <1>2 DEF CreateGrant, Inv, TypeOK
  <2>3. g = nextGrant => Grant[g] = Absent
    BY <2>1 DEF Inv, GrantsKept
  <2>4. QED
    BY <2>2, <2>3 DEF Consumed
<1>3. ASSUME NEW p \in Workers, InvalidateCode(p) PROVE Consumed(g)
  <2>1. pc[p] = "saved"
    BY <1>3 DEF InvalidateCode
  <2>2. committed[request[p].exchange.code] # {}
    BY <2>1 DEF Inv, ExchangesSound, ExchangeSound, Busy, Steps
  <2>3. g # request[p].exchange.code => Grant'[g] = Grant[g]
    BY <1>3 DEF InvalidateCode, Inv, TypeOK
  <2>4. QED
    BY <2>2, <2>3 DEF Consumed
<1>4. ASSUME NEW h \in Codes, CleanGrant(h) PROVE Consumed(g)
  BY <1>4 DEF CleanGrant, Consumed, Inv, TypeOK
<1>5. QED
  BY <1>1, <1>2, <1>3, <1>4
  DEF Next, vars, db, Authorize, SkipApproval, AutoApprove, ValidateCode, RejectCode,
      LookupFails, CheckChallenge, ConfirmRedirectUri, SaveTokens, SendSignal, Crash,
      DropToken, Tick

\* A crash before the tokens are committed leaves the code to be exchanged again:
\* no step deletes a grant in time whose tokens did not come first.
THEOREM ConsumedOnlyWhenIssued == Spec => ConsumedMeansIssued
<1>1. Inv /\ [Next]_vars =>
        [\A g \in Codes :
           (Grant[g] # Absent /\ Grant'[g] = Absent)
             => committed[g] # {} \/ Grant[g].expires < now]_vars
  BY StepConsumes DEF Consumed
<1>2. QED
  BY <1>1, Invariance, PTL DEF Spec, ConsumedMeansIssued
=============================================================================
