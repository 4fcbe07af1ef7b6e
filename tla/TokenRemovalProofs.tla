------------------------- MODULE TokenRemovalProofs -------------------------
(***************************************************************************)
(* Proofs about TokenRemoval. A logout and clear_expired take only steps   *)
(* that RefreshTokens allows for, so its invariant holds here; on it rests *)
(* what they promise, for every number of tokens and users and however     *)
(* they overlap with each other and with the token requests.               *)
(***************************************************************************)
EXTENDS TokenRemoval, RefreshTokensProofs
-----------------------------------------------------------------------------
(* The steps of TokenRemoval are steps of RefreshTokens                      *)

LEMMA RemoveAccessStep ==
  ASSUME NEW a \in Pks, RemoveAccess(a)
  PROVE  [Next]_vars
BY DEF RemoveAccess, Next, Environment

LEMMA DeleteRowStep ==
  ASSUME CleanerSound, NEW k \in Pks, DeleteRow(k)
  PROVE  [Next]_vars
<1>1. cleaner.stage \in Stages
  BY DEF CleanerSound, CleanerRun, IdsStillMatch, Deletes, DeleteRow
<1>2. CASE cleaner.stage \in {"revoked", "expired"}
  BY <1>2 DEF DeleteRow, Next, Environment
<1>3. CASE cleaner.stage = "access"
  BY <1>3, RemoveAccessStep DEF DeleteRow
<1>4. CASE cleaner.stage = "id"
  BY <1>4, RemoveAccessStep DEF DeleteRow, RemoveIDToken
<1>5. QED
  BY <1>1, <1>2, <1>3, <1>4 DEF Stages

LEMMA StepOfRefreshTokens ==
  ASSUME CleanerSound, [RemovalNext]_allVars
  PROVE  [Next]_vars
<1>1. CASE UNCHANGED allVars
  BY <1>1 DEF allVars
<1>2. ASSUME NEW p \in Workers, RotatePair(p) \/ RenewPair(p) \/ OtherStep(p)
      PROVE  [Next]_vars
  BY <1>2 DEF RotatePair, RenewPair, OtherStep, Next, Start, Proceed
<1>3. ASSUME NEW c \in Clients, NEW u \in Users, NEW scope \in SUBSET Scopes,
             IssuePair(c, u, scope)
      PROVE  [Next]_vars
  BY <1>3 DEF IssuePair, Next, Environment
<1>4. ASSUME NEW k \in Pks, RevokePair(k) \/ DeleteAccess(k) \/ DeleteIDToken(k)
      PROVE  [Next]_vars
  BY <1>4, RemoveAccessStep
  DEF RevokePair, DeleteAccess, DeleteIDToken, RemoveIDToken, Next, Environment
<1>5. CASE Logout
  <2>1. ASSUME NEW a \in Pks, DeleteListed(a)
        PROVE  [Next]_vars
    BY <2>1, RemoveAccessStep DEF DeleteListed, RemoveIDToken
  <2>2. ASSUME NEW r \in Pks, RevokeListed(r)
        PROVE  [Next]_vars
    BY <2>2 DEF RevokeListed, Next, Environment
  <2>3. QED
    BY <1>5, <2>1, <2>2
    DEF Logout, RequestLogout, SwitchSession, SubmitForm, ListRefreshTokens,
        ListAccessTokens, EndLogout, DeleteListedFails
<1>6. CASE ClearExpired
  BY <1>6, DeleteRowStep DEF ClearExpired, StartCleaning, ListBatch, NextStage
<1>7. CASE Clock
  BY <1>7 DEF Clock, Next, Environment
<1>8. QED
  BY <1>1, <1>2, <1>3, <1>4, <1>5, <1>6, <1>7 DEF RemovalNext
-----------------------------------------------------------------------------
(* What becomes of a row that was there before                               *)

\* A row is gone, or is still of its application.
AgedAccess(k) ==
  AccessToken'[k] # Absent =>
    /\ AccessToken[k] # Absent
    /\ AccessToken'[k].application = AccessToken[k].application

\* A refresh token never comes back, nor does it come back to life or change hands.
AgedRefresh(k) ==
  /\ RefreshToken'[k] # Absent =>
       /\ RefreshToken[k] # Absent
       /\ RefreshToken'[k].application = RefreshToken[k].application
  /\ RefreshToken'[k] # Absent /\ RefreshToken'[k].revoked = Null
       => RefreshToken[k].revoked = Null

Aged ==
  /\ now <= now' /\ now' \in Time
  /\ nextPk <= nextPk' /\ nextPk' \in 1..(MaxPk + 1)
  /\ \A k \in Pks : Used(k) => AgedAccess(k) /\ AgedRefresh(k)

LEMMA RevokedAges ==
  ASSUME Inv, NEW r \in Pks, Revoke(r)
  PROVE  \A k \in Pks : AgedAccess(k) /\ AgedRefresh(k)
<1>1. CASE Live(r)
  <2>1. RefreshToken[r] \in RefreshRow
    BY <1>1, RowTypes DEF Inv, Live
  <2>2. /\ RefreshToken' = [RefreshToken EXCEPT ![r] = RevokedRow(r)]
        /\ AccessToken' = AccessTokensWithout({RefreshToken[r].access_token})
    BY <1>1 DEF Revoke
  <2>3. QED
    BY <1>1, <2>1, <2>2
    DEF AgedAccess, AgedRefresh, Live, Exists, RevokedRow, AccessTokensWithout, Inv,
        TypeOK, RefreshRow, Null
<1>2. QED
  BY <1>1 DEF Revoke, AgedAccess, AgedRefresh

LEMMA RotatedAges ==
  ASSUME Inv, NEW p \in Workers, Rotate(p)
  PROVE  \A k \in Pks : Used(k) => AgedAccess(k) /\ AgedRefresh(k)
<1> DEFINE r == request[p].rt
           bound == IF Live(r) THEN {RefreshToken[r].access_token} ELSE {}
<1>1. r \in Pks
  BY DEF Rotate, Inv, RequestsSound
<1>2. PICK a : AccessToken' = [AccessTokensWithout(bound) EXCEPT ![nextPk] = a]
  BY DEF Rotate
<1>3. PICK s : RefreshToken' = [RefreshToken EXCEPT
                 ![r] = IF Live(r) THEN RevokedRow(r) ELSE @, ![nextPk] = s]
  BY DEF Rotate
<1>4. nextPk \in Nat
  BY ConstantsAssumption DEF Inv, TypeOK
<1>5. ASSUME NEW k \in Pks, Used(k)
      PROVE  AgedAccess(k) /\ AgedRefresh(k)
  <2>1. k # nextPk
    BY <1>4, <1>5 DEF Used
  <2>2. AccessToken'[k] = IF k \in bound THEN Absent ELSE AccessToken[k]
    BY <1>2, <2>1 DEF AccessTokensWithout
  <2>3. RefreshToken'[k] = IF k = r /\ Live(r) THEN RevokedRow(r) ELSE RefreshToken[k]
    BY <1>1, <1>3, <2>1 DEF Inv, TypeOK
  <2>4. Exists(r) => RefreshToken[r] \in RefreshRow
    BY <1>1, RowTypes DEF Inv
  <2>5. now # Null
    BY ConstantsAssumption DEF Inv, TypeOK, Time, Null
  <2>6. AgedAccess(k)
    BY <2>2 DEF AgedAccess
  <2>7. AgedRefresh(k)
    <3>1. CASE k = r /\ Live(r)
      BY <2>3, <2>4, <3>1 DEF AgedRefresh, Live, Exists, RevokedRow, RefreshRow
    <3>2. QED
      BY <2>3, <3>1 DEF AgedRefresh
  <2>8. QED
    BY <2>6, <2>7
<1>6. QED
  BY <1>5

LEMMA RenewedAges ==
  ASSUME Inv, ClientsAgree, NEW p \in Workers, UpdateInPlace(p)
  PROVE  \A k \in Pks : AgedAccess(k) /\ AgedRefresh(k)
<1> DEFINE a == request[p].seen
<1>1. a \in Pks /\ AccessToken[a] \in AccessRow
  BY RowTypes DEF UpdateInPlace, InPlace, Inv, TypeOK, Request, Ref, Pks, Null
<1>2. AccessToken[a].application = request[p].client
  BY DEF UpdateInPlace, InPlace, ClientsAgree, RenewsItsOwn
<1>3. AccessToken' = [AccessToken EXCEPT ![a].token = nextPk,
                                         ![a].scope = request[p].asked,
                                         ![a].application = request[p].client]
  BY DEF UpdateInPlace
<1> HIDE DEF a
<1>4. \A k \in Pks : AgedAccess(k)
  BY <1>1, <1>2, <1>3, AbsentAssumption DEF AgedAccess, Inv, TypeOK, AccessRow
<1>5. \A k \in Pks : AgedRefresh(k)
  BY DEF UpdateInPlace, AgedRefresh
<1>6. QED
  BY <1>4, <1>5

LEMMA RowsAge ==
  ASSUME Inv, ClientsAgree, Inv', [Next]_vars
  PROVE  Aged
<1> DEFINE Old == \A k \in Pks : Used(k) => AgedAccess(k) /\ AgedRefresh(k)
<1>1. ASSUME UNCHANGED db PROVE Old
  BY <1>1 DEF db, AgedAccess, AgedRefresh
<1>2. ASSUME UNCHANGED vars PROVE Old
  BY <1>1, <1>2 DEF vars
<1>3. ASSUME NEW p \in Workers, Start(p)
      PROVE  Old
  BY <1>1, <1>3 DEF Start, RejectUnknown, RejectRevoked, DetectReuse, RejectClient, Accept
<1>4. ASSUME NEW p \in Workers, Acquire(p)
      PROVE  Old
  <2>1. ASSUME NEW r \in Pks, RevokeFamilyMember(p, r)
        PROVE  Old
    BY <2>1, RevokedAges DEF RevokeFamilyMember
  <2>2. QED
    BY <1>1, <1>4, <2>1 DEF Acquire, LockRefreshToken
<1>5. ASSUME NEW p \in Workers, Proceed(p)
      PROVE  Old
  <2>1. CASE UpdateInPlace(p)
    BY <2>1, RenewedAges
  <2>2. CASE Replay(p)
    <3>1. request[p].rt \in Pks
      BY <2>2 DEF Replay, Inv, RequestsSound
    <3>2. Revoke(request[p].rt) \/ Live(request[p].rt)
      BY <2>2 DEF Replay, Revoke
    <3>3. CASE Live(request[p].rt)
      <4>1. RefreshToken[request[p].rt] \in RefreshRow
        BY <3>1, <3>3, RowTypes DEF Inv, Live
      <4>2. PICK r \in Pks : r = request[p].rt
        BY <3>1
      <4>3. /\ RefreshToken' = [RefreshToken EXCEPT ![r] = RevokedRow(r)]
            /\ AccessToken' = AccessTokensWithout({RefreshToken[r].access_token})
        BY <2>2, <3>3, <4>2 DEF Replay
      <4>4. \A k \in Pks : AgedAccess(k)
        BY <4>3 DEF AgedAccess, AccessTokensWithout
      <4>5. RevokedRow(r).application = RefreshToken[r].application
        BY <4>1, <4>2 DEF RevokedRow, RefreshRow
      <4>6. \A k \in Pks : AgedRefresh(k)
        BY <3>3, <4>2, <4>3, <4>5 DEF AgedRefresh, Live, Exists, Inv, TypeOK
      <4>7. QED
        BY <4>4, <4>6
    <3>4. QED
      BY <2>2, <3>3 DEF Replay, AgedAccess, AgedRefresh
  <2>3. QED
    BY <1>1, <1>5, <2>1, <2>2, RotatedAges
    DEF Proceed, GetOriginalScopes, InvalidScope, UpdateInPlaceFails,
        LockRefreshTokenFails, ReplayFails, SendSignal
<1>6. ASSUME Environment PROVE Old
  <2>1. ASSUME NEW c \in Clients, NEW scope \in SUBSET Scopes, IssueTokens(c, scope)
        PROVE  Old
    <3>1. nextPk \in Nat
      BY ConstantsAssumption DEF Inv, TypeOK
    <3>2. \A k \in Pks : Used(k) => AccessToken'[k] = AccessToken[k]
                                    /\ RefreshToken'[k] = RefreshToken[k]
      BY <2>1, <3>1 DEF IssueTokens, Used, Inv, TypeOK
    <3>3. QED
      BY <3>2 DEF AgedAccess, AgedRefresh
  <2>2. ASSUME NEW r \in Pks, RevokeRefreshToken(r)
        PROVE  Old
    BY <2>2, RevokedAges DEF RevokeRefreshToken
  <2>3. ASSUME NEW r \in Pks, CleanRefreshToken(r)
        PROVE  Old
    <3>1. \A a \in Pks : AccessToken[a] # Absent => AccessToken[a] \in AccessRow
      BY RowTypes DEF Inv
    <3>2. \A a \in Pks : AgedAccess(a)
      BY <2>3, <3>1 DEF CleanRefreshToken, AgedAccess, Refreshed, AccessRow
    <3>3. \A k \in Pks : AgedRefresh(k)
      BY <2>3 DEF CleanRefreshToken, AgedRefresh, Inv, TypeOK
    <3>4. QED
      BY <3>2, <3>3
  <2>4. ASSUME NEW a \in Pks, DeleteAccessToken(a)
        PROVE  Old
    <3>1. \A r \in PairOf(a) : RefreshToken[r] \in RefreshRow
      BY RowTypes DEF PairOf, Inv
    <3>2. \A k \in Pks : AgedRefresh(k)
      BY <2>4, <3>1 DEF DeleteAccessToken, AgedRefresh, PairOf, Exists, RefreshRow
    <3>3. \A k \in Pks : AgedAccess(k)
      BY <2>4 DEF DeleteAccessToken, AgedAccess, AccessTokensWithout
    <3>4. QED
      BY <3>2, <3>3
  <2>5. QED
    BY <1>1, <1>6, <2>1, <2>2, <2>3, <2>4 DEF Environment, Tick
<1>7. Old
  <2> HIDE DEF Old
  <2>1. QED
    BY <1>2, <1>3, <1>4, <1>5, <1>6 DEF Next
<1>8. now <= now' /\ nextPk <= nextPk'
  <2> DEFINE Onward == now' \in {now, now + 1} /\ nextPk' \in {nextPk, nextPk + 1}
  <2>1. ASSUME NEW p \in Workers, Start(p)
        PROVE  Onward
    BY <2>1 DEF Start, RejectUnknown, RejectRevoked, DetectReuse, RejectClient, Accept, db
  <2>2. ASSUME NEW p \in Workers, Acquire(p)
        PROVE  Onward
    BY <2>2 DEF Acquire, LockRefreshToken, RevokeFamilyMember, db
  <2>3. ASSUME NEW p \in Workers, Proceed(p)
        PROVE  Onward
    BY <2>3
    DEF Proceed, GetOriginalScopes, InvalidScope, UpdateInPlace, UpdateInPlaceFails,
        LockRefreshTokenFails, Rotate, Replay, ReplayFails, SendSignal, db
  <2>4. ASSUME Environment PROVE Onward
    BY <2>4
    DEF Environment, IssueTokens, RevokeRefreshToken, CleanRefreshToken,
        DeleteAccessToken, Tick, db
  <2>5. ASSUME UNCHANGED vars PROVE Onward
    BY <2>5 DEF vars, db
  <2>6. Onward
    <3> HIDE DEF Onward
    <3>1. QED
      BY <2>1, <2>2, <2>3, <2>4, <2>5 DEF Next
  <2>7. now \in Nat /\ nextPk \in Nat
    BY ConstantsAssumption DEF Inv, TypeOK, Time
  <2>8. QED
    BY <2>6, <2>7
<1>9. now' \in Time /\ nextPk' \in 1..(MaxPk + 1)
  BY DEF Inv, TypeOK
<1>10. QED
  BY <1>7, <1>8, <1>9 DEF Aged
-----------------------------------------------------------------------------
(* The application of a pair and of the requests that renew it               *)

\* Only refreshing and the other grants create pairs, each for one application.
LEMMA NewRowsAgree ==
  ASSUME Inv, Inv', [Next]_vars, NEW k \in Pks, ~Used(k),
         AccessToken'[k] # Absent, RefreshToken'[k] # Absent
  PROVE  AccessToken'[k].application = RefreshToken'[k].application
<1>1. AccessToken[k] = Absent /\ RefreshToken[k] = Absent /\ nextPk \in Nat
  BY ConstantsAssumption DEF Inv, TypeOK, FreshKeys, Used, Pks
<1>2. nextPk' # nextPk
  BY DEF Inv, TypeOK, FreshKeys, Used, Pks
<1>3. ASSUME NEW c \in Clients, NEW scope \in SUBSET Scopes, IssueTokens(c, scope)
      PROVE  AccessToken'[k].application = RefreshToken'[k].application
  <2>1. k = nextPk
    BY <1>1, <1>3 DEF IssueTokens, Inv, TypeOK
  <2>2. AccessToken'[k] = NewAccess(c, scope, Null)
        /\ RefreshToken'[k] = NewRefresh(c, nextPk, nextPk)
    BY <1>3, <2>1 DEF IssueTokens, Inv, TypeOK
  <2>3. QED
    BY <2>2 DEF NewAccess, NewRefresh
<1>4. ASSUME NEW p \in Workers, Rotate(p)
      PROVE  AccessToken'[k].application = RefreshToken'[k].application
  <2> DEFINE r == request[p].rt
             c == request[p].client
  <2>1. PICK bound : AccessToken' = [AccessTokensWithout(bound) EXCEPT
                                       ![nextPk] = NewAccess(c, request[p].asked, r)]
    BY <1>4 DEF Rotate
  <2>2. PICK row, string, family : RefreshToken' = [RefreshToken EXCEPT
                 ![r] = row, ![nextPk] = NewRefresh(c, string, family)]
    BY <1>4 DEF Rotate
  <2>3. k = nextPk
    BY <1>1, <2>1 DEF AccessTokensWithout
  <2>4. AccessToken'[k] = NewAccess(c, request[p].asked, r)
        /\ RefreshToken'[k] = NewRefresh(c, string, family)
    BY <2>1, <2>2, <2>3 DEF Inv, TypeOK, AccessTokensWithout
  <2>5. QED
    BY <2>4 DEF NewAccess, NewRefresh
<1>5. \A p \in Workers : ~Start(p) /\ ~Acquire(p)
  BY <1>2
  DEF Start, RejectUnknown, RejectRevoked, DetectReuse, RejectClient, Accept, Acquire,
      LockRefreshToken, RevokeFamilyMember, db
<1>6. ASSUME NEW p \in Workers, Proceed(p)
      PROVE  Rotate(p)
  BY <1>1, <1>2, <1>6
  DEF Proceed, GetOriginalScopes, InvalidScope, UpdateInPlace, UpdateInPlaceFails,
      LockRefreshTokenFails, Replay, ReplayFails, SendSignal, db
<1>7. ASSUME Environment
      PROVE  \E c \in Clients, scope \in SUBSET Scopes : IssueTokens(c, scope)
  BY <1>2, <1>7
  DEF Environment, RevokeRefreshToken, CleanRefreshToken, DeleteAccessToken, Tick, db
<1>8. ~UNCHANGED vars
  BY <1>2 DEF vars, db
<1>9. QED
  BY <1>3, <1>4, <1>5, <1>6, <1>7, <1>8 DEF Next

\* The request of q holds what it held.
Holds(q) ==
  pc'[q] \in {"validated", "saving"} =>
    /\ pc[q] \in {"validated", "saving"}
    /\ request'[q].seen = request[q].seen
    /\ request'[q].client = request[q].client

LEMMA RequestsHold ==
  ASSUME Inv, [Next]_vars, NEW q \in Workers,
         \A r \in Pks, c \in Clients, asked \in SUBSET Scopes : ~Accept(q, r, c, asked)
  PROVE  Holds(q)
<1>1. pc \in [Workers -> Steps \cup Answers] /\ request \in [Workers -> Request]
  BY DEF Inv, TypeOK
<1>2. ASSUME UNCHANGED <<pc, request>> PROVE Holds(q)
  BY <1>2 DEF Holds
<1>3. ASSUME NEW p \in Workers, NEW step, pc' = [pc EXCEPT ![p] = step],
             step \notin {"validated", "saving"},
             \A w \in Workers : w # p => request'[w] = request[w]
      PROVE  Holds(q)
  BY <1>1, <1>3 DEF Holds
<1>4. ASSUME NEW p \in Workers, NEW status \in Answers, Answer(p, status)
      PROVE  Holds(q)
  BY <1>1, <1>3, <1>4 DEF Answer, Goto, Answers
<1>5. ASSUME NEW p \in Workers, Start(p)
      PROVE  Holds(q)
  <2>1. ASSUME NEW r \in Pks, DetectReuse(p, r)
        PROVE  Holds(q)
    BY <1>1, <1>3, <2>1 DEF DetectReuse, Goto
  <2>2. ASSUME NEW r \in Pks, NEW c \in Clients, NEW asked \in SUBSET Scopes,
               Accept(p, r, c, asked)
        PROVE  Holds(q)
    <3>1. p # q
      BY <2>2
    <3>2. QED
      BY <1>1, <2>2, <3>1 DEF Accept, Goto, Holds
  <2>3. QED
    BY <1>4, <1>5, <2>1, <2>2
    DEF Start, RejectUnknown, RejectRevoked, RejectClient, Answers
<1>6. ASSUME NEW p \in Workers, Acquire(p)
      PROVE  Holds(q)
  <2>1. CASE LockRefreshToken(p)
    BY <1>1, <1>3, <2>1 DEF LockRefreshToken, Goto
  <2>2. ASSUME NEW r \in Pks, RevokeFamilyMember(p, r)
        PROVE  Holds(q)
    <3>1. CASE request[p].todo = {r}
      BY <1>4, <2>2, <3>1 DEF RevokeFamilyMember, Answers
    <3>2. CASE request[p].todo # {r}
      BY <1>1, <2>2, <3>2 DEF RevokeFamilyMember, Holds
    <3>3. QED
      BY <3>1, <3>2
  <2>3. QED
    BY <1>6, <2>1, <2>2 DEF Acquire
<1>7. ASSUME NEW p \in Workers, Proceed(p)
      PROVE  Holds(q)
  <2>1. CASE GetOriginalScopes(p)
    <3>1. PICK scope : request' = [request EXCEPT ![p].asked = scope]
      BY <2>1 DEF GetOriginalScopes
    <3>2. pc' = [pc EXCEPT ![p] = "saving"] /\ pc[p] = "validated"
      BY <2>1 DEF GetOriginalScopes, Goto
    <3>3. /\ request'[q].seen = request[q].seen
          /\ request'[q].client = request[q].client
      BY <1>1, <3>1 DEF Request
    <3>4. QED
      BY <1>1, <3>2, <3>3 DEF Holds
  <2>2. CASE UpdateInPlace(p) \/ Rotate(p)
    BY <1>1, <1>3, <2>2 DEF UpdateInPlace, Rotate, Goto
  <2>3. CASE Replay(p)
    BY <1>1, <1>3, <2>3 DEF Replay, Goto
  <2>4. QED
    BY <1>4, <1>7, <2>1, <2>2, <2>3
    DEF Proceed, InvalidScope, UpdateInPlaceFails, LockRefreshTokenFails, ReplayFails,
        SendSignal, Answers
<1>8. QED
  BY <1>2, <1>5, <1>6, <1>7
  DEF Next, Environment, IssueTokens, RevokeRefreshToken, CleanRefreshToken,
      DeleteAccessToken, Tick, vars

LEMMA ClientsAgreeInv ==
  ASSUME Inv, ClientsAgree, Inv', Aged, [Next]_vars
  PROVE  ClientsAgree'
<1>1. ASSUME NEW k \in Pks, AccessToken'[k] # Absent, RefreshToken'[k] # Absent
      PROVE  AccessToken'[k].application = RefreshToken'[k].application
  <2>1. CASE Used(k)
    BY <1>1, <2>1 DEF Aged, AgedAccess, AgedRefresh, ClientsAgree, PairsOfOneClient, Exists
  <2>2. CASE ~Used(k)
    BY <1>1, <2>2, NewRowsAgree
  <2>3. QED
    BY <2>1, <2>2
<1>2. \A k \in Pks : Used(k) => Used(k)'
  BY ConstantsAssumption DEF Aged, Used, Inv, TypeOK, Pks
<1>3. ASSUME NEW q \in Workers, pc'[q] \in {"validated", "saving"},
             NEW a \in Ref, a = request'[q].seen, a # Null
      PROVE  Used(a)' /\ (AccessToken'[a] # Absent =>
                             AccessToken'[a].application = request'[q].client)
  <2>1. a \in Pks
    BY <1>3 DEF Ref, Pks, Null
  <2>2. CASE \E r \in Pks, c \in Clients, asked \in SUBSET Scopes : Accept(q, r, c, asked)
    <3>1. PICK r \in Pks, c \in Clients, asked \in SUBSET Scopes : Accept(q, r, c, asked)
      BY <2>2
    <3>2. /\ request'[q].seen = RefreshToken[r].access_token /\ request'[q].client = c
          /\ Exists(r) /\ RefreshToken[r].application = c
          /\ UNCHANGED <<AccessToken, nextPk>>
      BY <3>1, NoRequestTyped DEF Accept, IsFirst, db, Inv, TypeOK, Request
    <3>3. RefreshToken[r].access_token = r /\ AccessToken[r] # Absent /\ a = r
      BY <1>3, <3>2 DEF Inv, Pairing
    <3>4. Used(a)
      BY <2>1, <3>2, <3>3 DEF Inv, TypeOK, FreshKeys, Used, Exists, Pks
    <3>5. QED
      BY <1>2, <2>1, <3>2, <3>3, <3>4 DEF ClientsAgree, PairsOfOneClient
  <2>3. CASE \A r \in Pks, c \in Clients, asked \in SUBSET Scopes : ~Accept(q, r, c, asked)
    <3>1. /\ pc[q] \in {"validated", "saving"}
          /\ request[q].seen = a /\ request'[q].client = request[q].client
      BY <1>3, <2>3, RequestsHold DEF Holds
    <3>2. Used(a) /\ (AccessToken[a] # Absent => AccessToken[a].application = request[q].client)
      BY <1>3, <3>1 DEF ClientsAgree, RenewsItsOwn
    <3>3. QED
      BY <1>2, <2>1, <3>1, <3>2 DEF Aged, AgedAccess
  <2>4. QED
    BY <2>2, <2>3
<1>4. \A q \in Workers : request'[q].seen \in Ref
  BY DEF Inv, TypeOK, Request
<1>5. \A q \in Workers : RenewsItsOwn(q)'
  BY <1>3, <1>4 DEF RenewsItsOwn
<1>6. QED
  BY <1>1, <1>5 DEF ClientsAgree, PairsOfOneClient, Exists
-----------------------------------------------------------------------------
(* The user, the expiry and the ID token of a row                            *)

\* The row k is renewed in place.
Renews(k) ==
  ~ROTATE_REFRESH_TOKEN /\ expires'[k] = now + ACCESS_TOKEN_EXPIRE_SECONDS

Kept ==
  \A k \in Pks : Used(k) => /\ owner'[k] = owner[k]
                            /\ expires'[k] = expires[k] \/ Renews(k)
                            /\ IDToken'[k] \in {IDToken[k], Null}

LEMMA NewPairKeeps ==
  ASSUME RemovalInv, NEW user \in Users \cup {Anonymous}, NEW scope,
         NewPair(user, scope), nextPk' = nextPk + 1
  PROVE  RowsTyped' /\ Kept
<1>1. nextPk \in Nat /\ now \in Time
  BY ConstantsAssumption DEF RemovalInv, Inv, TypeOK
<1>2. now + ACCESS_TOKEN_EXPIRE_SECONDS \in 0..(MaxTime + ACCESS_TOKEN_EXPIRE_SECONDS)
  BY <1>1, ConstantsAssumption, RemovalAssumption DEF Time
<1>3. NewIDToken(scope) \in IDTokenRow \cup {Null}
  BY <1>1, ConstantsAssumption, RemovalAssumption DEF Time, NewIDToken, IDTokenRow
<1>4. owner' \in [Pks -> Users \cup {Anonymous}]
  BY DEF NewPair, RemovalInv, RowsTyped
<1>5. expires' \in [Pks -> 0..(MaxTime + ACCESS_TOKEN_EXPIRE_SECONDS)]
  BY <1>2 DEF NewPair, RemovalInv, RowsTyped
<1>6. IDToken' \in [Pks -> IDTokenRow \cup {Null}]
  BY <1>3 DEF NewPair, RemovalInv, RowsTyped
<1>7. \A k \in Pks : ~Used(k)' => IDToken'[k] = Null
  BY <1>1 DEF NewPair, RemovalInv, RowsTyped, Used, Pks
<1>8. Kept
  BY <1>1 DEF NewPair, RemovalInv, RowsTyped, Used, Pks, Kept
<1>9. QED
  BY <1>4, <1>5, <1>6, <1>7, <1>8 DEF RowsTyped

\* All that the other steps do to these.
Other ==
  /\ UNCHANGED <<owner, expires>>
  /\ \/ UNCHANGED IDToken
     \/ \E k \in Pks : IDToken' = [IDToken EXCEPT ![k] = Null]

LEMMA OthersKeep ==
  ASSUME RemovalInv, Aged, Other
  PROVE  RowsTyped' /\ Kept
<1>1. nextPk \in Nat /\ nextPk' \in Nat /\ nextPk <= nextPk'
  BY ConstantsAssumption DEF RemovalInv, Inv, TypeOK, Aged
<1>2. \A k \in Pks : ~Used(k)' => ~Used(k)
  BY <1>1 DEF Used, Pks
<1>3. IDToken' \in [Pks -> IDTokenRow \cup {Null}]
  BY DEF RemovalInv, RowsTyped, Other
<1>4. \A k \in Pks : IDToken'[k] \in {IDToken[k], Null}
  BY DEF RemovalInv, RowsTyped, Other
<1>5. QED
  BY <1>2, <1>3, <1>4 DEF RemovalInv, RowsTyped, Kept, Other

LEMMA RenewPairKeeps ==
  ASSUME RemovalInv, NEW p \in Workers, RenewPair(p)
  PROVE  RowsTyped' /\ Kept
<1> DEFINE a == request[p].seen
<1>1. nextPk \in Nat /\ now \in Time /\ nextPk' = nextPk + 1
  BY ConstantsAssumption DEF RemovalInv, Inv, TypeOK, RenewPair, UpdateInPlace
<1>2. now + ACCESS_TOKEN_EXPIRE_SECONDS \in 0..(MaxTime + ACCESS_TOKEN_EXPIRE_SECONDS)
  BY <1>1, ConstantsAssumption, RemovalAssumption DEF Time
<1>3. NewIDToken(request[p].asked) \in IDTokenRow \cup {Null}
  BY <1>1, ConstantsAssumption, RemovalAssumption DEF Time, NewIDToken, IDTokenRow
<1>4. a \in Pks /\ ~ROTATE_REFRESH_TOKEN
  BY DEF RenewPair, UpdateInPlace, InPlace, RemovalInv, Inv, TypeOK, Request, Ref, Pks, Null
<1>5. owner' \in [Pks -> Users \cup {Anonymous}]
  BY <1>4 DEF RenewPair, RemovalInv, RowsTyped
<1>6. expires' \in [Pks -> 0..(MaxTime + ACCESS_TOKEN_EXPIRE_SECONDS)]
  BY <1>2, <1>4 DEF RenewPair, RemovalInv, RowsTyped
<1>7. IDToken' \in [Pks -> IDTokenRow \cup {Null}]
  BY <1>3 DEF RenewPair, RemovalInv, RowsTyped
<1>8. \A k \in Pks : ~Used(k)' => IDToken'[k] = Null
  BY <1>1 DEF RenewPair, RemovalInv, RowsTyped, Used, Pks
<1>9. Kept
  BY <1>1, <1>4 DEF RenewPair, RemovalInv, RowsTyped, Used, Pks, Kept, Renews
<1>10. QED
  BY <1>5, <1>6, <1>7, <1>8, <1>9 DEF RowsTyped

LEMMA RowsTypedInv ==
  ASSUME RemovalInv, Aged, [RemovalNext]_allVars
  PROVE  RowsTyped' /\ Kept
<1>1. ASSUME NEW p \in Workers, RotatePair(p)
      PROVE  RowsTyped' /\ Kept
  <2>1. request[p].rt \in Pks
    BY <1>1 DEF RotatePair, Rotate, RemovalInv, Inv, RequestsSound
  <2>2. owner[request[p].rt] \in Users \cup {Anonymous}
    BY <2>1 DEF RemovalInv, RowsTyped
  <2>3. QED
    BY <1>1, <2>2, NewPairKeeps DEF RotatePair, Rotate
<1>2. ASSUME NEW c \in Clients, NEW u \in Users, NEW scope \in SUBSET Scopes,
             IssuePair(c, u, scope)
      PROVE  RowsTyped' /\ Kept
  BY <1>2, NewPairKeeps DEF IssuePair, IssueTokens
<1>3. ASSUME NEW p \in Workers, OtherStep(p)
      PROVE  Other
  BY <1>3 DEF Other, OtherStep, removalVars
<1>4. ASSUME NEW k \in Pks, RevokePair(k) \/ DeleteAccess(k) \/ DeleteIDToken(k)
      PROVE  Other
  BY <1>4 DEF Other, RevokePair, DeleteAccess, DeleteIDToken, RemoveIDToken, removalVars
<1>5. ASSUME Logout
      PROVE  Other
  <2>1. ASSUME NEW a \in Pks, DeleteListed(a)
        PROVE  Other
    BY <2>1 DEF Other, DeleteListed, RemoveIDToken
  <2>2. QED
    BY <1>5, <2>1
    DEF Other, Logout, RequestLogout, SwitchSession, SubmitForm, ListRefreshTokens,
        ListAccessTokens, EndLogout, DeleteListedFails, RevokeListed
<1>6. ASSUME ClearExpired
      PROVE  Other
  <2>1. ASSUME NEW k \in Pks, DeleteRow(k)
        PROVE  Other
    <3>1. cleaner.stage \in Stages
      BY <2>1 DEF RemovalInv, CleanerSound, CleanerRun, IdsStillMatch, Deletes, DeleteRow
    <3>2. QED
      BY <2>1, <3>1 DEF Other, DeleteRow, RemoveIDToken, Stages
  <2>2. QED
    BY <1>6, <2>1 DEF Other, ClearExpired, StartCleaning, ListBatch, NextStage
<1>7. ASSUME Clock \/ UNCHANGED allVars
      PROVE  Other
  BY <1>7 DEF Other, Clock, allVars, removalVars
<1>8. QED
  BY <1>1, <1>2, <1>3, <1>4, <1>5, <1>6, <1>7, OthersKeep, RenewPairKeeps
  DEF RemovalNext
-----------------------------------------------------------------------------
(* The lists of a logout                                                     *)

\* Whatever the others do, the lists stay complete: no pair comes to the user that
\* he had before, and none that he had is left out.
LEMMA OthersLeaveLists ==
  ASSUME RemovalInv, Aged, Kept, UNCHANGED logout
  PROVE  LogoutSound'
<1>1. SUFFICES ASSUME logout.step \in {"listed", "deleting"}, NEW k \in logout.had
               PROVE  /\ Used(k)'
                      /\ AccessToken'[k] # Absent =>
                           IF logout.step = "listed" THEN k \in TokensOf(logout.user)'
                                                     ELSE k \in logout.access_tokens
                      /\ Live(k)' => k \in logout.refresh_tokens
  BY DEF RemovalInv, LogoutSound, ListsComplete
<1>2. k \in Pks
  BY DEF RemovalInv, LogoutSound, LogoutRequest
<1>3. /\ Used(k)
      /\ AccessToken[k] # Absent =>
           IF logout.step = "listed" THEN k \in TokensOf(logout.user)
                                     ELSE k \in logout.access_tokens
      /\ Live(k) => k \in logout.refresh_tokens
  BY <1>1 DEF RemovalInv, LogoutSound, ListsComplete
<1>4. AgedAccess(k) /\ AgedRefresh(k)
  BY <1>2, <1>3 DEF Aged
<1>5. owner'[k] = owner[k]
  BY <1>2, <1>3 DEF Kept
<1>6. Used(k)'
  BY <1>2, <1>3, ConstantsAssumption DEF Aged, Used, RemovalInv, Inv, TypeOK, Pks
<1>7. Live(k)' => Live(k)
  BY <1>4 DEF AgedRefresh, Live, Exists, Null
<1>8. AccessToken'[k] # Absent /\ k \in TokensOf(logout.user) => k \in TokensOf(logout.user)'
  BY <1>4, <1>5 DEF AgedAccess, TokensOf
<1>9. AccessToken'[k] # Absent => AccessToken[k] # Absent
  BY <1>4 DEF AgedAccess
<1>10. QED
  BY <1>3, <1>6, <1>7, <1>8, <1>9

LEMMA NoLogoutSound ==
  /\ NoLogout \in LogoutRequest
  /\ NoLogout.step = "idle" /\ NoLogout.refresh_tokens = {} /\ NoLogout.had = {}
BY ConstantsAssumption DEF NoLogout, LogoutRequest, Ref, Null

\* A logout that has not come to the lists yet.
LEMMA NoListsYet ==
  ASSUME NEW step \in {"idle", "prompting", "listing", "confirmed", "ending"},
         NEW session \in Users \cup {Anonymous}, NEW hint \in Ref,
         NEW user \in Users \cup {Anonymous},
         logout' = [NoLogout EXCEPT !.step = step, !.session = session,
                                    !.hint = hint, !.user = user]
  PROVE  LogoutSound'
<1>1. logout' \in LogoutRequest
  BY NoLogoutSound DEF LogoutRequest
<1>2. logout'.step = step /\ logout'.refresh_tokens = {} /\ logout'.had = {}
  BY NoLogoutSound DEF LogoutRequest
<1>3. QED
  BY <1>1, <1>2 DEF LogoutSound, ListsComplete

LEMMA BeginLogoutInv ==
  ASSUME RemovalInv, NEW k \in Ref, NEW current \in Users \cup {Anonymous},
         NEW step \in {"listing", "confirmed"}, BeginLogout(k, current, step)
  PROVE  LogoutSound'
<1> DEFINE user == IF k # Null THEN owner[k] ELSE current
<1>1. user \in Users \cup {Anonymous}
  BY DEF RemovalInv, RowsTyped, Ref, Pks, Null
<1>2. PICK s \in {"ending", step} :
        logout' = [NoLogout EXCEPT !.step = s, !.session = current,
                                   !.hint = k, !.user = user]
  BY DEF BeginLogout
<1> HIDE DEF user
<1>3. s \in {"idle", "prompting", "listing", "confirmed", "ending"}
  OBVIOUS
<1>4. QED
  BY <1>1, <1>2, <1>3, NoListsYet

LEMMA AskingInv ==
  ASSUME RemovalInv,
         \/ \E k \in Ref, u \in Users \cup {Anonymous} : RequestLogout(k, u)
         \/ \E u \in Users \cup {Anonymous} : SwitchSession(u)
         \/ \E allow \in BOOLEAN : SubmitForm(allow)
  PROVE  LogoutSound'
<1>1. logout \in LogoutRequest
  BY DEF RemovalInv, LogoutSound
<1>2. ASSUME logout' = NoLogout PROVE LogoutSound'
  BY <1>2, NoLogoutSound DEF LogoutSound, ListsComplete
<1>3. ASSUME NEW k \in Ref, NEW u \in Users \cup {Anonymous}, RequestLogout(k, u)
      PROVE  LogoutSound'
  <2>1. CASE BeginLogout(k, u, "listing")
    BY <2>1, BeginLogoutInv
  <2>2. CASE logout' = [NoLogout EXCEPT !.step = "prompting", !.session = u, !.hint = k]
    <3>1. logout' \in LogoutRequest
      BY <2>2, NoLogoutSound DEF LogoutRequest
    <3>2. logout'.step = "prompting" /\ logout'.refresh_tokens = {} /\ logout'.had = {}
      BY <2>2, NoLogoutSound DEF LogoutRequest
    <3>3. QED
      BY <3>1, <3>2 DEF LogoutSound, ListsComplete
  <2>3. QED
    BY <1>3, <2>1, <2>2 DEF RequestLogout
<1>4. ASSUME NEW u \in Users \cup {Anonymous}, SwitchSession(u)
      PROVE  LogoutSound'
  <2>1. logout' = [logout EXCEPT !.session = u] /\ logout.step = "prompting"
    BY <1>4 DEF SwitchSession
  <2>2. logout' \in LogoutRequest
    BY <1>1, <2>1 DEF LogoutRequest
  <2>3. logout'.step = "prompting" /\ logout'.had = logout.had
        /\ logout'.refresh_tokens = logout.refresh_tokens
    BY <1>1, <2>1 DEF LogoutRequest
  <2>4. QED
    BY <2>2, <2>3 DEF RemovalInv, LogoutSound, ListsComplete
<1>5. ASSUME NEW allow \in BOOLEAN, SubmitForm(allow)
      PROVE  LogoutSound'
  <2>1. logout.hint \in Ref /\ logout.session \in Users \cup {Anonymous}
    BY <1>1 DEF LogoutRequest
  <2>2. PICK k \in Ref, u \in Users \cup {Anonymous}, step \in {"listing", "confirmed"} :
          logout' = NoLogout \/ BeginLogout(k, u, step)
    BY <1>5, <2>1 DEF SubmitForm
  <2>3. QED
    BY <1>2, <2>2, BeginLogoutInv
<1>6. QED
  BY <1>3, <1>4, <1>5

LEMMA ListRefreshTokensInv ==
  ASSUME RemovalInv, ListRefreshTokens
  PROVE  LogoutSound'
<1>1. logout \in LogoutRequest
  BY DEF RemovalInv, LogoutSound
<1>2. PICK user \in Users \cup {Anonymous} : user = logout.user
  BY <1>1 DEF LogoutRequest
<1>3. PICK listed \in SUBSET Pks : listed = RefreshTokensOf(user)
  BY DEF RefreshTokensOf
<1>4. PICK had \in SUBSET Pks : had = TokensOf(user)
  BY DEF TokensOf
<1>5. logout' = [NoLogout EXCEPT !.step = "listed", !.user = user,
                                 !.refresh_tokens = listed, !.had = had]
  BY <1>2, <1>3, <1>4 DEF ListRefreshTokens
<1>6. UNCHANGED <<AccessToken, RefreshToken, nextPk, owner>>
  BY DEF ListRefreshTokens, vars, db
<1>7. \A k \in had : Used(k)
  BY <1>4 DEF TokensOf, RemovalInv, Inv, TypeOK, FreshKeys, Used, Pks
<1>8. \A k \in had : Live(k) => k \in listed
  BY <1>3, <1>4 DEF TokensOf, RefreshTokensOf, RemovalInv, Inv, Pairing, Live
<1>9. listed \subseteq had
  BY <1>3, <1>4 DEF TokensOf, RefreshTokensOf, RemovalInv, Inv, Pairing, Pks, Null
<1>10. logout' \in LogoutRequest
  BY <1>5, NoLogoutSound DEF LogoutRequest
<1>11. /\ logout'.step = "listed" /\ logout'.user = user
       /\ logout'.refresh_tokens = listed /\ logout'.had = had
  BY <1>5, NoLogoutSound DEF LogoutRequest
<1>12. TokensOf(user)' = had
  BY <1>4, <1>6 DEF TokensOf
<1>13. ListsComplete'
  BY <1>6, <1>7, <1>8, <1>11, <1>12 DEF ListsComplete, TokensOf, Used, Live, Exists
<1>14. QED
  BY <1>9, <1>10, <1>11, <1>13 DEF LogoutSound

\* What a step leaves of a pair that is in a list.
LEMMA ListedAges ==
  ASSUME RemovalInv, Aged, NEW k \in logout.had, logout.step \in {"listed", "deleting"}
  PROVE  /\ k \in Pks /\ Used(k)'
         /\ AccessToken'[k] # Absent => AccessToken[k] # Absent
         /\ Live(k)' => Live(k) /\ k \in logout.refresh_tokens
<1>1. k \in Pks /\ Used(k) /\ (Live(k) => k \in logout.refresh_tokens)
  BY DEF RemovalInv, LogoutSound, LogoutRequest, ListsComplete
<1>2. AgedAccess(k) /\ AgedRefresh(k)
  BY <1>1 DEF Aged
<1>3. Used(k)'
  BY <1>1, ConstantsAssumption DEF Aged, Used, RemovalInv, Inv, TypeOK, Pks
<1>4. QED
  BY <1>1, <1>2, <1>3 DEF AgedAccess, AgedRefresh, Live, Exists, Null

LEMMA ListAccessTokensInv ==
  ASSUME RemovalInv, ListAccessTokens
  PROVE  LogoutSound'
<1>1. logout \in LogoutRequest /\ logout.refresh_tokens \subseteq logout.had
  BY DEF RemovalInv, LogoutSound
<1>2. PICK access \in SUBSET Pks, with \in SUBSET Pks :
        /\ access = TokensOf(logout.user)
        /\ logout' = [logout EXCEPT !.step = "deleting", !.access_tokens = access,
                                    !.with_id_token = with]
  BY DEF ListAccessTokens, TokensOf
<1>3. logout' \in LogoutRequest
  BY <1>1, <1>2 DEF LogoutRequest
<1>4. /\ logout'.step = "deleting" /\ logout'.access_tokens = access
      /\ logout'.refresh_tokens = logout.refresh_tokens /\ logout'.had = logout.had
  BY <1>1, <1>2 DEF LogoutRequest
<1>5. UNCHANGED <<AccessToken, RefreshToken, nextPk>> /\ logout.step = "listed"
  BY DEF ListAccessTokens, vars, db
<1>6. QED
  BY <1>1, <1>2, <1>3, <1>4, <1>5
  DEF RemovalInv, LogoutSound, ListsComplete, Used, Live, Exists

LEMMA DeleteListedInv ==
  ASSUME RemovalInv, Aged, NEW a \in Pks, DeleteListed(a)
  PROVE  LogoutSound'
<1>1. /\ logout \in LogoutRequest /\ logout.refresh_tokens \subseteq logout.had
      /\ logout.step = "deleting"
  BY DEF RemovalInv, LogoutSound, DeleteListed
<1>2. logout' = [logout EXCEPT !.access_tokens = @ \ {a}]
  BY DEF DeleteListed
<1>3. logout' \in LogoutRequest
  BY <1>1, <1>2 DEF LogoutRequest
<1>4. /\ logout'.step = "deleting" /\ logout'.access_tokens = logout.access_tokens \ {a}
      /\ logout'.refresh_tokens = logout.refresh_tokens /\ logout'.had = logout.had
  BY <1>1, <1>2 DEF LogoutRequest
<1>5. AccessToken'[a] = Absent
  BY DEF DeleteListed, RemoveIDToken, RemoveAccess, DeleteAccessToken,
     AccessTokensWithout, vars, db
<1>6. \A k \in logout.had : AccessToken[k] # Absent => k \in logout.access_tokens
  BY <1>1 DEF RemovalInv, LogoutSound, ListsComplete
<1>7. QED
  BY <1>1, <1>3, <1>4, <1>5, <1>6, ListedAges DEF LogoutSound, ListsComplete

LEMMA RevokeListedInv ==
  ASSUME RemovalInv, Aged, NEW r \in Pks, RevokeListed(r)
  PROVE  LogoutSound'
<1>1. /\ logout \in LogoutRequest /\ logout.refresh_tokens \subseteq logout.had
      /\ logout.step = "deleting"
  BY DEF RemovalInv, LogoutSound, RevokeListed
<1>2. logout' = [logout EXCEPT !.refresh_tokens = @ \ {r}]
  BY DEF RevokeListed
<1>3. logout' \in LogoutRequest
  BY <1>1, <1>2 DEF LogoutRequest
<1>4. /\ logout'.step = "deleting" /\ logout'.access_tokens = logout.access_tokens
      /\ logout'.refresh_tokens = logout.refresh_tokens \ {r} /\ logout'.had = logout.had
  BY <1>1, <1>2 DEF LogoutRequest
<1>5. ~Live(r)'
  <2>1. CASE Live(r)
    <3>1. RefreshToken[r] \in RefreshRow
      BY <2>1, RowTypes DEF RemovalInv, Inv, Live
    <3>2. RefreshToken' = [RefreshToken EXCEPT ![r] = RevokedRow(r)]
      BY <2>1 DEF RevokeListed, RevokeRefreshToken, Revoke
    <3>3. now # Null
      BY ConstantsAssumption DEF RemovalInv, Inv, TypeOK, Time, Null
    <3>4. QED
      BY <3>1, <3>2, <3>3 DEF Live, Exists, RevokedRow, RemovalInv, Inv, TypeOK, RefreshRow
  <2>2. CASE ~Live(r)
    BY <2>2 DEF RevokeListed, Live, Exists, vars, db
  <2>3. QED
    BY <2>1, <2>2
<1>6. \A k \in logout.had : AccessToken[k] # Absent => k \in logout.access_tokens
  BY <1>1 DEF RemovalInv, LogoutSound, ListsComplete
<1>7. QED
  BY <1>1, <1>3, <1>4, <1>5, <1>6, ListedAges DEF LogoutSound, ListsComplete

LEMMA LogoutInv ==
  ASSUME RemovalInv, Aged, Logout
  PROVE  LogoutSound'
<1>1. ASSUME logout' = NoLogout PROVE LogoutSound'
  BY <1>1, NoLogoutSound DEF LogoutSound, ListsComplete
<1>2. CASE EndLogout \/ \E a \in Pks : DeleteListedFails(a)
  BY <1>1, <1>2 DEF EndLogout, DeleteListedFails
<1>3. QED
  BY <1>2, AskingInv, ListRefreshTokensInv, ListAccessTokensInv, DeleteListedInv,
     RevokeListedInv
  DEF Logout

LEMMA LogoutSoundInv ==
  ASSUME RemovalInv, Aged, Kept, [RemovalNext]_allVars
  PROVE  LogoutSound'
<1>1. CASE UNCHANGED logout
  BY <1>1, OthersLeaveLists
<1>2. CASE Logout
  BY <1>2, LogoutInv
<1>3. Logout \/ UNCHANGED logout
  BY DEF RemovalNext, RotatePair, RenewPair, IssuePair, NewPair, OtherStep, RevokePair,
     DeleteAccess,
      DeleteIDToken, ClearExpired, StartCleaning, ListBatch, NextStage, DeleteRow,
      Clock, allVars, removalVars
<1>4. QED
  BY <1>1, <1>2, <1>3
-----------------------------------------------------------------------------
(* The identifiers clear_expired has read                                    *)

LEMMA NumbersTyped ==
  ASSUME RemovalInv
  PROVE  /\ now \in Nat /\ now <= MaxTime /\ cleaner.at \in Nat /\ cleaner.at <= now
         /\ \A k \in Pks : expires[k] \in Nat
BY ConstantsAssumption, RemovalAssumption
DEF RemovalInv, Inv, TypeOK, Time, CleanerSound, CleanerRun, RowsTyped

\* What was found of a row holds on: revoked is for good, and expired is but for a
\* row that is renewed in place.
StillRenewed(k) ==
  ~ROTATE_REFRESH_TOKEN /\ expires'[k] >= cleaner.at + ACCESS_TOKEN_EXPIRE_SECONDS

LEMMA IdsAge ==
  ASSUME RemovalInv, Aged, Kept, NEW k \in cleaner.ids
  PROVE  /\ k \in Pks /\ Used(k)'
         /\ cleaner.stage = "revoked" => ~Live(k)'
         /\ cleaner.stage = "expired" =>
              expires'[k] + REFRESH_TOKEN_EXPIRE_SECONDS < now' \/ StillRenewed(k)
         /\ cleaner.stage = "access" =>
              /\ AccessToken'[k] # Absent => ~Exists(k)'
              /\ expires'[k] < now' \/ StillRenewed(k)
         /\ cleaner.stage = "id" => AccessToken'[k] = Absent
         /\ cleaner.stage \in Stages
<1>1. /\ k \in Pks /\ Used(k) /\ Deletes(k) /\ cleaner.stage \in Stages
  BY DEF RemovalInv, CleanerSound, CleanerRun, IdsStillMatch, Deletes
<1>2. /\ AgedAccess(k) /\ AgedRefresh(k)
      /\ expires'[k] = expires[k] \/ Renews(k)
  BY <1>1 DEF Aged, Kept
<1>3. Used(k)'
  BY <1>1, ConstantsAssumption DEF Aged, Used, RemovalInv, Inv, TypeOK, Pks
<1>4. expires[k] \in Nat /\ now \in Nat /\ now' \in Nat /\ now <= now'
  BY <1>1, NumbersTyped, ConstantsAssumption DEF Aged, Time
<1>5. /\ cleaner.stage = "revoked" => ~Live(k)
      /\ cleaner.stage = "expired" =>
           expires[k] + REFRESH_TOKEN_EXPIRE_SECONDS < now \/ Renewed(k)
      /\ cleaner.stage = "access" =>
           /\ AccessToken[k] # Absent => ~Exists(k)
           /\ expires[k] < now \/ Renewed(k)
      /\ cleaner.stage = "id" => AccessToken[k] = Absent
  BY <1>1 DEF Deletes
<1>6. Renews(k) => StillRenewed(k)
  BY NumbersTyped, RemovalAssumption DEF Renews, StillRenewed
<1>7. Renewed(k) => StillRenewed(k)
  BY <1>2, <1>6 DEF Renewed, StillRenewed
<1>8. /\ cleaner.stage = "expired" =>
           expires'[k] + REFRESH_TOKEN_EXPIRE_SECONDS < now' \/ StillRenewed(k)
      /\ cleaner.stage = "access" => expires'[k] < now' \/ StillRenewed(k)
  BY <1>2, <1>4, <1>5, <1>6, <1>7, ConstantsAssumption
<1>9. (Live(k)' => Live(k)) /\ (Exists(k)' => Exists(k))
      /\ (AccessToken'[k] # Absent => AccessToken[k] # Absent)
  BY <1>2 DEF AgedAccess, AgedRefresh, Live, Exists, Null
<1>10. QED
  BY <1>1, <1>3, <1>5, <1>8, <1>9

LEMMA FewerIds ==
  ASSUME RemovalInv, Aged, Kept, NEW gone,
         cleaner' = [cleaner EXCEPT !.ids = @ \ gone] \/ UNCHANGED cleaner
  PROVE  CleanerSound'
<1>1. cleaner \in CleanerRun
  BY DEF RemovalInv, CleanerSound
<1>2. /\ cleaner' \in CleanerRun /\ cleaner'.stage = cleaner.stage
      /\ cleaner'.at = cleaner.at /\ cleaner'.ids \subseteq cleaner.ids
  BY <1>1 DEF CleanerRun
<1>3. cleaner'.at <= now'
  BY <1>2, NumbersTyped, ConstantsAssumption DEF Aged, Time
<1>4. ASSUME NEW k \in cleaner'.ids
      PROVE  Used(k)' /\ Deletes(k)'
  <2>1. k \in cleaner.ids
    BY <1>2
  <2>2. QED
    BY <1>2, <2>1, IdsAge DEF Deletes, Stages, Renewed, StillRenewed
<1>5. QED
  BY <1>2, <1>3, <1>4 DEF CleanerSound, IdsStillMatch

\* What the queries select, of rows that exist.
LEMMA MatchingIsFound ==
  ASSUME RemovalInv, cleaner.stage \in Stages, NEW k \in Matching
  PROVE  k \in Pks /\ Used(k) /\ Deletes(k)
<1>1. CASE cleaner.stage = "revoked"
  <2>1. k \in Pks /\ Exists(k) /\ RefreshToken[k].revoked # Null
    BY <1>1 DEF Matching, RevokedRefresh
  <2>2. QED
    BY <1>1, <2>1
    DEF Deletes, Live, Used, Exists, RemovalInv, Inv, TypeOK, FreshKeys, Pks
<1>2. CASE cleaner.stage = "expired"
  <2>1. /\ k \in Pks /\ Exists(k) /\ RefreshToken[k].access_token # Null
        /\ expires[RefreshToken[k].access_token] + REFRESH_TOKEN_EXPIRE_SECONDS
             < cleaner.at
    BY <1>2 DEF Matching, ExpiredRefresh
  <2>2. RefreshToken[k].access_token = k
    BY <2>1 DEF RemovalInv, Inv, Pairing
  <2>3. expires[k] + REFRESH_TOKEN_EXPIRE_SECONDS < now
    BY <2>1, <2>2, NumbersTyped, ConstantsAssumption
  <2>4. QED
    BY <1>2, <2>1, <2>3 DEF Deletes, Used, Exists, RemovalInv, Inv, TypeOK, FreshKeys, Pks
<1>3. CASE cleaner.stage = "access"
  <2>1. /\ k \in Pks /\ AccessToken[k] # Absent /\ PairOf(k) = {}
        /\ expires[k] < cleaner.at
    BY <1>3 DEF Matching, ExpiredAccess
  <2>2. ~Exists(k)
    BY <2>1 DEF PairOf, RemovalInv, Inv, Pairing
  <2>3. expires[k] < now
    BY <2>1, NumbersTyped
  <2>4. QED
    BY <1>3, <2>1, <2>2, <2>3 DEF Deletes, Used, RemovalInv, Inv, TypeOK, FreshKeys, Pks
<1>4. CASE cleaner.stage = "id"
  <2>1. k \in Pks /\ IDToken[k] # Null /\ AccessToken[k] = Absent
    BY <1>4 DEF Matching, ExpiredIDTokens
  <2>2. QED
    BY <1>4, <2>1 DEF Deletes, RemovalInv, RowsTyped
<1>5. QED
  BY <1>1, <1>2, <1>3, <1>4 DEF Stages

LEMMA ClearExpiredInv ==
  ASSUME RemovalInv, Aged, Kept, ClearExpired
  PROVE  CleanerSound'
<1>1. cleaner \in CleanerRun
  BY DEF RemovalInv, CleanerSound
<1>2. 0 \in 0..MaxTime /\ now \in 0..MaxTime
  BY NumbersTyped, ConstantsAssumption
<1>3. CASE StartCleaning
  <2>1. PICK stage \in {"access", "revoked"} :
          cleaner' = [stage |-> stage, at |-> now, ids |-> {}]
    BY <1>3 DEF StartCleaning
  <2>2. now' = now
    BY <1>3 DEF StartCleaning, vars
  <2>3. QED
    BY <1>2, <2>1, <2>2, NumbersTyped DEF CleanerSound, CleanerRun, Stages, IdsStillMatch
<1>4. CASE ListBatch
  <2>1. PICK ids \in SUBSET Matching : cleaner' = [cleaner EXCEPT !.ids = ids]
    BY <1>4 DEF ListBatch
  <2>2. cleaner.stage \in Stages
    BY <1>4 DEF ListBatch
  <2>3. \A k \in ids : k \in Pks /\ Used(k) /\ Deletes(k)
    BY <2>2, MatchingIsFound
  <2>4. /\ cleaner' \in CleanerRun /\ cleaner'.stage = cleaner.stage
        /\ cleaner'.at = cleaner.at /\ cleaner'.ids = ids
    BY <1>1, <2>1, <2>3 DEF CleanerRun
  <2>5. UNCHANGED <<now, AccessToken, RefreshToken, nextPk, expires>>
    BY <1>4 DEF ListBatch, vars, db
  <2>6. \A k \in ids : Used(k)' /\ Deletes(k)'
    BY <2>3, <2>4, <2>5 DEF Used, Deletes, Live, Exists, Renewed
  <2>7. QED
    BY <2>4, <2>5, <2>6, NumbersTyped DEF CleanerSound, IdsStillMatch
<1>5. CASE NextStage
  <2>1. cleaner.stage \in Stages /\ cleaner.ids = {} /\ now' = now
    BY <1>5 DEF NextStage, vars
  <2>2. CASE cleaner.stage = "id"
    BY <1>2, <1>5, <2>1, <2>2, NumbersTyped
    DEF NextStage, CleanerSound, CleanerRun, IdsStillMatch, Null
  <2>3. CASE cleaner.stage # "id"
    <3>1. cleaner' = [cleaner EXCEPT !.stage = StageAfter(cleaner.stage)]
      BY <1>1, <1>5, <2>3 DEF NextStage, CleanerRun
    <3>2. StageAfter(cleaner.stage) \in Stages
      BY <2>1, <2>3 DEF StageAfter, Stages
    <3>3. cleaner' \in CleanerRun /\ cleaner'.ids = {} /\ cleaner'.at = cleaner.at
      BY <1>1, <2>1, <3>1, <3>2 DEF CleanerRun
    <3>4. QED
      BY <2>1, <3>3, NumbersTyped DEF CleanerSound, IdsStillMatch
  <2>4. QED
    BY <2>2, <2>3
<1>6. ASSUME NEW k \in Pks, DeleteRow(k)
      PROVE  CleanerSound'
  BY <1>6, FewerIds DEF DeleteRow
<1>7. QED
  BY <1>3, <1>4, <1>5, <1>6 DEF ClearExpired

LEMMA CleanerSoundInv ==
  ASSUME RemovalInv, Aged, Kept, [RemovalNext]_allVars
  PROVE  CleanerSound'
<1>1. CASE UNCHANGED cleaner
  BY <1>1, FewerIds
<1>2. CASE ClearExpired
  BY <1>2, ClearExpiredInv
<1>3. ClearExpired \/ UNCHANGED cleaner
  BY DEF RemovalNext, RotatePair, RenewPair, IssuePair, NewPair, OtherStep, RevokePair,
     DeleteAccess,
     DeleteIDToken, Logout, RequestLogout, SwitchSession, SubmitForm, ListRefreshTokens,
     ListAccessTokens, EndLogout, DeleteListed, DeleteListedFails, RevokeListed, Clock,
     allVars, removalVars
<1>4. QED
  BY <1>1, <1>2, <1>3
-----------------------------------------------------------------------------
(* Theorems                                                                  *)

LEMMA RemovalInitInv == RemovalInit => RemovalInv
<1>1. SUFFICES ASSUME RemovalInit PROVE RemovalInv
  OBVIOUS
<1>2. Inv /\ now = 1
  BY <1>1, InitInv DEF RemovalInit, Init
<1>3. ClientsAgree
  BY <1>1 DEF RemovalInit, Init, EmptyDatabase, ClientsAgree, PairsOfOneClient, RenewsItsOwn
<1>4. RowsTyped
  BY <1>1, ConstantsAssumption, RemovalAssumption DEF RemovalInit, RowsTyped, IDTokenRow, Null
<1>5. LogoutSound
  BY <1>1, NoLogoutSound DEF RemovalInit, LogoutSound, ListsComplete
<1>6. CleanerSound
  BY <1>1, <1>2, ConstantsAssumption
  DEF RemovalInit, CleanerSound, CleanerRun, IdsStillMatch, Stages, Null
<1>7. QED
  BY <1>2, <1>3, <1>4, <1>5, <1>6 DEF RemovalInv

LEMMA RemovalStep ==
  ASSUME RemovalInv, [RemovalNext]_allVars
  PROVE  RemovalInv' /\ Aged /\ Kept
<1>1. [Next]_vars
  BY StepOfRefreshTokens DEF RemovalInv
<1>2. Inv'
  BY <1>1, NextInv DEF RemovalInv
<1>3. Aged
  BY <1>1, <1>2, RowsAge DEF RemovalInv
<1>4. ClientsAgree'
  BY <1>1, <1>2, <1>3, ClientsAgreeInv DEF RemovalInv
<1>5. RowsTyped' /\ Kept
  BY <1>3, RowsTypedInv
<1>6. LogoutSound' /\ CleanerSound'
  BY <1>3, <1>5, LogoutSoundInv, CleanerSoundInv
<1>7. QED
  BY <1>2, <1>3, <1>4, <1>5, <1>6 DEF RemovalInv

\* The inductive invariant: what RefreshTokens keeps, and the lists that a logout and
\* clear_expired have read and not deleted yet.
THEOREM RemovalInvariance == RemovalSpec => []RemovalInv
<1>1. RemovalInit => RemovalInv
  BY RemovalInitInv
<1>2. RemovalInv /\ [RemovalNext]_allVars => RemovalInv'
  BY RemovalStep
<1>3. QED
  BY <1>1, <1>2, PTL DEF RemovalSpec

\* The rows keep their user, expiry and ID token, a logout and clear_expired their lists.
THEOREM RemovalTypeCorrect == RemovalSpec => []RemovalTypeOK
<1>1. RemovalInv => RemovalTypeOK
  <2>1. SUFFICES ASSUME RemovalInv PROVE RemovalTypeOK
    OBVIOUS
  <2>2. logout \in LogoutRequest /\ cleaner \in CleanerRun
    BY <2>1 DEF RemovalInv, LogoutSound, CleanerSound
  <2>3. cleaner.at \in 0..now
    BY <2>1, NumbersTyped
  <2>4. QED
    BY <2>1, <2>2, <2>3
    DEF RemovalInv, RowsTyped, LogoutSound, LogoutRequest, CleanerRun, RemovalTypeOK
<1>2. QED
  BY <1>1, RemovalInvariance, PTL

\* Every step of RPInitiatedLogoutView.do_logout and of clear_expired is one that
\* RefreshTokens allows for, so the theorems about RefreshTokens hold of them too.
THEOREM RemovalIsRefreshTokens == RemovalSpec => ImplementsRefreshTokens
<1>1. RemovalInit => Init
  BY DEF RemovalInit
<1>2. RemovalInv /\ [RemovalNext]_allVars => [Next]_vars
  BY StepOfRefreshTokens DEF RemovalInv
<1>3. QED
  BY <1>1, <1>2, RemovalInvariance, PTL DEF RemovalSpec, ImplementsRefreshTokens

\* When the deletion of a logout is through, no pair the user had when it was begun
\* is left, whatever was refreshed, revoked or cleaned up while it ran.
THEOREM LogoutIsComplete == RemovalSpec => LogoutEndsPairs
<1>1. RemovalInv /\ [RemovalNext]_allVars =>
        [LoggingOut => \A k \in logout.had : AccessToken[k] = Absent /\ ~Live(k)]_allVars
  <2>1. SUFFICES ASSUME RemovalInv, RemovalNext, LoggingOut, NEW k \in logout.had
                 PROVE  AccessToken[k] = Absent /\ ~Live(k)
    BY DEF LoggingOut
  <2>2. /\ AccessToken[k] # Absent => k \in logout.access_tokens
        /\ Live(k) => k \in logout.refresh_tokens
    BY <2>1 DEF RemovalInv, LogoutSound, ListsComplete, LoggingOut
  <2>3. logout' # logout
    BY <2>1 DEF LoggingOut
  <2>4. Logout
    BY <2>1, <2>3
    DEF RemovalNext, RotatePair, RenewPair, IssuePair, NewPair, OtherStep, RevokePair,
     DeleteAccess,
        DeleteIDToken, ClearExpired, StartCleaning, ListBatch, NextStage, DeleteRow,
        Clock, removalVars
  <2>5. logout \in LogoutRequest
    BY <2>1 DEF RemovalInv, LogoutSound
  <2>6. ASSUME NEW r \in Pks, RevokeListed(r)
        PROVE  FALSE
    BY <2>1, <2>5, <2>6 DEF RevokeListed, LoggingOut, LogoutRequest
  <2>7. EndLogout
    BY <2>1, <2>4, <2>6
    DEF Logout, RequestLogout, SwitchSession, SubmitForm, ListRefreshTokens,
        ListAccessTokens, DeleteListed, DeleteListedFails, LoggingOut
  <2>8. logout.refresh_tokens = {}
    BY <2>1, <2>7 DEF EndLogout, LoggingOut
  <2>9. QED
    BY <2>1, <2>2, <2>8 DEF LoggingOut
<1>2. QED
  BY <1>1, RemovalInvariance, PTL DEF RemovalSpec, LogoutEndsPairs

\* Nobody's tokens are deleted on an ID token given without the user who is logged
\* in being asked, unless they are his own and the ID token is too.
THEOREM LogoutIsAskedFor == RemovalSpec => AskedBeforeLogout
<1>1. RemovalInv /\ [RemovalNext]_allVars =>
        [(logout.step # "listing" /\ logout'.step = "listing"
            /\ logout'.session # Anonymous)
           => logout'.user = logout'.session /\ logout'.hint # Null]_allVars
  <2>1. SUFFICES ASSUME RemovalInv, RemovalNext, logout.step # "listing",
                        logout'.step = "listing", logout'.session # Anonymous
                 PROVE  logout'.user = logout'.session /\ logout'.hint # Null
    OBVIOUS
  <2>2. logout \in LogoutRequest /\ logout' # logout
    BY <2>1 DEF RemovalInv, LogoutSound
  <2>3. ASSUME NEW k \in Ref, NEW current \in Users \cup {Anonymous},
               NEW step \in {"listing", "confirmed"}, BeginLogout(k, current, step),
               step = "listing" => ~MustPrompt(current, TokenUser(k))
        PROVE  logout'.user = logout'.session /\ logout'.hint # Null
    <3> DEFINE user == IF k # Null THEN owner[k] ELSE current
    <3>1. PICK s \in {"ending", step} :
            logout' = [NoLogout EXCEPT !.step = s, !.session = current,
                                       !.hint = k, !.user = user]
      BY <2>3 DEF BeginLogout
    <3>2. /\ logout'.step = s /\ logout'.session = current
          /\ logout'.hint = k /\ logout'.user = user
      BY <3>1, NoLogoutSound DEF LogoutRequest
    <3>3. step = "listing"
      BY <2>1, <3>2
    <3>4. current # Anonymous /\ current = TokenUser(k)
      BY <2>1, <2>3, <3>2, <3>3 DEF MustPrompt
    <3>5. k # Null
      BY <3>4 DEF TokenUser
    <3>6. QED
      BY <3>2, <3>4, <3>5 DEF TokenUser
  <2>4. ASSUME NEW k \in Ref, NEW u \in Users \cup {Anonymous}, RequestLogout(k, u)
        PROVE  logout'.user = logout'.session /\ logout'.hint # Null
    <3>1. logout' # [NoLogout EXCEPT !.step = "prompting", !.session = u, !.hint = k]
      BY <2>1, NoLogoutSound DEF LogoutRequest
    <3>2. QED
      BY <2>3, <2>4, <3>1 DEF RequestLogout
  <2>5. ASSUME NEW allow \in BOOLEAN, SubmitForm(allow)
        PROVE  logout'.user = logout'.session /\ logout'.hint # Null
    <3>1. PICK k \in Ref, u \in Users \cup {Anonymous} :
            k = logout.hint /\ u = logout.session
      BY <2>2 DEF LogoutRequest
    <3>2. logout' # NoLogout
      BY <2>1, NoLogoutSound
    <3>3. CASE allow
      BY <2>3, <2>5, <3>1, <3>2, <3>3 DEF SubmitForm
    <3>4. CASE ~allow
      BY <2>3, <2>5, <3>1, <3>2, <3>4 DEF SubmitForm
    <3>5. QED
      BY <3>3, <3>4
  <2>6. ~ListRefreshTokens
    BY <2>1, NoLogoutSound DEF ListRefreshTokens, LogoutRequest
  <2>7. ~ListAccessTokens /\ ~EndLogout
    BY <2>1, <2>2, NoLogoutSound DEF ListAccessTokens, EndLogout, LogoutRequest
  <2>8. \A a \in Pks : ~DeleteListed(a) /\ ~DeleteListedFails(a) /\ ~RevokeListed(a)
    BY <2>1, <2>2, NoLogoutSound
    DEF DeleteListed, DeleteListedFails, RevokeListed, LogoutRequest
  <2>9. \A u \in Users \cup {Anonymous} : ~SwitchSession(u)
    BY <2>1, <2>2 DEF SwitchSession, LogoutRequest
  <2>10. Logout
    BY <2>1, <2>2
    DEF RemovalNext, RotatePair, RenewPair, IssuePair, NewPair, OtherStep, RevokePair,
     DeleteAccess,
        DeleteIDToken, ClearExpired, StartCleaning, ListBatch, NextStage, DeleteRow,
        Clock, removalVars
  <2>11. QED
    BY <2>4, <2>5, <2>6, <2>7, <2>8, <2>9, <2>10 DEF Logout
<1>2. QED
  BY <1>1, RemovalInvariance, PTL DEF RemovalSpec, AskedBeforeLogout

\* What clear_expired may do to the pair k
Spared(k) ==
  /\ (AccessToken[k] # Absent /\ AccessToken'[k] = Absent) =>
       ~Exists(k) /\ (expires[k] < now \/ Renewed(k))
  /\ Live(k) =>
       \/ RefreshToken'[k] = RefreshToken[k]
       \/ /\ RefreshToken'[k] = Absent
          /\ RefreshToken[k].access_token # Null =>
               \/ expires[k] + REFRESH_TOKEN_EXPIRE_SECONDS < now
               \/ Renewed(k)

LEMMA DeleteRowSpares ==
  ASSUME RemovalInv, NEW k \in Pks, DeleteRow(k), NEW i \in Pks
  PROVE  Spared(i)
<1>1. k \in cleaner.ids
  BY DEF DeleteRow
<1>2. cleaner.stage \in Stages /\ Deletes(k)
  BY <1>1 DEF RemovalInv, CleanerSound, CleanerRun, IdsStillMatch, Deletes
<1>3. \A a \in Pks : AccessToken[a] # Absent => AccessToken[a] \in AccessRow
  BY RowTypes DEF RemovalInv, Inv
<1>4. ASSUME UNCHANGED vars PROVE Spared(i)
  BY <1>4 DEF Spared, vars, db
<1>5. CASE cleaner.stage \in {"revoked", "expired"}
  <2>1. CASE ~Exists(k)
    BY <1>4, <1>5, <2>1 DEF DeleteRow
  <2>2. CASE Exists(k)
    <3>1. CleanRefreshToken(k)
      BY <1>5, <2>2 DEF DeleteRow
    <3>2. AccessToken[i] # Absent => AccessToken'[i] # Absent
      <4>1. SUFFICES ASSUME AccessToken[i] # Absent PROVE AccessToken'[i] # Absent
        OBVIOUS
      <4>2. AccessToken[i] \in AccessRow /\ Null \in Ref
        BY <1>3, <4>1, ConstantsAssumption DEF Ref, Null
      <4>3. [AccessToken[i] EXCEPT !.source_refresh_token = Null] \in AccessRow
        BY <4>2 DEF AccessRow
      <4>4. QED
        BY <3>1, <4>1, <4>3, AbsentAssumption DEF CleanRefreshToken
    <3>3. i # k => RefreshToken'[i] = RefreshToken[i]
      BY <3>1 DEF CleanRefreshToken
    <3>4. RefreshToken'[k] = Absent
      BY <3>1 DEF CleanRefreshToken, RemovalInv, Inv, TypeOK
    <3>5. Live(k) =>
            expires[k] + REFRESH_TOKEN_EXPIRE_SECONDS < now \/ Renewed(k)
      BY <1>2, <1>5 DEF Deletes
    <3>6. QED
      BY <3>2, <3>3, <3>4, <3>5 DEF Spared
  <2>3. QED
    BY <2>1, <2>2
<1>6. CASE cleaner.stage = "access"
  <2>1. RemoveAccess(k)
    BY <1>6 DEF DeleteRow
  <2>2. CASE AccessToken[k] # Absent
    <3>1. DeleteAccessToken(k)
      BY <2>1, <2>2 DEF RemoveAccess
    <3>2. ~Exists(k) /\ (expires[k] < now \/ Renewed(k))
      BY <1>2, <1>6, <2>2 DEF Deletes
    <3>3. i \notin PairOf(k)
      BY <3>2, ConstantsAssumption DEF PairOf, RemovalInv, Inv, Pairing, Pks, Null
    <3>4. RefreshToken'[i] = RefreshToken[i]
      BY <3>1, <3>3 DEF DeleteAccessToken
    <3>5. i # k => AccessToken'[i] = AccessToken[i]
      BY <3>1 DEF DeleteAccessToken, AccessTokensWithout
    <3>6. QED
      BY <3>2, <3>4, <3>5 DEF Spared
  <2>3. QED
    BY <1>4, <2>1, <2>2 DEF RemoveAccess
<1>7. CASE cleaner.stage = "id"
  BY <1>2, <1>4, <1>7 DEF DeleteRow, RemoveIDToken, RemoveAccess, Deletes
<1>8. QED
  BY <1>2, <1>5, <1>6, <1>7 DEF Stages

\* A step of clear_expired that deletes deletes one of the rows it listed.
LEMMA CleaningDeletesRow ==
  ASSUME RemovalInv, RemovalNext, cleaner.ids # {}, cleaner' # cleaner
  PROVE  \E k \in Pks : DeleteRow(k)
<1>1. ClearExpired
  BY DEF RemovalNext, RotatePair, RenewPair, IssuePair, NewPair, OtherStep, RevokePair,
     DeleteAccess, DeleteIDToken, Logout, RequestLogout, SwitchSession, SubmitForm,
     ListRefreshTokens, ListAccessTokens, EndLogout, DeleteListed, DeleteListedFails,
     RevokeListed, Clock, removalVars
<1>2. cleaner.stage \in Stages
  BY DEF RemovalInv, CleanerSound, CleanerRun, IdsStillMatch, Deletes
<1>3. QED
  BY <1>1, <1>2 DEF ClearExpired, StartCleaning, ListBatch, NextStage, Stages

\* clear_expired deletes by keys that were read before and others write in between:
\* still it takes no token that is good and no half of a pair, and with rotation none
\* at all; without, it takes a good one only if that was renewed in place after
\* clear_expired had begun.
THEOREM CleaningSparesValid == RemovalSpec => CleanerSparesValid
<1>1. RemovalInv /\ [RemovalNext]_allVars =>
        [(cleaner.ids # {} /\ cleaner' # cleaner) => \A k \in Pks :
           /\ (AccessToken[k] # Absent /\ AccessToken'[k] = Absent) =>
                ~Exists(k) /\ (expires[k] < now \/ Renewed(k))
           /\ Live(k) =>
                \/ RefreshToken'[k] = RefreshToken[k]
                \/ /\ RefreshToken'[k] = Absent
                   /\ RefreshToken[k].access_token # Null =>
                        \/ expires[k] + REFRESH_TOKEN_EXPIRE_SECONDS < now
                        \/ Renewed(k)]_allVars
  BY CleaningDeletesRow, DeleteRowSpares DEF Spared
<1>2. QED
  BY <1>1, RemovalInvariance, PTL DEF RemovalSpec, CleanerSparesValid
=============================================================================
