------------------------- MODULE RefreshChainProofs -------------------------
(***************************************************************************)
(* Proofs about the chains of refreshes in RefreshTokens: what a family    *)
(* is, what scope a chain can carry, and what reuse protection achieves.   *)
(* They rest on the invariant of RefreshTokensProofs.                      *)
(***************************************************************************)
EXTENDS RefreshTokensProofs

LEMMA InitChain == Init => ChainInv
<1>1. SUFFICES ASSUME Init PROVE ChainInv
  OBVIOUS
<1>2. RequestsInChain
  BY <1>1 DEF Init, RequestsInChain, KnowsChain
<1>3. CASE EmptyDatabase
  BY <1>2, <1>3
  DEF EmptyDatabase, ChainInv, FreshHistory, FamilyNamesOrigin, ChainsAgree, ScopeNeverWidens,
      SourceInChain, Exists
<1>4. ASSUME NEW c \in Clients, NEW scope \in SUBSET Scopes, MigratedDatabase(c, scope)
      PROVE  ChainInv
  <2>1. /\ \A r \in Pks : Exists(r) => r = 1 /\ RefreshToken[r].token_family = Null
                                         /\ lineage[r].origin = 1
        /\ \A a \in Pks : AccessToken[a] # Absent =>
             /\ AccessToken[a].scope = scope /\ AccessToken[a].source_refresh_token = Null
             /\ lineage[a].granted = scope
        /\ nextPk = 2
        /\ \A k \in Pks : k # 1 => lineage[k] = Unborn
    BY <1>4 DEF MigratedDatabase, Exists
  <2>2. QED
    BY <1>2, <2>1
    DEF ChainInv, FreshHistory, FamilyNamesOrigin, ChainsAgree, ScopeNeverWidens,
        SourceInChain, Null
<1>5. QED
  BY <1>1, <1>3, <1>4 DEF Init

\* A step that creates no row: rows go, lose the access token or the source they
\* refer to, and are revoked.
RowsOnlyGo ==
  /\ \A r \in Pks : Exists(r)' =>
       /\ Exists(r)
       /\ RefreshToken'[r].token_family = RefreshToken[r].token_family
       /\ RefreshToken'[r].application = RefreshToken[r].application
  /\ \A a \in Pks : AccessToken'[a] # Absent =>
       /\ AccessToken[a] # Absent
       /\ AccessToken'[a].scope = AccessToken[a].scope
       /\ AccessToken'[a].source_refresh_token \in {AccessToken[a].source_refresh_token, Null}
  /\ UNCHANGED <<nextPk, lineage>>

TablesInChain ==
  FreshHistory /\ FamilyNamesOrigin /\ ChainsAgree /\ ScopeNeverWidens /\ SourceInChain

LEMMA RowsInChain ==
  ASSUME ChainInv, RowsOnlyGo
  PROVE  TablesInChain'
<1>1. FreshHistory' /\ FamilyNamesOrigin' /\ ChainsAgree'
  BY DEF RowsOnlyGo, ChainInv, FreshHistory, FamilyNamesOrigin, ChainsAgree
<1>2. ScopeNeverWidens' /\ SourceInChain'
  BY DEF RowsOnlyGo, ChainInv, ScopeNeverWidens, SourceInChain
<1>3. QED
  BY <1>1, <1>2 DEF TablesInChain

LEMMA UnchangedRowsOnlyGo ==
  ASSUME UNCHANGED <<db, lineage>>
  PROVE  RowsOnlyGo
BY DEF RowsOnlyGo, db, Exists

\* The keys drawn before keep their history and do not come back to life.
DrawnKeysKept ==
  /\ nextPk <= nextPk'
  /\ \A r \in Pks : r < nextPk =>
       /\ lineage'[r] = lineage[r]
       /\ Exists(r)' => /\ Exists(r)
                        /\ RefreshToken'[r].application = RefreshToken[r].application

LEMMA OthersInChain ==
  ASSUME Inv, ChainInv, NEW p \in Workers, DrawnKeysKept, nextPk' \in Nat,
         \A q \in Workers \ {p} : pc'[q] = pc[q] /\ request'[q] = request[q],
         KnowsChain(p)'
  PROVE  RequestsInChain'
<1>1. ASSUME NEW q \in Workers \ {p} PROVE KnowsChain(q)'
  <2>1. pc'[q] = pc[q] /\ request'[q] = request[q] /\ KnowsChain(q)
    BY DEF ChainInv, RequestsInChain
  <2>2. CASE pc[q] \in {"validated", "saving", "rotating", "replaying"}
    <3>1. PICK r \in Pks : r = request[q].rt
      BY <2>2 DEF Inv, RequestsSound
    <3>2. r < nextPk /\ nextPk \in Nat /\ r \in Nat
      BY <2>1, <2>2, <3>1, ConstantsAssumption DEF KnowsChain, Inv, TypeOK, Pks
    <3>3. /\ lineage'[r] = lineage[r] /\ r < nextPk'
          /\ Exists(r)' => /\ Exists(r)
                           /\ RefreshToken'[r].application = RefreshToken[r].application
      BY <3>2 DEF DrawnKeysKept
    <3>4. QED
      BY <2>1, <3>1, <3>3 DEF KnowsChain, Exists
  <2>3. CASE pc[q] \notin {"validated", "saving", "rotating", "replaying"}
    BY <2>1, <2>3 DEF KnowsChain
  <2>4. QED
    BY <2>2, <2>3
<1>2. QED
  BY <1>1 DEF RequestsInChain

LEMMA RowsOnlyGoKeys ==
  ASSUME Inv, RowsOnlyGo
  PROVE  DrawnKeysKept /\ nextPk' \in Nat
BY ConstantsAssumption DEF RowsOnlyGo, DrawnKeysKept, Inv, TypeOK

\* A step of worker p that creates no row: what has to be shown of p
LEMMA WorkerChain ==
  ASSUME Inv, ChainInv, NEW p \in Workers, RowsOnlyGo,
         \A q \in Workers \ {p} : pc'[q] = pc[q] /\ request'[q] = request[q],
         KnowsChain(p)'
  PROVE  ChainInv'
BY RowsInChain, RowsOnlyGoKeys, OthersInChain DEF ChainInv, TablesInChain

\* A step of the tables alone that creates no row
LEMMA TablesChain ==
  ASSUME Inv, ChainInv, RowsOnlyGo, UNCHANGED <<pc, request>>
  PROVE  ChainInv'
<1>1. ASSUME NEW p \in Workers PROVE ChainInv'
  <2>1. KnowsChain(p)'
    BY DEF KnowsChain, ChainInv, RequestsInChain, RowsOnlyGo, Inv, RequestsSound, Exists
  <2>2. QED
    BY <2>1, WorkerChain
<1>2. CASE Workers = {}
  BY <1>2, RowsInChain DEF ChainInv, TablesInChain, RequestsInChain
<1>3. QED
  BY <1>1, <1>2

LEMMA AnsweringChain ==
  ASSUME Inv, ChainInv, NEW p \in Workers, NEW status \in Answers, Answer(p, status),
         RowsOnlyGo
  PROVE  ChainInv'
<1>1. pc' = [pc EXCEPT ![p] = status] /\ request' = [request EXCEPT ![p] = NoRequest]
  BY DEF Answer, Goto
<1>2. /\ KnowsChain(p)'
      /\ \A q \in Workers \ {p} : pc'[q] = pc[q] /\ request'[q] = request[q]
  BY <1>1 DEF KnowsChain, Inv, TypeOK, Answers
<1>3. QED
  BY <1>2, WorkerChain
-----------------------------------------------------------------------------
(* The requests                                                              *)

LEMMA RejectsChain ==
  ASSUME Inv, ChainInv, NEW p \in Workers,
         \/ RejectUnknown(p)
         \/ \E r \in Pks : RejectRevoked(p, r)
         \/ \E r \in Pks, c \in Clients : RejectClient(p, r, c)
         \/ InvalidScope(p) \/ UpdateInPlaceFails(p) \/ LockRefreshTokenFails(p)
         \/ ReplayFails(p) \/ SendSignal(p)
  PROVE  ChainInv'
<1>1. \E status \in Answers : Answer(p, status)
  BY DEF RejectUnknown, RejectRevoked, RejectClient, InvalidScope, UpdateInPlaceFails,
         LockRefreshTokenFails, ReplayFails, SendSignal, Answers
<1>2. UNCHANGED <<db, lineage>>
  BY DEF RejectUnknown, RejectRevoked, RejectClient, InvalidScope, UpdateInPlaceFails,
         LockRefreshTokenFails, ReplayFails, SendSignal, hist
<1>3. QED
  BY <1>1, <1>2, UnchangedRowsOnlyGo, AnsweringChain

LEMMA DetectReuseChain ==
  ASSUME Inv, ChainInv, NEW p \in Workers, NEW r \in Pks, DetectReuse(p, r)
  PROVE  ChainInv'
<1>1. pc' = [pc EXCEPT ![p] = "revoking"] /\ UNCHANGED <<db, lineage>>
  BY DEF DetectReuse, Goto
<1>2. /\ KnowsChain(p)'
      /\ \A q \in Workers \ {p} : pc'[q] = pc[q] /\ request'[q] = request[q]
  BY <1>1 DEF KnowsChain, Inv, TypeOK, DetectReuse
<1>3. QED
  BY <1>1, <1>2, UnchangedRowsOnlyGo, WorkerChain

\* The refresh token is read with its access token, which by Pairing is the one
\* it was created with: the scope read belongs to the same link of the chain.
LEMMA AcceptChain ==
  ASSUME Inv, ChainInv, NEW p \in Workers, NEW r \in Pks, NEW c \in Clients,
         NEW asked \in SUBSET Scopes, Accept(p, r, c, asked)
  PROVE  ChainInv'
<1> DEFINE a == RefreshToken[r].access_token
           rec == [NoRequest EXCEPT !.rt = r, !.client = c, !.asked = asked, !.seen = a,
                     !.original = IF a = Null THEN {} ELSE AccessToken[a].scope]
<1>1. /\ pc' = [pc EXCEPT ![p] = "validated"] /\ request' = [request EXCEPT ![p] = rec]
      /\ UNCHANGED <<db, lineage>>
      /\ Exists(r) /\ RefreshToken[r].application = c
  BY DEF Accept, Goto, IsFirst, hist
<1>2. /\ rec.rt = r /\ rec.client = c /\ rec.seen = a
      /\ rec.original = IF a = Null THEN {} ELSE AccessToken[a].scope
  BY DEF NoRequest
<1>3. r < nextPk
  BY <1>1, ConstantsAssumption DEF Inv, TypeOK, FreshKeys, Exists, Pks
<1>4. a \in {Null, r} /\ (a # Null => AccessToken[r] # Absent)
  BY <1>1 DEF Inv, Pairing
<1>5. rec.original \subseteq lineage[r].granted
  BY <1>2, <1>4 DEF ChainInv, ScopeNeverWidens
<1> HIDE DEF rec
<1>6. /\ pc'[p] = "validated" /\ request'[p] = rec
      /\ \A q \in Workers \ {p} : pc'[q] = pc[q] /\ request'[q] = request[q]
  BY <1>1 DEF Inv, TypeOK
<1>7. KnowsChain(p)'
  BY <1>1, <1>2, <1>3, <1>4, <1>5, <1>6 DEF KnowsChain, db, Exists
<1>8. QED
  BY <1>1, <1>6, <1>7, UnchangedRowsOnlyGo, WorkerChain

\* What get_original_scopes finds lies within the grant, also when the access token
\* is gone and the scope is that of a token refreshed from it.
LEMMA OriginalInChain ==
  ASSUME Inv, ChainInv, NEW p \in Workers, pc[p] = "validated"
  PROVE  OriginalScopes(p) \subseteq lineage[request[p].rt].granted
<1>1. request[p].rt \in Pks /\ request[p].rt # Null
  BY ConstantsAssumption DEF Inv, RequestsSound, Pks, Null
<1>2. \A a \in Refreshed(request[p].rt) :
        AccessToken[a].scope \subseteq lineage[request[p].rt].granted
  BY <1>1 DEF Refreshed, ChainInv, ScopeNeverWidens, SourceInChain
<1>3. QED
  BY <1>2 DEF OriginalScopes, ChainInv, RequestsInChain, KnowsChain

LEMMA GetOriginalScopesChain ==
  ASSUME Inv, ChainInv, NEW p \in Workers, GetOriginalScopes(p)
  PROVE  ChainInv'
<1> DEFINE scope == IF request[p].asked = {} THEN OriginalScopes(p) ELSE request[p].asked
           rec == [request[p] EXCEPT !.asked = scope]
<1>1. /\ pc[p] = "validated" /\ pc' = [pc EXCEPT ![p] = "saving"]
      /\ request' = [request EXCEPT ![p] = rec]
      /\ UNCHANGED <<db, lineage>>
  BY DEF GetOriginalScopes, Goto, hist
<1>2. scope \subseteq lineage[request[p].rt].granted
  BY OriginalInChain DEF GetOriginalScopes
<1> HIDE DEF scope
<1>3. /\ rec.rt = request[p].rt /\ rec.seen = request[p].seen
      /\ rec.client = request[p].client /\ rec.asked = scope
  BY DEF Inv, TypeOK, Request
<1> HIDE DEF rec
<1>4. /\ pc'[p] = "saving" /\ request'[p] = rec
      /\ \A q \in Workers \ {p} : pc'[q] = pc[q] /\ request'[q] = request[q]
  BY <1>1 DEF Inv, TypeOK
<1>5. KnowsChain(p)'
  BY <1>1, <1>2, <1>3, <1>4 DEF KnowsChain, db, Exists, ChainInv, RequestsInChain
<1>6. QED
  BY <1>1, <1>4, <1>5, UnchangedRowsOnlyGo, WorkerChain

LEMMA LockRefreshTokenChain ==
  ASSUME Inv, ChainInv, NEW p \in Workers, LockRefreshToken(p)
  PROVE  ChainInv'
<1>1. /\ pc[p] = "saving" /\ UNCHANGED <<db, lineage>>
      /\ \E step \in {"rotating", "replaying"} : pc' = [pc EXCEPT ![p] = step]
      /\ \/ request' = request
         \/ \E a \in Refreshed(request[p].rt) :
              request' = [request EXCEPT ![p] =
                            [@ EXCEPT !.access = a, !.token = AccessToken[a].token]]
  BY DEF LockRefreshToken, Goto, hist
<1>2. /\ pc'[p] \in {"rotating", "replaying"}
      /\ request'[p].rt = request[p].rt /\ request'[p].client = request[p].client
      /\ request'[p].asked = request[p].asked
      /\ \A q \in Workers \ {p} : pc'[q] = pc[q] /\ request'[q] = request[q]
  <2>1. /\ pc'[p] \in {"rotating", "replaying"}
        /\ \A q \in Workers \ {p} : pc'[q] = pc[q] /\ request'[q] = request[q]
    BY <1>1 DEF Inv, TypeOK
  <2>2. CASE request' = request
    BY <2>1, <2>2
  <2>3. CASE request' # request
    <3>1. PICK a \in Refreshed(request[p].rt) :
            request' = [request EXCEPT ![p] =
                          [@ EXCEPT !.access = a, !.token = AccessToken[a].token]]
      BY <1>1, <2>3
    <3>2. request[p] \in Request /\ request \in [Workers -> Request]
      BY DEF Inv, TypeOK
    <3>3. request'[p] = [request[p] EXCEPT !.access = a, !.token = AccessToken[a].token]
      BY <3>1, <3>2
    <3>4. QED
      BY <2>1, <3>2, <3>3 DEF Request
  <2>4. QED
    BY <2>2, <2>3
<1>3. KnowsChain(p)'
  BY <1>1, <1>2 DEF KnowsChain, db, Exists, ChainInv, RequestsInChain
<1>4. QED
  BY <1>1, <1>2, <1>3, UnchangedRowsOnlyGo, WorkerChain

LEMMA TickChain ==
  ASSUME Inv, ChainInv, Tick
  PROVE  ChainInv'
BY UnchangedRowsOnlyGo, TablesChain DEF Tick, hist
-----------------------------------------------------------------------------
(* Revoking and removing                                                     *)

LEMMA RevokingRowsOnlyGo ==
  ASSUME Inv, NEW r \in Pks, UNCHANGED <<nextPk, lineage>>,
         \/ Revoke(r)
         \/ /\ Live(r)
            /\ RefreshToken' = [RefreshToken EXCEPT ![r] = RevokedRow(r)]
            /\ AccessToken' = AccessTokensWithout({RefreshToken[r].access_token})
  PROVE  RowsOnlyGo
<1>1. CASE UNCHANGED <<RefreshToken, AccessToken>>
  BY <1>1, UnchangedRowsOnlyGo DEF db
<1>2. CASE /\ Live(r)
           /\ RefreshToken' = [RefreshToken EXCEPT ![r] = RevokedRow(r)]
           /\ AccessToken' = AccessTokensWithout({RefreshToken[r].access_token})
  <2>1. RefreshToken[r] \in RefreshRow /\ Exists(r)
    BY <1>2, RowTypes DEF Inv, Live
  <2>2. /\ RevokedRow(r).token_family = RefreshToken[r].token_family
        /\ RevokedRow(r).application = RefreshToken[r].application
    BY <2>1 DEF RevokedRow, RefreshRow
  <2>3. QED
    BY <1>2, <2>1, <2>2 DEF RowsOnlyGo, AccessTokensWithout, Inv, TypeOK, Exists
<1>3. QED
  BY <1>1, <1>2 DEF Revoke

LEMMA RevokeFamilyMemberChain ==
  ASSUME Inv, ChainInv, NEW p \in Workers, NEW r \in Pks, RevokeFamilyMember(p, r)
  PROVE  ChainInv'
<1>1. RowsOnlyGo /\ pc[p] = "revoking"
  BY RevokingRowsOnlyGo DEF RevokeFamilyMember, hist
<1>2. CASE request[p].todo = {r}
  BY <1>1, <1>2, AnsweringChain DEF RevokeFamilyMember, Answers
<1>3. CASE request[p].todo # {r}
  <2>1. /\ pc' = pc
        /\ \A q \in Workers \ {p} : request'[q] = request[q]
    BY <1>3 DEF RevokeFamilyMember, Inv, TypeOK
  <2>2. KnowsChain(p)'
    BY <1>1, <2>1 DEF KnowsChain
  <2>3. QED
    BY <1>1, <2>1, <2>2, WorkerChain
<1>4. QED
  BY <1>2, <1>3

LEMMA ReplayChain ==
  ASSUME Inv, ChainInv, NEW p \in Workers, Replay(p)
  PROVE  ChainInv'
<1>1. request[p].rt \in Pks
  BY DEF Replay, Inv, RequestsSound
<1>2. RowsOnlyGo
  <2>1. CASE Live(request[p].rt)
    BY <1>1, <2>1, RevokingRowsOnlyGo DEF Replay, hist
  <2>2. CASE ~Live(request[p].rt)
    BY <2>2, UnchangedRowsOnlyGo DEF Replay, hist, db
  <2>3. QED
    BY <2>1, <2>2
<1>3. /\ pc' = [pc EXCEPT ![p] = "signalling"] /\ request' = request
  BY DEF Replay, Goto
<1>4. /\ KnowsChain(p)'
      /\ \A q \in Workers \ {p} : pc'[q] = pc[q] /\ request'[q] = request[q]
  BY <1>3 DEF KnowsChain, Inv, TypeOK
<1>5. QED
  BY <1>2, <1>4, WorkerChain

LEMMA RemovalsChain ==
  ASSUME Inv, ChainInv, NEW k \in Pks,
         RevokeRefreshToken(k) \/ CleanRefreshToken(k) \/ DeleteAccessToken(k)
  PROVE  ChainInv'
<1>1. CASE RevokeRefreshToken(k)
  BY <1>1, RevokingRowsOnlyGo, TablesChain DEF RevokeRefreshToken, hist
<1>2. CASE CleanRefreshToken(k)
  <2>1. \A a \in Pks : AccessToken'[a] # Absent =>
          /\ AccessToken[a] # Absent
          /\ AccessToken'[a].scope = AccessToken[a].scope
          /\ AccessToken'[a].source_refresh_token
               \in {AccessToken[a].source_refresh_token, Null}
    <3>1. ASSUME NEW a \in Refreshed(k)
          PROVE  LET row == [AccessToken[a] EXCEPT !.source_refresh_token = Null] IN
                 /\ AccessToken[a] # Absent
                 /\ row.scope = AccessToken[a].scope /\ row.source_refresh_token = Null
      BY RowTypes DEF Refreshed, Inv, AccessRow
    <3>2. QED
      BY <1>2, <3>1 DEF CleanRefreshToken, Refreshed
  <2>2. RowsOnlyGo
    BY <1>2, <2>1 DEF CleanRefreshToken, RowsOnlyGo, Inv, TypeOK, Exists, hist
  <2>3. QED
    BY <1>2, <2>2, TablesChain DEF CleanRefreshToken
<1>3. CASE DeleteAccessToken(k)
  <2>1. \A r \in Pks : Exists(r)' =>
          /\ Exists(r)
          /\ RefreshToken'[r].token_family = RefreshToken[r].token_family
          /\ RefreshToken'[r].application = RefreshToken[r].application
    <3>1. ASSUME NEW r \in PairOf(k)
          PROVE  LET row == [RefreshToken[r] EXCEPT !.access_token = Null] IN
                 /\ Exists(r)
                 /\ row.token_family = RefreshToken[r].token_family
                 /\ row.application = RefreshToken[r].application
      BY RowTypes DEF PairOf, Inv, RefreshRow
    <3>2. QED
      BY <1>3, <3>1 DEF DeleteAccessToken, Exists
  <2>2. RowsOnlyGo
    BY <1>3, <2>1 DEF DeleteAccessToken, RowsOnlyGo, AccessTokensWithout, hist
  <2>3. QED
    BY <1>3, <2>2, TablesChain DEF DeleteAccessToken
<1>4. QED
  BY <1>1, <1>2, <1>3
-----------------------------------------------------------------------------
(* New rows                                                                  *)

\* A pair is created under a fresh key, and the other rows stay or go.
PairCreated(row, child, link) ==
  /\ nextPk \in Pks /\ nextPk' = nextPk + 1
  /\ AccessToken'[nextPk] = row /\ RefreshToken'[nextPk] = child
  /\ lineage' = [lineage EXCEPT ![nextPk] = link]
  /\ \A r \in Pks \ {nextPk} : Exists(r)' =>
       /\ Exists(r)
       /\ RefreshToken'[r].token_family = RefreshToken[r].token_family
       /\ RefreshToken'[r].application = RefreshToken[r].application
  /\ \A a \in Pks \ {nextPk} : AccessToken'[a] # Absent => AccessToken'[a] = AccessToken[a]

\* The new pair begins a chain, or continues one whose application it keeps and
\* whose grant its scope lies in.
LEMMA PairInChain ==
  ASSUME Inv, ChainInv,
         NEW row \in AccessRow, NEW child \in RefreshRow, NEW link \in Lineage,
         PairCreated(row, child, link),
         row.scope \subseteq link.granted,
         child.token_family \in {Null, link.origin},
         \/ link.origin = nextPk
         \/ \E r \in Pks : /\ Exists(r) /\ link.origin = lineage[r].origin
                           /\ child.application = RefreshToken[r].application
                           /\ child.token_family = RefreshToken[r].token_family,
         row.source_refresh_token = Null
           \/ /\ row.source_refresh_token \in Pks \ {nextPk}
              /\ link.granted = lineage[row.source_refresh_token].granted
  PROVE  TablesInChain'
<1>1. /\ nextPk \in Pks /\ nextPk \in Nat /\ nextPk' = nextPk + 1 /\ nextPk # Null
      /\ lineage'[nextPk] = link
      /\ \A r \in Pks \ {nextPk} : lineage'[r] = lineage[r]
  BY ConstantsAssumption DEF PairCreated, Inv, TypeOK, Pks, Null
<1>2. \A r \in Pks : /\ r \in Nat /\ lineage[r].origin \in Nat /\ r # Null
  BY ConstantsAssumption DEF Inv, TypeOK, Lineage, Ref, Pks, Null
<1>3. \A r \in Pks : Exists(r) => r # nextPk /\ lineage[r].origin # nextPk
  BY <1>1, <1>2 DEF ChainInv, FamilyNamesOrigin, Inv, FreshKeys, Exists
<1>4. link.origin # Null /\ link.origin < nextPk' /\ link.origin \in Nat
  BY <1>1, <1>2 DEF ChainInv, FamilyNamesOrigin
<1>5. FamilyNamesOrigin' /\ FreshHistory'
  <2>1. FamilyNamesOrigin'
    BY <1>1, <1>2, <1>4 DEF PairCreated, ChainInv, FamilyNamesOrigin
  <2>2. ASSUME NEW k \in Pks, k >= nextPk' PROVE k # nextPk /\ k >= nextPk
    <3>1. k \in Nat
      BY <1>2
    <3>2. QED
      BY <1>1, <2>2, <3>1
  <2>3. QED
    BY <1>1, <2>1, <2>2 DEF ChainInv, FreshHistory, Unborn
<1>6. \A r \in Pks : Exists(r) /\ lineage[r].origin = link.origin =>
        /\ RefreshToken[r].application = child.application
        /\ RefreshToken[r].token_family = child.token_family
  BY <1>3 DEF ChainInv, ChainsAgree
<1>7. ChainsAgree'
  <2>1. \A r \in Pks : Exists(r)' =>
          IF r = nextPk
          THEN /\ lineage'[r].origin = link.origin
               /\ RefreshToken'[r].application = child.application
               /\ RefreshToken'[r].token_family = child.token_family
          ELSE /\ Exists(r)
               /\ lineage'[r].origin = lineage[r].origin
               /\ RefreshToken'[r].application = RefreshToken[r].application
               /\ RefreshToken'[r].token_family = RefreshToken[r].token_family
    BY <1>1 DEF PairCreated
  <2>2. QED
    BY <1>6, <2>1 DEF ChainInv, ChainsAgree
<1>8. ScopeNeverWidens'
  BY <1>1 DEF PairCreated, ChainInv, ScopeNeverWidens
<1>9. SourceInChain'
  <2>1. \A a \in Pks : AccessToken[a] # Absent /\ AccessToken[a].source_refresh_token # Null
          => AccessToken[a].source_refresh_token \in Pks \ {nextPk}
    <3>1. ASSUME NEW a \in Pks, AccessToken[a] # Absent,
                 AccessToken[a].source_refresh_token # Null
          PROVE  AccessToken[a].source_refresh_token \in Pks \ {nextPk}
      <4>1. AccessToken[a].source_refresh_token \in Pks
        BY <3>1, RowTypes, ConstantsAssumption DEF Inv, AccessRow, Ref, Pks, Null
      <4>2. Exists(AccessToken[a].source_refresh_token)
        BY <3>1 DEF Inv, SourceConsumed
      <4>3. QED
        BY <1>3, <4>1, <4>2
    <3>2. QED
      BY <3>1
  <2>2. QED
    BY <1>1, <2>1 DEF PairCreated, ChainInv, SourceInChain
<1>10. QED
  BY <1>5, <1>7, <1>8, <1>9 DEF TablesInChain

LEMMA PairCreatedKeys ==
  ASSUME Inv, NEW row, NEW child, NEW link, PairCreated(row, child, link)
  PROVE  DrawnKeysKept /\ nextPk' \in Nat /\ nextPk \in Nat
BY ConstantsAssumption DEF PairCreated, DrawnKeysKept, Inv, TypeOK, Pks

LEMMA IssueTokensChain ==
  ASSUME Inv, ChainInv, Inv', NEW c \in Clients, NEW scope \in SUBSET Scopes,
         IssueTokens(c, scope)
  PROVE  ChainInv'
<1> DEFINE row == NewAccess(c, scope, Null)
           child == NewRefresh(c, nextPk, nextPk)
           link == [origin |-> nextPk, parent |-> Null, granted |-> scope]
<1>1. nextPk \in Pks
  <2>1. Cardinality({p \in Workers : Busy(p)}) \in Nat
    BY FS_Subset, FS_CardinalityType, ConstantsAssumption
  <2>2. QED
    BY <2>1, ConstantsAssumption DEF IssueTokens, KeyLeft, Inv, TypeOK, Pks
<1>2. row \in AccessRow /\ child \in RefreshRow /\ link \in Lineage
  BY <1>1, ConstantsAssumption
  DEF NewAccess, NewRefresh, AccessRow, RefreshRow, Lineage, Ref, Pks, Null
<1>3. /\ row.scope = scope /\ row.source_refresh_token = Null
      /\ child.token_family = nextPk
      /\ link.origin = nextPk /\ link.granted = scope
  BY DEF NewAccess, NewRefresh
<1>4. /\ AccessToken' = [AccessToken EXCEPT ![nextPk] = row]
      /\ RefreshToken' = [RefreshToken EXCEPT ![nextPk] = child]
      /\ lineage' = [lineage EXCEPT ![nextPk] = link]
      /\ nextPk' = nextPk + 1
      /\ UNCHANGED <<pc, request>>
  BY DEF IssueTokens
<1> HIDE DEF row, child, link
<1>5. PairCreated(row, child, link)
  BY <1>1, <1>4 DEF PairCreated, Inv, TypeOK, Exists
<1>6. TablesInChain'
  BY <1>2, <1>3, <1>5, PairInChain
<1>7. ASSUME NEW p \in Workers PROVE KnowsChain(p)'
  <2>1. CASE pc[p] \in {"validated", "saving", "rotating", "replaying"}
    <3>1. PICK r \in Pks : r = request[p].rt
      BY <2>1 DEF Inv, RequestsSound
    <3>2. r < nextPk /\ r \in Nat /\ nextPk \in Nat
      BY <2>1, <3>1, PairCreatedKeys, <1>5, ConstantsAssumption
      DEF ChainInv, RequestsInChain, KnowsChain, Pks
    <3>3. r < nextPk' /\ lineage'[r] = lineage[r] /\ RefreshToken'[r] = RefreshToken[r]
      BY <1>4, <3>2 DEF Inv, TypeOK
    <3>4. QED
      BY <1>4, <3>1, <3>3 DEF ChainInv, RequestsInChain, KnowsChain, Exists
  <2>2. CASE pc[p] \notin {"validated", "saving", "rotating", "replaying"}
    BY <1>4, <2>2 DEF KnowsChain
  <2>3. QED
    BY <2>1, <2>2
<1>8. QED
  BY <1>6, <1>7 DEF ChainInv, TablesInChain, RequestsInChain

\* The new pair carries on the chain of the refresh token that is locked: its row
\* exists, and its application is the one that was authenticated.
LEMMA RotateChain ==
  ASSUME Inv, ChainInv, NEW p \in Workers, Rotate(p)
  PROVE  ChainInv'
<1>1. PICK r \in Pks : r = request[p].rt
  BY DEF Rotate, Inv, RequestsSound
<1>2. PICK c \in Clients : c = request[p].client
  BY DEF Rotate, Inv, RequestsSound
<1>3. Exists(r) /\ RefreshToken[r] \in RefreshRow /\ RefreshToken[r].application = c
  BY <1>1, <1>2, RowTypes DEF Rotate, Inv, RequestsSound, ChainInv, RequestsInChain, KnowsChain
<1>4. /\ nextPk \in Pks /\ nextPk \in Nat /\ r # nextPk /\ r \in Nat /\ r # Null
  BY <1>3, ConstantsAssumption DEF Rotate, Inv, TypeOK, FreshKeys, Exists, Pks, Null
<1> DEFINE string == IF ROTATE_REFRESH_TOKEN THEN nextPk ELSE RefreshToken[r].token
           row == NewAccess(c, request[p].asked, r)
           child == NewRefresh(c, string, RefreshToken[r].token_family)
           link == [origin |-> lineage[r].origin, parent |-> r,
                    granted |-> lineage[r].granted]
           bound == IF Live(r) THEN {RefreshToken[r].access_token} ELSE {}
           rec == [request[p] EXCEPT !.access = nextPk, !.token = nextPk]
<1>5. /\ request[p].asked \in SUBSET Scopes /\ request[p] \in Request
      /\ request[p].asked \subseteq lineage[r].granted
  BY <1>1 DEF Rotate, Inv, TypeOK, Request, ChainInv, RequestsInChain, KnowsChain
<1>6. row \in AccessRow /\ child \in RefreshRow /\ link \in Lineage
  <2>1. string \in Pks /\ r \in Ref /\ nextPk \in Ref /\ Null \in 0..MaxTime
    BY <1>3, <1>4, ConstantsAssumption DEF RefreshRow, Pks, Ref, Null
  <2>2. lineage[r] \in Lineage /\ RefreshToken[r].token_family \in Ref
    BY <1>3 DEF Inv, TypeOK, RefreshRow
  <2> HIDE DEF string
  <2>3. QED
    BY <1>4, <1>5, <2>1, <2>2
    DEF NewAccess, NewRefresh, AccessRow, RefreshRow, Lineage
<1>7. /\ row.scope = request[p].asked /\ row.source_refresh_token = r
      /\ child.token_family = RefreshToken[r].token_family /\ child.application = c
      /\ link.origin = lineage[r].origin /\ link.granted = lineage[r].granted
  BY DEF NewAccess, NewRefresh
<1>8. /\ AccessToken' = [AccessTokensWithout(bound) EXCEPT ![nextPk] = row]
      /\ RefreshToken' = [RefreshToken EXCEPT
                            ![r] = IF Live(r) THEN RevokedRow(r) ELSE @, ![nextPk] = child]
      /\ lineage' = [lineage EXCEPT ![nextPk] = link]
      /\ nextPk' = nextPk + 1
      /\ pc' = [pc EXCEPT ![p] = "signalling"]
      /\ request' = [request EXCEPT ![p] = rec]
  BY <1>1, <1>2 DEF Rotate, Goto
<1> HIDE DEF row, child, link, bound, rec, string
<1>9. /\ RevokedRow(r).token_family = RefreshToken[r].token_family
      /\ RevokedRow(r).application = RefreshToken[r].application
  BY <1>3 DEF RevokedRow, RefreshRow
<1>10. PairCreated(row, child, link)
  <2>1. /\ AccessToken'[nextPk] = row /\ RefreshToken'[nextPk] = child
    BY <1>4, <1>8 DEF AccessTokensWithout, Inv, TypeOK
  <2>2. \A s \in Pks \ {nextPk} :
          RefreshToken'[s] = IF s = r /\ Live(r) THEN RevokedRow(r) ELSE RefreshToken[s]
    BY <1>8 DEF Inv, TypeOK
  <2>3. \A a \in Pks \ {nextPk} : AccessToken'[a] # Absent => AccessToken'[a] = AccessToken[a]
    BY <1>8 DEF AccessTokensWithout
  <2>4. QED
    BY <1>3, <1>4, <1>8, <1>9, <2>1, <2>2, <2>3 DEF PairCreated, Exists
<1>11. child.token_family \in {Null, link.origin}
  BY <1>3, <1>7 DEF ChainInv, FamilyNamesOrigin
<1>12. TablesInChain'
  BY <1>3, <1>4, <1>5, <1>6, <1>7, <1>10, <1>11, PairInChain
<1>13. /\ KnowsChain(p)'
       /\ \A q \in Workers \ {p} : pc'[q] = pc[q] /\ request'[q] = request[q]
  BY <1>8 DEF KnowsChain, Inv, TypeOK
<1>14. RequestsInChain'
  BY <1>10, <1>13, PairCreatedKeys, OthersInChain
<1>15. QED
  BY <1>12, <1>14 DEF ChainInv, TablesInChain

\* Without rotation the access token that is given another scope is the one created
\* with the refresh token, so the scope lies in the grant of its own chain.
LEMMA UpdateInPlaceChain ==
  ASSUME Inv, ChainInv, NEW p \in Workers, UpdateInPlace(p)
  PROVE  ChainInv'
<1>1. PICK a \in Pks : a = request[p].rt
  BY DEF UpdateInPlace, Inv, RequestsSound
<1>2. /\ request[p].seen = a /\ request[p].asked \subseteq lineage[a].granted
      /\ AccessToken[a] # Absent /\ AccessToken[a] \in AccessRow
  BY <1>1, RowTypes
  DEF UpdateInPlace, InPlace, ChainInv, RequestsInChain, KnowsChain, Inv
<1> DEFINE row == [AccessToken[a] EXCEPT !.token = nextPk, !.scope = request[p].asked,
                                         !.application = request[p].client]
<1>3. /\ AccessToken' = [AccessToken EXCEPT ![a] = row]
      /\ nextPk' = nextPk + 1
      /\ pc' = [pc EXCEPT ![p] = "signalling"]
      /\ \E rec : request' = [request EXCEPT ![p] = rec]
      /\ UNCHANGED <<RefreshToken, lineage>>
  BY <1>1, <1>2 DEF UpdateInPlace, Goto, hist
<1>4. /\ row.scope = request[p].asked
      /\ row.source_refresh_token = AccessToken[a].source_refresh_token
  BY <1>2 DEF AccessRow
<1> HIDE DEF row
<1>5. \A b \in Pks : AccessToken'[b] # Absent =>
        /\ AccessToken[b] # Absent
        /\ AccessToken'[b].source_refresh_token = AccessToken[b].source_refresh_token
        /\ AccessToken'[b].scope = IF b = a THEN request[p].asked ELSE AccessToken[b].scope
  BY <1>2, <1>3, <1>4 DEF Inv, TypeOK
<1>6. ScopeNeverWidens' /\ SourceInChain'
  BY <1>2, <1>3, <1>5 DEF ChainInv, ScopeNeverWidens, SourceInChain
<1>7. nextPk \in Nat /\ nextPk' \in Nat /\ nextPk <= nextPk'
  BY <1>3, ConstantsAssumption DEF Inv, TypeOK
<1>8. FreshHistory' /\ FamilyNamesOrigin' /\ ChainsAgree'
  <2>1. \A r \in Pks : lineage[r].origin \in Nat
    BY ConstantsAssumption DEF Inv, TypeOK, Lineage, Ref
  <2>2. QED
    BY <1>3, <1>7, <2>1, ConstantsAssumption
    DEF ChainInv, FreshHistory, FamilyNamesOrigin, ChainsAgree, Exists, Pks
<1>9. DrawnKeysKept
  BY <1>3, <1>7 DEF DrawnKeysKept, Exists
<1>10. /\ KnowsChain(p)'
       /\ \A q \in Workers \ {p} : pc'[q] = pc[q] /\ request'[q] = request[q]
  BY <1>3 DEF KnowsChain, Inv, TypeOK
<1>11. RequestsInChain'
  BY <1>7, <1>9, <1>10, OthersInChain
<1>12. QED
  BY <1>6, <1>8, <1>11 DEF ChainInv
-----------------------------------------------------------------------------
(* The theorems                                                              *)

LEMMA NextChain == Inv /\ Inv' /\ ChainInv /\ [Next]_vars => ChainInv'
<1>1. SUFFICES ASSUME Inv, Inv', ChainInv, [Next]_vars PROVE ChainInv'
  OBVIOUS
<1>2. ASSUME NEW p \in Workers, Start(p) PROVE ChainInv'
  BY <1>1, <1>2, RejectsChain, DetectReuseChain, AcceptChain DEF Start
<1>3. ASSUME NEW p \in Workers, Acquire(p) PROVE ChainInv'
  BY <1>1, <1>3, LockRefreshTokenChain, RevokeFamilyMemberChain DEF Acquire
<1>4. ASSUME NEW p \in Workers, Proceed(p) PROVE ChainInv'
  BY <1>1, <1>4, RejectsChain, GetOriginalScopesChain, UpdateInPlaceChain, RotateChain,
     ReplayChain
  DEF Proceed
<1>5. CASE Environment
  BY <1>1, <1>5, IssueTokensChain, RemovalsChain, TickChain DEF Environment
<1>6. CASE UNCHANGED vars
  BY <1>1, <1>6, UnchangedRowsOnlyGo, TablesChain DEF vars, hist
<1>7. QED
  BY <1>1, <1>2, <1>3, <1>4, <1>5, <1>6 DEF Next

\* The invariant of the chains holds in every reachable state.
THEOREM ChainInvariance == Spec => []ChainInv
BY InitChain, NextChain, Invariance, PTL DEF Spec

\* What reuse protection revokes is one chain of refreshes, no more and no less, and
\* belongs to one application, however rotation, replay and removal interleave.
THEOREM FamiliesAreChains == Spec => []FamilyIsOneChain
<1>1. ChainInv => FamilyIsOneChain
  BY DEF ChainInv, FamilyNamesOrigin, ChainsAgree, FamilyIsOneChain
<1>2. QED
  BY <1>1, ChainInvariance, PTL

\* No access token carries a scope that was not granted to its chain, with rotation
\* and in place, also when the scope is read while the access token is replaced.
THEOREM ScopesStayGranted == Spec => []ScopeNeverWidens
<1>1. ChainInv => ScopeNeverWidens
  BY DEF ChainInv
<1>2. QED
  BY <1>1, ChainInvariance, PTL
=============================================================================
