------------------------ MODULE RefreshTokensProofs ------------------------
(***************************************************************************)
(* Proofs about RefreshTokens, for every number of workers, clients,       *)
(* scopes, keys and clock readings, and every value of the settings.       *)
(***************************************************************************)
EXTENDS RefreshTokens, FiniteSetTheorems, TLAPS

\* The invariant in two halves: what it says of the tables, and of the workers.
Tables ==
  /\ AccessToken \in [Pks -> AccessRow \cup {Absent}]
  /\ RefreshToken \in [Pks -> RefreshRow \cup {Absent}]
  /\ nextPk \in 1..(MaxPk + 1)
  /\ lineage \in [Pks -> Lineage]
  /\ FreshKeys
  /\ Pairing
  /\ SourceConsumed
  /\ OneRefreshPerToken

Requests ==
  /\ now \in Time
  /\ pc \in [Workers -> Steps \cup Answers]
  /\ request \in [Workers -> Request]
  /\ breached \subseteq Pks
  /\ RequestsSound
  /\ LockIsExclusive

LEMMA Halves == (Tables /\ Requests) <=> Inv
BY DEF Tables, Requests, Inv, TypeOK

LEMMA RowTypes ==
  ASSUME TypeOK, NEW k \in Pks
  PROVE  /\ AccessToken[k] # Absent => AccessToken[k] \in AccessRow
         /\ Exists(k) => RefreshToken[k] \in RefreshRow
BY DEF TypeOK, Exists

\* A step that leaves the tables alone keeps what is known of them.
LEMMA TablesUnchanged ==
  ASSUME Tables, UNCHANGED <<db, lineage>>
  PROVE  Tables'
BY DEF Tables, db, FreshKeys, Pairing, SourceConsumed, OneRefreshPerToken, Exists

LEMMA NoRequestTyped == NoRequest \in Request
BY ConstantsAssumption DEF NoRequest, Request, Ref, Null

\* What a step must keep for the workers that hold refresh tokens.
Held(p) == pc[p] \in {"validated", "saving", "rotating", "replaying"}

\* A row that another worker has locked stays, and unused if it was unused.
LockedRowsKept(p) ==
  \A s \in Pks, q \in Workers \ {p} :
    pc[q] \in {"rotating", "replaying"} /\ request[q].rt = s
      => Exists(s)' /\ (Refreshed(s) = {} => Refreshed(s)' = {})

\* A worker that stops holding a refresh token, or holds none, does not disturb
\* the others as long as the rows they hold are kept.
LEMMA LetGo ==
  ASSUME Inv, NEW p \in Workers,
         \A q \in Workers \ {p} : pc'[q] = pc[q] /\ request'[q] = request[q],
         ~Held(p)',
         LockedRowsKept(p)
  PROVE  RequestsSound' /\ LockIsExclusive'
<1>1. \A q \in Workers : Held(q)' => q # p /\ pc'[q] = pc[q] /\ request'[q] = request[q]
  OBVIOUS
<1>2. RequestsSound'
  <2>1. SUFFICES ASSUME NEW q \in Workers, Held(q)'
        PROVE  /\ request'[q].rt \in Pks /\ request'[q].client \in Clients
               /\ pc'[q] \in {"rotating", "replaying"} => Exists(request[q].rt)'
               /\ pc'[q] = "rotating" => Refreshed(request[q].rt)' = {}
    BY DEF RequestsSound, Held
  <2>2. q # p /\ pc'[q] = pc[q] /\ request'[q] = request[q]
    BY <1>1, <2>1
  <2>3. QED
    BY <2>1, <2>2 DEF Inv, RequestsSound, Held, LockedRowsKept
<1>3. LockIsExclusive'
  BY <1>1 DEF Inv, LockIsExclusive, Held
<1>4. QED
  BY <1>2, <1>3

\* An answer ends a request without touching the tables.
LEMMA Answering ==
  ASSUME Inv, NEW p \in Workers, NEW status \in Answers, Answer(p, status),
         UNCHANGED <<now, db, breached>>
  PROVE  Requests'
<1>1. /\ pc' = [pc EXCEPT ![p] = status]
      /\ request' = [request EXCEPT ![p] = NoRequest]
  BY DEF Answer, Goto
<1>2. /\ now' \in Time /\ breached' \subseteq Pks
      /\ pc' \in [Workers -> Steps \cup Answers]
      /\ request' \in [Workers -> Request]
  BY <1>1, NoRequestTyped DEF Inv, TypeOK
<1>3. ~Held(p)'
  BY <1>1 DEF Held, Inv, TypeOK, Answers
<1>4. \A q \in Workers \ {p} : pc'[q] = pc[q] /\ request'[q] = request[q]
  BY <1>1 DEF Inv, TypeOK
<1>5. LockedRowsKept(p)
  BY DEF LockedRowsKept, Inv, RequestsSound, Exists, Refreshed, db
<1>6. QED
  BY <1>2, <1>3, <1>4, <1>5, LetGo DEF Requests

LEMMA InitInv == Init => Inv
<1>1. SUFFICES ASSUME Init PROVE Inv
  OBVIOUS
<1>2. Requests
  <2>1. NoRequest \in Request
    BY NoRequestTyped
  <2>2. QED
    BY <1>1, <2>1, ConstantsAssumption
    DEF Init, Requests, Time, Answers, RequestsSound, LockIsExclusive
<1>3. Tables
  <2>1. CASE EmptyDatabase
    BY <2>1, ConstantsAssumption
    DEF EmptyDatabase, Tables, FreshKeys, Pairing, SourceConsumed, OneRefreshPerToken,
        Exists, Lineage, Unborn, Null, Ref
  <2>2. ASSUME NEW c \in Clients, NEW scope \in SUBSET Scopes, MigratedDatabase(c, scope)
        PROVE  Tables
    <3>1. 1 \in Pks /\ 1 \in Ref /\ 0 \in Ref /\ 0 \in 0..MaxTime
      BY <2>2, ConstantsAssumption DEF MigratedDatabase, Pks, Ref
    <3> DEFINE a == [token |-> 1, application |-> c, scope |-> scope,
                     source_refresh_token |-> Null]
               r == [token |-> 1, application |-> c, access_token |-> 1,
                     token_family |-> Null, revoked |-> Null]
               l == [origin |-> 1, parent |-> Null, granted |-> scope]
    <3>2. a \in AccessRow /\ r \in RefreshRow /\ l \in Lineage /\ Unborn \in Lineage
      BY <3>1 DEF AccessRow, RefreshRow, Lineage, Unborn, Null
    <3>3. a # Absent /\ r # Absent
      BY <3>2, AbsentAssumption
    <3>4. /\ AccessToken = [k \in Pks |-> IF k = 1 THEN a ELSE Absent]
          /\ RefreshToken = [k \in Pks |-> IF k = 1 THEN r ELSE Absent]
          /\ lineage = [k \in Pks |-> IF k = 1 THEN l ELSE Unborn]
          /\ nextPk = 2 /\ MaxPk > 0
      BY <2>2 DEF MigratedDatabase
    <3> HIDE DEF l
    <3>5. FreshKeys /\ Pairing /\ SourceConsumed /\ OneRefreshPerToken
      BY <3>3, <3>4, <3>1, ConstantsAssumption
      DEF FreshKeys, Pairing, SourceConsumed, OneRefreshPerToken, Exists, Null, Pks
    <3> HIDE DEF a, r
    <3>6. QED
      BY <3>2, <3>4, <3>5, ConstantsAssumption DEF Tables
  <2>3. QED
    BY <1>1, <2>1, <2>2 DEF Init
<1>4. QED
  BY <1>2, <1>3, Halves
-----------------------------------------------------------------------------
(* Steps that leave the tables alone                                         *)

LEMMA TablesUnchangedInv ==
  ASSUME Inv, UNCHANGED <<db, lineage>>, Requests'
  PROVE  Inv'
BY Halves, TablesUnchanged, PTL

LEMMA AnsweringInv ==
  ASSUME Inv, NEW p \in Workers, NEW status \in Answers, Answer(p, status),
         UNCHANGED <<now, db, hist>>
  PROVE  Inv'
BY Answering, TablesUnchangedInv DEF hist

\* The answers of a request that saves nothing
LEMMA RejectsInv ==
  ASSUME Inv, NEW p \in Workers,
         \/ RejectUnknown(p)
         \/ \E r \in Pks : RejectRevoked(p, r)
         \/ \E r \in Pks, c \in Clients : RejectClient(p, r, c)
         \/ InvalidScope(p)
         \/ UpdateInPlaceFails(p)
         \/ LockRefreshTokenFails(p)
         \/ ReplayFails(p)
         \/ SendSignal(p)
  PROVE  Inv'
<1>1. \E status \in Answers : Answer(p, status) /\ UNCHANGED <<now, db, hist>>
  BY DEF RejectUnknown, RejectRevoked, RejectClient, InvalidScope, UpdateInPlaceFails,
     LockRefreshTokenFails, ReplayFails, SendSignal, Answers
<1>2. QED
  BY <1>1, AnsweringInv

LEMMA DetectReuseInv ==
  ASSUME Inv, NEW p \in Workers, NEW r \in Pks, DetectReuse(p, r)
  PROVE  Inv'
<1>1. /\ pc' = [pc EXCEPT ![p] = "revoking"]
      /\ request' = [request EXCEPT ![p].rt = r, ![p].todo = Family(r)]
      /\ breached' = breached \cup {RefreshToken[r].token_family}
      /\ UNCHANGED <<now, db, lineage>>
  BY DEF DetectReuse, Goto
<1>2. RefreshToken[r].token_family \in Pks
  <2>1. Exists(r) /\ RefreshToken[r].token_family # Null
    BY DEF DetectReuse, IsFirst, ProtectedFamily
  <2>2. RefreshToken[r] \in RefreshRow
    BY <2>1, RowTypes DEF Inv
  <2>3. QED
    BY <2>1, <2>2, ConstantsAssumption DEF RefreshRow, Ref, Pks, Null
<1>3. request' \in [Workers -> Request]
  <2>1. request[p] \in Request /\ r \in Ref /\ Family(r) \in SUBSET Pks
    BY ConstantsAssumption DEF Inv, TypeOK, Family, Pks, Ref
  <2>2. [request[p] EXCEPT !.rt = r, !.todo = Family(r)] \in Request
    BY <2>1 DEF Request
  <2>3. QED
    BY <1>1, <2>2 DEF Inv, TypeOK
<1>4. ~Held(p)' /\ LockedRowsKept(p)
  BY <1>1 DEF Held, LockedRowsKept, Inv, TypeOK, RequestsSound, Exists, Refreshed, db
<1>5. RequestsSound' /\ LockIsExclusive'
  BY <1>1, <1>4, LetGo DEF Inv, TypeOK
<1>6. Requests'
  BY <1>1, <1>2, <1>3, <1>5 DEF Requests, Inv, TypeOK, Steps
<1>7. QED
  BY <1>1, <1>6, TablesUnchangedInv

\* A request that takes hold of a refresh token, without locking it yet
LEMMA AcceptInv ==
  ASSUME Inv, NEW p \in Workers, NEW r \in Pks, NEW c \in Clients,
         NEW asked \in SUBSET Scopes, Accept(p, r, c, asked)
  PROVE  Inv'
<1> DEFINE a == RefreshToken[r].access_token
           rec == [NoRequest EXCEPT !.rt = r, !.client = c, !.asked = asked, !.seen = a,
                     !.original = IF a = Null THEN {} ELSE AccessToken[a].scope]
<1>1. /\ pc' = [pc EXCEPT ![p] = "validated"]
      /\ request' = [request EXCEPT ![p] = rec]
      /\ UNCHANGED <<now, db, hist>>
      /\ Exists(r)
  BY DEF Accept, Goto, IsFirst
<1>2. RefreshToken[r] \in RefreshRow /\ a \in Ref
  BY <1>1, RowTypes DEF Inv, RefreshRow
<1>3. a # Null => AccessToken[a].scope \in SUBSET Scopes
  <2>1. a # Null => a = r /\ AccessToken[a] # Absent
    BY <1>1, <1>2 DEF Inv, Pairing
  <2>2. QED
    BY <2>1, RowTypes DEF Inv, AccessRow
<1>4. rec \in Request /\ rec.rt = r /\ rec.client = c
  <2> HIDE DEF a
  <2>1. r \in Ref
    BY ConstantsAssumption DEF Pks, Ref
  <2>2. QED
    BY <1>2, <1>3, <2>1, NoRequestTyped DEF Request, NoRequest
<1> HIDE DEF rec
<1>5. /\ pc' \in [Workers -> Steps \cup Answers]
      /\ request' \in [Workers -> Request]
      /\ pc'[p] = "validated" /\ request'[p] = rec
      /\ \A q \in Workers \ {p} : pc'[q] = pc[q] /\ request'[q] = request[q]
  BY <1>1, <1>4 DEF Inv, TypeOK, Steps
<1>6. RequestsSound' /\ LockIsExclusive'
  BY <1>1, <1>4, <1>5 DEF Inv, RequestsSound, LockIsExclusive, Exists, Refreshed, db
<1>7. Requests'
  BY <1>1, <1>5, <1>6 DEF Requests, Inv, TypeOK, hist
<1>8. QED
  BY <1>1, <1>7, TablesUnchangedInv DEF hist

LEMMA GetOriginalScopesInv ==
  ASSUME Inv, NEW p \in Workers, GetOriginalScopes(p)
  PROVE  Inv'
<1> DEFINE scopes == IF request[p].asked = {} THEN OriginalScopes(p) ELSE request[p].asked
           rec == [request[p] EXCEPT !.asked = scopes]
<1>1. /\ pc[p] = "validated" /\ pc' = [pc EXCEPT ![p] = "saving"]
      /\ request' = [request EXCEPT ![p] = rec]
      /\ UNCHANGED <<now, db, hist>>
  BY DEF GetOriginalScopes, Goto
<1>2. request[p] \in Request
  BY DEF Inv, TypeOK
<1>3. OriginalScopes(p) \in SUBSET Scopes
  <2>1. \A b \in Refreshed(request[p].rt) : AccessToken[b].scope \in SUBSET Scopes
    BY RowTypes DEF Refreshed, Inv, AccessRow
  <2>2. UNION {AccessToken[b].scope : b \in Refreshed(request[p].rt)} \in SUBSET Scopes
    BY <2>1
  <2>3. request[p].original \in SUBSET Scopes
    BY <1>2 DEF Request
  <2>4. QED
    BY <2>2, <2>3 DEF OriginalScopes
<1>4. rec \in Request /\ rec.rt = request[p].rt /\ rec.client = request[p].client
  <2>1. scopes \in SUBSET Scopes
    BY <1>2, <1>3 DEF Request
  <2> HIDE DEF scopes
  <2>2. QED
    BY <1>2, <2>1 DEF Request
<1> HIDE DEF rec
<1>5. /\ pc' \in [Workers -> Steps \cup Answers]
      /\ request' \in [Workers -> Request]
      /\ pc'[p] = "saving" /\ request'[p] = rec
      /\ \A q \in Workers \ {p} : pc'[q] = pc[q] /\ request'[q] = request[q]
  BY <1>1, <1>4 DEF Inv, TypeOK, Steps
<1>6. RequestsSound' /\ LockIsExclusive'
  BY <1>1, <1>4, <1>5 DEF Inv, RequestsSound, LockIsExclusive, Exists, Refreshed, db
<1>7. Requests'
  BY <1>1, <1>5, <1>6 DEF Requests, Inv, TypeOK, hist
<1>8. QED
  BY <1>1, <1>7, TablesUnchangedInv DEF hist

\* The lock is taken only while nobody holds it; what it finds stays true.
LEMMA LockRefreshTokenInv ==
  ASSUME Inv, NEW p \in Workers, LockRefreshToken(p)
  PROVE  Inv'
<1> DEFINE r == request[p].rt
<1>1. /\ pc[p] = "saving" /\ Exists(r) /\ ~Locked(r)
      /\ UNCHANGED <<now, db, hist>>
  BY DEF LockRefreshToken
<1>2. /\ request[p] \in Request /\ r \in Pks /\ request[p].client \in Clients
  BY <1>1 DEF Inv, TypeOK, RequestsSound
<1>3. /\ request' \in [Workers -> Request]
      /\ request'[p].rt = r /\ request'[p].client = request[p].client
      /\ \/ pc' = [pc EXCEPT ![p] = "rotating"] /\ Refreshed(r) = {}
         \/ pc' = [pc EXCEPT ![p] = "replaying"]
      /\ \A q \in Workers \ {p} : request'[q] = request[q]
  <2>1. CASE Refreshed(r) = {} /\ Goto(p, "rotating") /\ UNCHANGED request
    BY <2>1 DEF Goto, Inv, TypeOK
  <2>2. ASSUME NEW a \in Refreshed(r), Goto(p, "replaying"),
               request' = [request EXCEPT ![p].access = a, ![p].token = AccessToken[a].token]
        PROVE  <1>3
    <3> DEFINE token == AccessToken[a].token
               rec == [request[p] EXCEPT !.access = a, !.token = token]
    <3>1. a \in Ref /\ token \in Ref
      <4>1. a \in Pks /\ token \in Pks
        BY RowTypes DEF Refreshed, Inv, AccessRow
      <4>2. QED
        BY <4>1, ConstantsAssumption DEF Pks, Ref
    <3> HIDE DEF token
    <3>2. rec \in Request /\ rec.rt = r /\ rec.client = request[p].client
      BY <1>2, <3>1 DEF Request
    <3>3. request' = [request EXCEPT ![p] = rec]
      BY <2>2 DEF token
    <3> HIDE DEF rec
    <3>4. QED
      BY <2>2, <3>2, <3>3 DEF Goto, Inv, TypeOK
  <2>3. QED
    BY <2>1, <2>2 DEF LockRefreshToken
<1>4. /\ pc' \in [Workers -> Steps \cup Answers]
      /\ pc'[p] \in {"rotating", "replaying"}
      /\ pc'[p] = "rotating" => Refreshed(r) = {}
      /\ \A q \in Workers \ {p} : pc'[q] = pc[q]
  BY <1>3 DEF Inv, TypeOK, Steps
<1>5. RequestsSound'
  BY <1>1, <1>2, <1>3, <1>4 DEF Inv, RequestsSound, Exists, Refreshed, db
<1>6. LockIsExclusive'
  BY <1>1, <1>3, <1>4 DEF Inv, LockIsExclusive, Locked
<1>7. Requests'
  BY <1>1, <1>3, <1>4, <1>5, <1>6 DEF Requests, Inv, TypeOK, hist
<1>8. QED
  BY <1>1, <1>7, TablesUnchangedInv DEF hist

LEMMA TickInv ==
  ASSUME Inv, Tick
  PROVE  Inv'
<1>1. Requests'
  BY ConstantsAssumption DEF Tick, Inv, TypeOK, Requests, RequestsSound, LockIsExclusive, Exists, Refreshed,
     db, hist, Time
<1>2. QED
  BY <1>1, TablesUnchangedInv DEF Tick, hist
-----------------------------------------------------------------------------
(* Steps that change the tables                                              *)

\* What every such step does to the rows that others hold
RowsKept ==
  \A s \in Pks : Exists(s) => Exists(s)' /\ (Refreshed(s) = {} => Refreshed(s)' = {})

LEMMA RevokedRowTyped ==
  ASSUME Inv, NEW r \in Pks, Exists(r)
  PROVE  /\ RevokedRow(r) \in RefreshRow
         /\ RevokedRow(r).access_token = Null
         /\ RevokedRow(r).revoked # Null
<1>1. RefreshToken[r] \in RefreshRow /\ now \in 0..MaxTime /\ now # Null /\ Null \in Ref
  BY RowTypes, ConstantsAssumption DEF Inv, TypeOK, Time, Null, Ref
<1>2. QED
  BY <1>1 DEF RevokedRow, RefreshRow

\* Revoking a live row takes its access token with it, whether it still has one
\* or lost it before.
LEMMA RevokingTables ==
  ASSUME Inv, NEW r \in Pks, Live(r),
         RefreshToken' = [RefreshToken EXCEPT ![r] = RevokedRow(r)],
         AccessToken' = AccessTokensWithout({RefreshToken[r].access_token}),
         UNCHANGED <<nextPk, lineage>>
  PROVE  Tables' /\ RowsKept
<1> DEFINE row == RevokedRow(r)
<1>1. row \in RefreshRow /\ row # Absent /\ row.access_token = Null /\ row.revoked # Null
  BY RevokedRowTyped, AbsentAssumption DEF Live
<1> HIDE DEF row
<1>2. \A k \in Pks : AccessToken'[k] = IF k = r THEN Absent ELSE AccessToken[k]
  BY ConstantsAssumption DEF AccessTokensWithout, Inv, Pairing, Live, Null, Pks
<1>3. \A k \in Pks : RefreshToken'[k] = IF k = r THEN row ELSE RefreshToken[k]
  BY DEF Inv, TypeOK, row
<1>4. /\ AccessToken' \in [Pks -> AccessRow \cup {Absent}]
      /\ RefreshToken' \in [Pks -> RefreshRow \cup {Absent}]
  BY <1>1 DEF AccessTokensWithout, Inv, TypeOK, row
<1>5. FreshKeys'
  BY <1>2, <1>3 DEF Inv, FreshKeys, Live, Exists
<1>6. Pairing'
  <2>1. SUFFICES ASSUME NEW k \in Pks, RefreshToken'[k] # Absent
        PROVE  IF AccessToken'[k] = Absent
               THEN RefreshToken'[k].access_token = Null
               ELSE RefreshToken'[k].access_token = k /\ RefreshToken'[k].revoked = Null
    BY DEF Pairing, Exists
  <2>2. QED
    BY <2>1, <1>1, <1>2, <1>3 DEF Inv, Pairing, Live, Exists
<1>7. SourceConsumed'
  <2>1. SUFFICES ASSUME NEW a \in Pks, AccessToken'[a] # Absent,
                        AccessToken'[a].source_refresh_token # Null
        PROVE  LET s == AccessToken'[a].source_refresh_token IN
               RefreshToken'[s] # Absent /\ RefreshToken'[s].revoked # Null
    BY DEF SourceConsumed, Exists
  <2>2. AccessToken'[a] = AccessToken[a] /\ AccessToken[a].source_refresh_token \in Pks
    BY <1>2, <2>1, RowTypes, ConstantsAssumption DEF Inv, AccessRow, Ref, Pks, Null
  <2>3. QED
    BY <1>1, <1>3, <2>1, <2>2 DEF Inv, SourceConsumed, Exists
<1>8. OneRefreshPerToken'
  BY <1>2 DEF Inv, OneRefreshPerToken
<1>9. RowsKept
  BY <1>1, <1>2, <1>3 DEF RowsKept, Exists, Refreshed
<1>10. QED
  BY <1>4, <1>5, <1>6, <1>7, <1>8, <1>9 DEF Tables, Inv, TypeOK

\* revoke() in a transaction of its own, by anyone
LEMMA RevokeTables ==
  ASSUME Inv, NEW r \in Pks, Revoke(r), UNCHANGED <<nextPk, lineage>>
  PROVE  Tables' /\ RowsKept
<1>1. CASE Live(r)
  BY <1>1, RevokingTables DEF Revoke
<1>2. CASE ~Live(r)
  <2>1. UNCHANGED <<db, lineage>>
    BY <1>2 DEF Revoke, db
  <2>2. QED
    BY <2>1, Halves, TablesUnchanged DEF RowsKept, Exists, Refreshed, db
<1>3. QED
  BY <1>1, <1>2

\* Steps of the environment: no request moves.
LEMMA EnvironmentRequests ==
  ASSUME Inv, RowsKept, UNCHANGED <<now, pc, request, breached>>
  PROVE  Requests'
<1>1. RequestsSound'
  BY DEF Inv, RequestsSound, RowsKept
<1>2. LockIsExclusive'
  BY DEF Inv, LockIsExclusive
<1>3. QED
  BY <1>1, <1>2 DEF Requests, Inv, TypeOK

LEMMA RevokeRefreshTokenInv ==
  ASSUME Inv, NEW r \in Pks, RevokeRefreshToken(r)
  PROVE  Inv'
<1>1. Tables' /\ RowsKept
  BY RevokeTables DEF RevokeRefreshToken, hist
<1>2. Requests'
  BY <1>1, EnvironmentRequests DEF RevokeRefreshToken, hist
<1>3. QED
  BY <1>1, <1>2, Halves, PTL

LEMMA DeleteAccessTokenInv ==
  ASSUME Inv, NEW a \in Pks, DeleteAccessToken(a)
  PROVE  Inv'
<1> DEFINE row == [RefreshToken[a] EXCEPT !.access_token = Null]
<1>1. AccessToken[a] # Absent
  BY DEF DeleteAccessToken
<1>2. \A k \in Pks : AccessToken'[k] = IF k = a THEN Absent ELSE AccessToken[k]
  BY DEF DeleteAccessToken, AccessTokensWithout
<1>3. \A k \in Pks : k \in PairOf(a) <=> k = a /\ Exists(k)
  BY <1>1, ConstantsAssumption DEF PairOf, Inv, Pairing, Null, Pks
<1>4. \A k \in Pks : RefreshToken'[k] = IF k = a /\ Exists(a) THEN row ELSE RefreshToken[k]
  BY <1>3 DEF DeleteAccessToken
<1>5. Exists(a) => /\ row \in RefreshRow /\ row # Absent
                   /\ row.access_token = Null /\ row.revoked = RefreshToken[a].revoked
  <2>1. Null \in Ref
    BY ConstantsAssumption DEF Null, Ref
  <2>2. Exists(a) => RefreshToken[a] \in RefreshRow
    BY RowTypes DEF Inv
  <2>3. Exists(a) => /\ row \in RefreshRow
                     /\ row.access_token = Null /\ row.revoked = RefreshToken[a].revoked
    BY <2>1, <2>2 DEF RefreshRow
  <2>4. QED
    BY <2>3, AbsentAssumption
<1> HIDE DEF row
<1>6. /\ AccessToken' \in [Pks -> AccessRow \cup {Absent}]
      /\ RefreshToken' \in [Pks -> RefreshRow \cup {Absent}]
  <2>1. /\ AccessToken' = [k \in Pks |-> AccessToken'[k]]
        /\ RefreshToken' = [k \in Pks |-> RefreshToken'[k]]
    BY DEF DeleteAccessToken, AccessTokensWithout
  <2>2. \A k \in Pks : /\ AccessToken'[k] \in AccessRow \cup {Absent}
                       /\ RefreshToken'[k] \in RefreshRow \cup {Absent}
    BY <1>2, <1>4, <1>5 DEF Inv, TypeOK
  <2>3. QED
    BY <2>1, <2>2
<1>7. UNCHANGED <<nextPk, lineage>> /\ UNCHANGED <<now, pc, request, breached>>
  BY DEF DeleteAccessToken, hist
<1>8. FreshKeys' /\ Pairing'
  BY <1>1, <1>2, <1>4, <1>5, <1>7 DEF Inv, FreshKeys, Pairing, Exists
<1>9. SourceConsumed' /\ OneRefreshPerToken'
  <2>1. \A k \in Pks : AccessToken[k] # Absent => AccessToken[k].source_refresh_token \in Ref
    BY RowTypes DEF Inv, AccessRow
  <2>2. QED
    BY <1>2, <1>4, <1>5, <2>1, ConstantsAssumption
    DEF Inv, SourceConsumed, OneRefreshPerToken, Exists, Ref, Pks, Null
<1>10. RowsKept
  BY <1>2, <1>4, <1>5 DEF RowsKept, Exists, Refreshed
<1>11. Requests'
  BY <1>7, <1>10, EnvironmentRequests
<1>12. Tables'
  BY <1>6, <1>7, <1>8, <1>9 DEF Tables, Inv, TypeOK
<1>13. QED
  BY <1>11, <1>12, Halves, PTL

\* A worker that keeps every row keeps those that others have locked.
LEMMA RowsKeptLocked ==
  ASSUME Inv, RowsKept, NEW p \in Workers
  PROVE  LockedRowsKept(p)
BY DEF LockedRowsKept, RowsKept, Inv, RequestsSound

LEMMA RevokeFamilyMemberInv ==
  ASSUME Inv, NEW p \in Workers, NEW r \in Pks, RevokeFamilyMember(p, r)
  PROVE  Inv'
<1>1. /\ pc[p] = "revoking" /\ r \in request[p].todo
      /\ Revoke(r)
      /\ UNCHANGED <<now, nextPk, lineage, breached>>
  BY DEF RevokeFamilyMember, hist
<1>2. Tables' /\ RowsKept
  BY <1>1, RevokeTables
<1>3. /\ pc' \in [Workers -> Steps \cup Answers]
      /\ request' \in [Workers -> Request]
      /\ ~Held(p)'
      /\ \A q \in Workers \ {p} : pc'[q] = pc[q] /\ request'[q] = request[q]
  <2>1. CASE Answer(p, "denied")
    BY <2>1, NoRequestTyped DEF Answer, Goto, Held, Inv, TypeOK, Answers
  <2>2. CASE request' = [request EXCEPT ![p].todo = @ \ {r}] /\ UNCHANGED pc
    <3> DEFINE rec == [request[p] EXCEPT !.todo = request[p].todo \ {r}]
    <3>1. rec \in Request
      BY DEF Inv, TypeOK, Request
    <3>2. request' = [request EXCEPT ![p] = rec]
      BY <2>2
    <3> HIDE DEF rec
    <3>3. QED
      BY <1>1, <2>2, <3>1, <3>2 DEF Held, Inv, TypeOK
  <2>3. QED
    BY <2>1, <2>2 DEF RevokeFamilyMember
<1>4. RequestsSound' /\ LockIsExclusive'
  BY <1>2, <1>3, RowsKeptLocked, LetGo
<1>5. Requests'
  BY <1>1, <1>3, <1>4 DEF Requests, Inv, TypeOK
<1>6. QED
  BY <1>2, <1>5, Halves, PTL

LEMMA ReplayInv ==
  ASSUME Inv, NEW p \in Workers, Replay(p)
  PROVE  Inv'
<1>1. /\ pc[p] = "replaying" /\ pc' = [pc EXCEPT ![p] = "signalling"]
      /\ UNCHANGED <<now, nextPk, request, lineage, breached>>
  BY DEF Replay, Goto, hist
<1>2. request[p].rt \in Pks
  BY <1>1 DEF Inv, RequestsSound
<1>3. Tables' /\ RowsKept
  <2>1. CASE Live(request[p].rt)
    BY <1>1, <1>2, <2>1, RevokingTables DEF Replay
  <2>2. CASE ~Live(request[p].rt)
    <3>1. UNCHANGED <<db, lineage>>
      BY <1>1, <2>2 DEF Replay, db
    <3>2. QED
      BY <3>1, Halves, TablesUnchanged DEF RowsKept, Exists, Refreshed, db
  <2>3. QED
    BY <2>1, <2>2
<1>4. /\ pc' \in [Workers -> Steps \cup Answers]
      /\ ~Held(p)'
      /\ \A q \in Workers \ {p} : pc'[q] = pc[q] /\ request'[q] = request[q]
  BY <1>1 DEF Inv, TypeOK, Steps, Held
<1>5. RequestsSound' /\ LockIsExclusive'
  BY <1>3, <1>4, RowsKeptLocked, LetGo
<1>6. Requests'
  BY <1>1, <1>4, <1>5 DEF Requests, Inv, TypeOK
<1>7. QED
  BY <1>3, <1>6, Halves, PTL

\* A refresh in place keeps every key, so nothing about the pairs changes.
LEMMA UpdateInPlaceInv ==
  ASSUME Inv, NEW p \in Workers, UpdateInPlace(p)
  PROVE  Inv'
<1> DEFINE a == request[p].seen
           row == [AccessToken[a] EXCEPT !.token = nextPk, !.scope = request[p].asked,
                                         !.application = request[p].client]
           rec == [request[p] EXCEPT !.access = a, !.token = nextPk]
<1>1. /\ pc[p] = "saving" /\ pc' = [pc EXCEPT ![p] = "signalling"]
      /\ a # Null /\ AccessToken[a] # Absent /\ nextPk <= MaxPk
      /\ AccessToken' = [AccessToken EXCEPT ![a] = row]
      /\ request' = [request EXCEPT ![p] = rec]
      /\ nextPk' = nextPk + 1
      /\ UNCHANGED <<now, RefreshToken, lineage, breached>>
  BY DEF UpdateInPlace, InPlace, Goto, hist
<1>2. request[p] \in Request /\ request[p].client \in Clients
  BY <1>1 DEF Inv, TypeOK, RequestsSound
<1>3. a \in Pks /\ a \in Ref /\ nextPk \in Pks /\ nextPk \in Ref /\ nextPk' \in 1..(MaxPk + 1)
  BY <1>1, <1>2, ConstantsAssumption DEF Inv, TypeOK, Request, Ref, Pks, Null
<1>4. request[p].asked \in SUBSET Scopes
  BY <1>2 DEF Request
<1>5. AccessToken[a] \in AccessRow
  BY <1>1, <1>3, RowTypes DEF Inv
<1>6. row \in AccessRow /\ row # Absent
      /\ row.source_refresh_token = AccessToken[a].source_refresh_token
  <2>1. row \in AccessRow /\ row.source_refresh_token = AccessToken[a].source_refresh_token
    BY <1>2, <1>3, <1>4, <1>5 DEF AccessRow
  <2>2. QED
    BY <2>1, AbsentAssumption
<1>7. rec \in Request
  BY <1>2, <1>3 DEF Request
<1> HIDE DEF a, row, rec
<1>8. \A k \in Pks : AccessToken'[k] = IF k = a THEN row ELSE AccessToken[k]
  BY <1>1 DEF Inv, TypeOK
<1>9. Tables'
  <2>1. /\ AccessToken' \in [Pks -> AccessRow \cup {Absent}]
        /\ RefreshToken' \in [Pks -> RefreshRow \cup {Absent}]
    BY <1>1, <1>3, <1>6 DEF Inv, TypeOK
  <2>2. FreshKeys' /\ Pairing'
    BY <1>1, <1>3, <1>6, <1>8, ConstantsAssumption
    DEF Inv, TypeOK, FreshKeys, Pairing, Exists, Pks
  <2>3. SourceConsumed' /\ OneRefreshPerToken'
    BY <1>1, <1>6, <1>8 DEF Inv, SourceConsumed, OneRefreshPerToken, Exists
  <2>4. QED
    BY <1>1, <1>3, <2>1, <2>2, <2>3 DEF Tables, Inv, TypeOK
<1>10. RowsKept
  BY <1>1, <1>6, <1>8 DEF RowsKept, Exists, Refreshed
<1>11. /\ pc' \in [Workers -> Steps \cup Answers]
       /\ request' \in [Workers -> Request]
       /\ ~Held(p)'
       /\ \A q \in Workers \ {p} : pc'[q] = pc[q] /\ request'[q] = request[q]
  BY <1>1, <1>7 DEF Inv, TypeOK, Steps, Held
<1>12. RequestsSound' /\ LockIsExclusive'
  BY <1>10, <1>11, RowsKeptLocked, LetGo
<1>13. Requests'
  BY <1>1, <1>11, <1>12 DEF Requests, Inv, TypeOK
<1>14. QED
  BY <1>9, <1>13, Halves, PTL

\* The first pair of a chain takes a fresh key and leaves every other row alone.
LEMMA IssueTokensInv ==
  ASSUME Inv, NEW c \in Clients, NEW scope \in SUBSET Scopes, IssueTokens(c, scope)
  PROVE  Inv'
<1> DEFINE k == nextPk
           access == NewAccess(c, scope, Null)
           refresh == NewRefresh(c, k, k)
           birth == [origin |-> k, parent |-> Null, granted |-> scope]
<1>1. /\ AccessToken' = [AccessToken EXCEPT ![k] = access]
      /\ RefreshToken' = [RefreshToken EXCEPT ![k] = refresh]
      /\ lineage' = [lineage EXCEPT ![k] = birth]
      /\ nextPk' = k + 1
      /\ UNCHANGED <<now, pc, request, breached>>
  BY DEF IssueTokens
<1>2. k <= MaxPk
  <2>1. Cardinality({p \in Workers : Busy(p)}) \in Nat => k <= MaxPk
    BY ConstantsAssumption DEF IssueTokens, KeyLeft, Inv, TypeOK
  <2>2. IsFiniteSet({p \in Workers : Busy(p)})
    BY ConstantsAssumption, FS_Subset
  <2>3. QED
    BY <2>1, <2>2, FS_CardinalityType
<1>3. k \in Pks /\ k \in Ref /\ k + 1 \in 1..(MaxPk + 1) /\ Null \in Ref /\ Null \in 0..MaxTime
  BY <1>2, ConstantsAssumption DEF Inv, TypeOK, Pks, Ref, Null
<1>4. /\ access \in AccessRow /\ refresh \in RefreshRow /\ birth \in Lineage
      /\ access.source_refresh_token = Null
      /\ refresh.access_token = k /\ refresh.revoked = Null
  BY <1>3 DEF NewAccess, NewRefresh, AccessRow, RefreshRow, Lineage
<1>5. access # Absent /\ refresh # Absent
  BY <1>4, AbsentAssumption
<1> HIDE DEF access, refresh, birth
<1>6. \A j \in Pks : /\ AccessToken'[j] = IF j = k THEN access ELSE AccessToken[j]
                     /\ RefreshToken'[j] = IF j = k THEN refresh ELSE RefreshToken[j]
  BY <1>1 DEF Inv, TypeOK
<1>7. AccessToken[k] = Absent /\ RefreshToken[k] = Absent
  BY <1>3 DEF Inv, FreshKeys, TypeOK
<1>8. Tables'
  <2>1. /\ AccessToken' \in [Pks -> AccessRow \cup {Absent}]
        /\ RefreshToken' \in [Pks -> RefreshRow \cup {Absent}]
        /\ lineage' \in [Pks -> Lineage]
    BY <1>1, <1>3, <1>4 DEF Inv, TypeOK
  <2>2. FreshKeys' /\ Pairing'
    BY <1>1, <1>3, <1>4, <1>5, <1>6, ConstantsAssumption
    DEF Inv, TypeOK, FreshKeys, Pairing, Exists, Pks
  <2>3. \A j \in Pks : AccessToken[j] # Absent => AccessToken[j].source_refresh_token \in Ref
    BY RowTypes DEF Inv, AccessRow
  <2>4. SourceConsumed' /\ OneRefreshPerToken'
    BY <1>4, <1>5, <1>6, <1>7, <2>3, ConstantsAssumption
    DEF Inv, SourceConsumed, OneRefreshPerToken, Exists, Pks, Ref, Null
  <2>5. QED
    BY <1>1, <1>3, <2>1, <2>2, <2>4 DEF Tables
<1>9. RowsKept
  BY <1>3, <1>4, <1>5, <1>6, <1>7, ConstantsAssumption DEF RowsKept, Exists, Refreshed, Pks, Null
<1>10. Requests'
  BY <1>1, <1>9, EnvironmentRequests
<1>11. QED
  BY <1>8, <1>10, Halves, PTL

\* Removing a row that nobody has locked: what was refreshed from it forgets its
\* source.
LEMMA CleanRefreshTokenInv ==
  ASSUME Inv, NEW r \in Pks, CleanRefreshToken(r)
  PROVE  Inv'
<1> DEFINE row(a) == [AccessToken[a] EXCEPT !.source_refresh_token = Null]
<1>1. /\ Exists(r) /\ ~Locked(r)
      /\ RefreshToken' = [RefreshToken EXCEPT ![r] = Absent]
      /\ AccessToken' = [a \in Pks |-> IF a \in Refreshed(r) THEN row(a) ELSE AccessToken[a]]
      /\ UNCHANGED <<now, nextPk, pc, request, lineage, breached>>
  BY DEF CleanRefreshToken, hist
<1>2. \A a \in Refreshed(r) : /\ row(a) \in AccessRow /\ row(a) # Absent
                              /\ row(a).source_refresh_token = Null
  <2>1. TAKE a \in Refreshed(r)
  <2>2. AccessToken[a] \in AccessRow /\ Null \in Ref
    BY RowTypes, ConstantsAssumption DEF Refreshed, Inv, Null, Ref
  <2>3. row(a) \in AccessRow /\ row(a).source_refresh_token = Null
    BY <2>2 DEF AccessRow
  <2>4. QED
    BY <2>3, AbsentAssumption
<1> HIDE DEF row
<1>3. \A k \in Pks :
        /\ RefreshToken'[k] = IF k = r THEN Absent ELSE RefreshToken[k]
        /\ AccessToken'[k] = IF k \in Refreshed(r) THEN row(k) ELSE AccessToken[k]
  BY <1>1 DEF Inv, TypeOK
<1>4. Tables'
  <2>1. /\ AccessToken' \in [Pks -> AccessRow \cup {Absent}]
        /\ RefreshToken' \in [Pks -> RefreshRow \cup {Absent}]
    BY <1>1, <1>2 DEF Inv, TypeOK
  <2>2. FreshKeys' /\ Pairing'
    BY <1>1, <1>2, <1>3 DEF Inv, FreshKeys, Pairing, Exists, Refreshed
  <2>3. SUFFICES SourceConsumed' /\ OneRefreshPerToken'
    BY <1>1, <2>1, <2>2 DEF Tables, Inv, TypeOK
  <2>4. \A k \in Pks :
          AccessToken'[k] # Absent /\ AccessToken'[k].source_refresh_token # Null
            => /\ AccessToken[k] # Absent /\ AccessToken'[k] = AccessToken[k]
               /\ AccessToken[k].source_refresh_token \in Pks \ {r}
    BY <1>2, <1>3, RowTypes, ConstantsAssumption DEF Inv, AccessRow, Refreshed, Ref, Pks, Null
  <2>5. QED
    BY <1>3, <2>4 DEF Inv, SourceConsumed, OneRefreshPerToken, Exists
<1>5. RequestsSound'
  <2>1. \A s \in Pks : Refreshed(s)' \subseteq Refreshed(s)
    BY <1>2, <1>3, ConstantsAssumption DEF Refreshed, Pks, Null
  <2>2. \A q \in Workers : pc[q] \in {"rotating", "replaying"} => request[q].rt # r
    BY <1>1 DEF Locked
  <2>3. QED
    BY <1>1, <1>3, <2>1, <2>2 DEF Inv, RequestsSound, Exists
<1>6. LockIsExclusive'
  BY <1>1 DEF Inv, LockIsExclusive
<1>7. Requests'
  BY <1>1, <1>5, <1>6 DEF Requests, Inv, TypeOK
<1>8. QED
  BY <1>4, <1>7, Halves, PTL

\* Rotating: the token is consumed and its pair replaced in one transaction. That
\* nobody else can have consumed it is what the lock and the second read are for.
LEMMA RotateInv ==
  ASSUME Inv, NEW p \in Workers, Rotate(p)
  PROVE  Inv'
<1> DEFINE r == request[p].rt
           k == nextPk
           c == request[p].client
           bound == IF Live(r) THEN {RefreshToken[r].access_token} ELSE {}
           string == IF ROTATE_REFRESH_TOKEN THEN k ELSE RefreshToken[r].token
           old == IF Live(r) THEN RevokedRow(r) ELSE RefreshToken[r]
           access == NewAccess(c, request[p].asked, r)
           refresh == NewRefresh(c, string, RefreshToken[r].token_family)
           birth == [origin |-> lineage[r].origin, parent |-> r, granted |-> lineage[r].granted]
           rec == [request[p] EXCEPT !.access = k, !.token = k]
<1>1. pc[p] = "rotating" /\ k <= MaxPk
  BY DEF Rotate
<1>2. /\ request[p] \in Request /\ r \in Pks /\ c \in Clients
      /\ Exists(r) /\ Refreshed(r) = {}
      /\ RefreshToken[r] \in RefreshRow /\ lineage[r] \in Lineage
  <2>1. request[p] \in Request /\ r \in Pks /\ c \in Clients /\ Exists(r) /\ Refreshed(r) = {}
    BY <1>1 DEF Inv, TypeOK, RequestsSound
  <2>2. QED
    BY <2>1, RowTypes DEF Inv, TypeOK
<1>3. /\ k \in Pks /\ k \in Ref /\ r \in Ref /\ r # Null /\ k # Null /\ r # k
      /\ k + 1 \in 1..(MaxPk + 1) /\ Null \in 0..MaxTime /\ Null \in Ref
      /\ AccessToken[k] = Absent /\ RefreshToken[k] = Absent
  <2>1. k \in Pks /\ AccessToken[k] = Absent /\ RefreshToken[k] = Absent
    BY <1>1, ConstantsAssumption DEF Inv, TypeOK, FreshKeys, Pks
  <2>2. QED
    BY <1>1, <1>2, <2>1, ConstantsAssumption DEF Inv, TypeOK, Pks, Ref, Null, Exists
<1>4. /\ AccessToken' = [AccessTokensWithout(bound) EXCEPT ![k] = access]
      /\ RefreshToken' = [RefreshToken EXCEPT ![r] = old, ![k] = refresh]
      /\ lineage' = [lineage EXCEPT ![k] = birth]
      /\ nextPk' = k + 1
      /\ request' = [request EXCEPT ![p] = rec]
      /\ pc' = [pc EXCEPT ![p] = "signalling"]
      /\ UNCHANGED <<now, breached>>
  BY DEF Rotate, Goto
<1>5. /\ access \in AccessRow /\ access # Absent /\ access.source_refresh_token = r
      /\ refresh \in RefreshRow /\ refresh # Absent
      /\ refresh.access_token = k /\ refresh.revoked = Null
  <2>1. string \in Pks /\ RefreshToken[r].token_family \in Ref
    BY <1>2, <1>3 DEF RefreshRow
  <2>2. request[p].asked \in SUBSET Scopes
    BY <1>2 DEF Request
  <2> HIDE DEF string
  <2>3. /\ access \in AccessRow /\ access.source_refresh_token = r
        /\ refresh \in RefreshRow /\ refresh.access_token = k /\ refresh.revoked = Null
    BY <1>2, <1>3, <2>1, <2>2 DEF NewAccess, NewRefresh, AccessRow, RefreshRow
  <2>4. QED
    BY <2>3, AbsentAssumption
<1>6. old \in RefreshRow /\ old # Absent /\ old.access_token = Null /\ old.revoked # Null
  <2>1. CASE Live(r)
    BY <1>2, <2>1, RevokedRowTyped, AbsentAssumption
  <2>2. CASE ~Live(r)
    BY <1>2, <2>2, AbsentAssumption DEF Live, Inv, Pairing
  <2>3. QED
    BY <2>1, <2>2
<1>7. birth \in Lineage /\ rec \in Request
  BY <1>2, <1>3 DEF Lineage, Request
<1>8. \A j \in Pks : j \in bound <=> AccessToken[r] # Absent /\ j = r
  BY <1>2, ConstantsAssumption DEF Inv, Pairing, Live, Null, Pks
<1> HIDE DEF bound, old, access, refresh, birth, rec
<1>9. \A j \in Pks :
        AccessToken'[j] = IF j = k THEN access ELSE IF j = r THEN Absent ELSE AccessToken[j]
  BY <1>4, <1>8 DEF AccessTokensWithout
<1>10. \A j \in Pks :
        RefreshToken'[j] = IF j = k THEN refresh ELSE IF j = r THEN old ELSE RefreshToken[j]
  BY <1>3, <1>4 DEF Inv, TypeOK
<1> HIDE DEF r, k, c
<1>11. \A j \in Pks : AccessToken[j] # Absent =>
         /\ AccessToken[j].source_refresh_token \in Ref \ {r}
         /\ AccessToken[j].source_refresh_token # k
  <2>1. TAKE j \in Pks
  <2>2. HAVE AccessToken[j] # Absent
  <2>3. AccessToken[j].source_refresh_token \in Ref
    BY <2>2, RowTypes DEF Inv, AccessRow
  <2>4. AccessToken[j].source_refresh_token # r
    BY <1>2, <2>2 DEF Refreshed
  <2>5. AccessToken[j].source_refresh_token # k
    BY <1>3, <2>2 DEF Inv, SourceConsumed, Exists
  <2>6. QED
    BY <2>3, <2>4, <2>5
<1>12. Tables'
  <2>1. /\ AccessToken' \in [Pks -> AccessRow \cup {Absent}]
        /\ RefreshToken' \in [Pks -> RefreshRow \cup {Absent}]
        /\ lineage' \in [Pks -> Lineage]
    BY <1>4, <1>5, <1>6, <1>7 DEF AccessTokensWithout, Inv, TypeOK
  <2>2. FreshKeys'
    BY <1>1, <1>2, <1>3, <1>4, <1>9, <1>10, ConstantsAssumption
    DEF Inv, TypeOK, FreshKeys, Exists, Pks, k
  <2>3. Pairing'
    BY <1>3, <1>5, <1>6, <1>9, <1>10 DEF Inv, Pairing, Exists
  <2>4. SourceConsumed'
    BY <1>2, <1>3, <1>5, <1>6, <1>9, <1>10, <1>11, ConstantsAssumption
    DEF Inv, SourceConsumed, Exists, Ref, Pks, Null
  <2>5. OneRefreshPerToken'
    BY <1>3, <1>5, <1>9, <1>11 DEF Inv, OneRefreshPerToken
  <2>6. QED
    BY <1>3, <1>4, <2>1, <2>2, <2>3, <2>4, <2>5 DEF Tables
<1>13. LockedRowsKept(p)
  <2>1. \A q \in Workers \ {p} : pc[q] \in {"rotating", "replaying"}
          => request[q].rt \in Pks /\ request[q].rt # r /\ Exists(request[q].rt)
    BY <1>1 DEF Inv, LockIsExclusive, RequestsSound, r
  <2>2. \A s \in Pks : Exists(s) /\ s # r =>
          Exists(s)' /\ (Refreshed(s) = {} => Refreshed(s)' = {})
    <3>1. SUFFICES ASSUME NEW s \in Pks, Exists(s), s # r
          PROVE  Exists(s)' /\ (Refreshed(s) = {} => Refreshed(s)' = {})
      OBVIOUS
    <3>2. s # k
      BY <1>3, <3>1 DEF Exists
    <3>3. Exists(s)'
      BY <1>10, <3>1, <3>2 DEF Exists
    <3>4. ASSUME NEW a \in Pks, a \in Refreshed(s)' PROVE a \in Refreshed(s)
      <4>1. AccessToken'[a] # Absent /\ AccessToken'[a].source_refresh_token = s
        BY <3>4 DEF Refreshed
      <4>2. a # k
        BY <1>5, <1>9, <3>1, <4>1
      <4>3. AccessToken'[a] = AccessToken[a]
        BY <1>9, <4>1, <4>2
      <4>4. QED
        BY <4>1, <4>3 DEF Refreshed
    <3>5. QED
      BY <3>3, <3>4 DEF Refreshed
  <2>3. QED
    BY <2>1, <2>2 DEF LockedRowsKept
<1>14. /\ pc' \in [Workers -> Steps \cup Answers]
       /\ request' \in [Workers -> Request]
       /\ ~Held(p)'
       /\ \A q \in Workers \ {p} : pc'[q] = pc[q] /\ request'[q] = request[q]
  BY <1>4, <1>7 DEF Inv, TypeOK, Steps, Held
<1>15. RequestsSound' /\ LockIsExclusive'
  BY <1>13, <1>14, LetGo
<1>16. Requests'
  BY <1>4, <1>14, <1>15 DEF Requests, Inv, TypeOK
<1>17. QED
  BY <1>12, <1>16, Halves, PTL
-----------------------------------------------------------------------------
(* The theorems                                                              *)

LEMMA NextInv == Inv /\ [Next]_vars => Inv'
<1>1. SUFFICES ASSUME Inv, [Next]_vars PROVE Inv'
  OBVIOUS
<1>2. ASSUME NEW p \in Workers, Start(p) PROVE Inv'
  <2>1. CASE RejectUnknown(p)
    BY <2>1, <1>1, RejectsInv
  <2>2. ASSUME NEW r \in Pks, RejectRevoked(p, r) PROVE Inv'
    BY <2>2, <1>1, RejectsInv
  <2>3. ASSUME NEW r \in Pks, DetectReuse(p, r) PROVE Inv'
    BY <2>3, <1>1, DetectReuseInv
  <2>4. ASSUME NEW r \in Pks, NEW c \in Clients, RejectClient(p, r, c) PROVE Inv'
    BY <2>4, <1>1, RejectsInv
  <2>5. ASSUME NEW r \in Pks, NEW c \in Clients, NEW asked \in SUBSET Scopes,
               Accept(p, r, c, asked)
        PROVE  Inv'
    BY <2>5, <1>1, AcceptInv
  <2>6. QED
    BY <1>2, <2>1, <2>2, <2>3, <2>4, <2>5 DEF Start
<1>3. ASSUME NEW p \in Workers, Acquire(p) PROVE Inv'
  <2>1. CASE LockRefreshToken(p)
    BY <2>1, <1>1, LockRefreshTokenInv
  <2>2. ASSUME NEW r \in Pks, RevokeFamilyMember(p, r) PROVE Inv'
    BY <2>2, <1>1, RevokeFamilyMemberInv
  <2>3. QED
    BY <1>3, <2>1, <2>2 DEF Acquire
<1>4. ASSUME NEW p \in Workers, Proceed(p) PROVE Inv'
  <2>1. CASE \/ InvalidScope(p) \/ UpdateInPlaceFails(p) \/ LockRefreshTokenFails(p)
             \/ ReplayFails(p) \/ SendSignal(p)
    BY <2>1, <1>1, RejectsInv
  <2>2. CASE GetOriginalScopes(p)
    BY <2>2, <1>1, GetOriginalScopesInv
  <2>3. CASE UpdateInPlace(p)
    BY <2>3, <1>1, UpdateInPlaceInv
  <2>4. CASE Rotate(p)
    BY <2>4, <1>1, RotateInv
  <2>5. CASE Replay(p)
    BY <2>5, <1>1, ReplayInv
  <2>6. QED
    BY <1>4, <2>1, <2>2, <2>3, <2>4, <2>5 DEF Proceed
<1>5. CASE Environment
  <2>1. ASSUME NEW c \in Clients, NEW scope \in SUBSET Scopes, IssueTokens(c, scope)
        PROVE  Inv'
    BY <2>1, <1>1, IssueTokensInv
  <2>2. ASSUME NEW r \in Pks, RevokeRefreshToken(r) PROVE Inv'
    BY <2>2, <1>1, RevokeRefreshTokenInv
  <2>3. ASSUME NEW r \in Pks, CleanRefreshToken(r) PROVE Inv'
    BY <2>3, <1>1, CleanRefreshTokenInv
  <2>4. ASSUME NEW a \in Pks, DeleteAccessToken(a) PROVE Inv'
    BY <2>4, <1>1, DeleteAccessTokenInv
  <2>5. CASE Tick
    BY <2>5, <1>1, TickInv
  <2>6. QED
    BY <1>5, <2>1, <2>2, <2>3, <2>4, <2>5 DEF Environment
<1>6. CASE UNCHANGED vars
  BY <1>1, <1>6
  DEF vars, db, hist, Inv, TypeOK, FreshKeys, Pairing, SourceConsumed, OneRefreshPerToken,
      RequestsSound, LockIsExclusive, Exists, Refreshed
<1>7. QED
  BY <1>1, <1>2, <1>3, <1>4, <1>5, <1>6 DEF Next

\* The inductive invariant holds in every reachable state.
THEOREM Invariance == Spec => []Inv
<1>1. Init => Inv
  BY InitInv
<1>2. Inv /\ [Next]_vars => Inv'
  BY NextInv
<1>3. QED
  BY <1>1, <1>2, PTL DEF Spec

\* Whatever the workers do with the two tables at once, rows stay well formed and
\* every key a request or a history refers to is one that exists in the model.
THEOREM TypeCorrect == Spec => []TypeOK
<1>1. Inv => TypeOK
  BY DEF Inv
<1>2. QED
  BY <1>1, Invariance, PTL

\* No two access tokens were ever refreshed from one refresh token: the unique
\* constraint on source_refresh_token is never tripped by _save_bearer_token,
\* however many workers are given the same refresh token.
THEOREM RefreshedOnce == Spec => []OneRefreshPerToken
<1>1. Inv => OneRefreshPerToken
  BY DEF Inv
<1>2. QED
  BY <1>1, Invariance, PTL

\* Once an access token has been refreshed from a refresh token, that token is
\* revoked, also when revocation, clean-up and replays come in between.
THEOREM RefreshConsumes == Spec => []SourceConsumed
<1>1. Inv => SourceConsumed
  BY DEF Inv
<1>2. QED
  BY <1>1, Invariance, PTL

\* A revoked refresh token has no access token left, by whichever of revoke(),
\* rotation, replay and reuse detection it was revoked.
THEOREM RevocationReachesAccessToken == Spec => []RevokedKillsAccessToken
<1>1. Inv => RevokedKillsAccessToken
  BY DEF Inv, Pairing, RevokedKillsAccessToken
<1>2. QED
  BY <1>1, Invariance, PTL
-----------------------------------------------------------------------------
(* Revocation is final                                                       *)

\* RevocationIsFinal for one row and one step
Final(r) ==
  Exists(r) /\ RefreshToken[r].revoked # Null
    => \/ RefreshToken'[r] = Absent
       \/ RefreshToken'[r].revoked = RefreshToken[r].revoked

\* Revoking looks at the row first, and leaves one alone that is revoked.
LEMMA RevokingIsFinal ==
  ASSUME Inv, NEW r \in Pks, NEW s \in Pks,
         \/ Revoke(s)
         \/ Live(s) /\ RefreshToken' = [RefreshToken EXCEPT ![s] = RevokedRow(s)]
  PROVE  Final(r)
BY DEF Final, Revoke, Live, Inv, TypeOK

LEMMA StepIsFinal ==
  ASSUME Inv, [Next]_vars, NEW r \in Pks
  PROVE  Final(r)
<1>1. CASE UNCHANGED RefreshToken
  BY <1>1 DEF Final
<1>2. ASSUME NEW c \in Clients, NEW scope \in SUBSET Scopes, IssueTokens(c, scope)
      PROVE  Final(r)
  <2>1. r # nextPk => RefreshToken'[r] = RefreshToken[r]
    BY <1>2 DEF IssueTokens, Inv, TypeOK
  <2>2. r = nextPk => ~Exists(r)
    BY ConstantsAssumption DEF Inv, TypeOK, FreshKeys, Pks, Exists
  <2>3. QED
    BY <2>1, <2>2 DEF Final
<1>3. ASSUME NEW p \in Workers, NEW s \in Pks, RevokeFamilyMember(p, s) PROVE Final(r)
  BY <1>3, RevokingIsFinal DEF RevokeFamilyMember
<1>4. ASSUME NEW p \in Workers, Rotate(p) PROVE Final(r)
  <2> DEFINE s == request[p].rt
             row == NewRefresh(request[p].client,
                               IF ROTATE_REFRESH_TOKEN THEN nextPk ELSE RefreshToken[s].token,
                               RefreshToken[s].token_family)
  <2>1. RefreshToken' = [RefreshToken EXCEPT
          ![s] = IF Live(s) THEN RevokedRow(s) ELSE RefreshToken[s], ![nextPk] = row]
    BY <1>4 DEF Rotate
  <2> HIDE DEF s, row
  <2>2. r # nextPk => \/ RefreshToken'[r] = RefreshToken[r]
                      \/ Live(r)
    BY <2>1 DEF Inv, TypeOK
  <2>3. r = nextPk => ~Exists(r)
    BY ConstantsAssumption DEF Inv, TypeOK, FreshKeys, Pks, Exists
  <2>4. QED
    BY <2>2, <2>3 DEF Final, Live
<1>5. ASSUME NEW p \in Workers, Replay(p) PROVE Final(r)
  <2>1. request[p].rt \in Pks
    BY <1>5 DEF Replay, Inv, RequestsSound
  <2>2. CASE Live(request[p].rt)
    BY <1>5, <2>1, <2>2, RevokingIsFinal DEF Replay
  <2>3. CASE ~Live(request[p].rt)
    BY <1>1, <1>5, <2>3 DEF Replay
  <2>4. QED
    BY <2>2, <2>3
<1>6. ASSUME NEW s \in Pks, RevokeRefreshToken(s) PROVE Final(r)
  BY <1>6, RevokingIsFinal DEF RevokeRefreshToken
<1>7. ASSUME NEW s \in Pks, CleanRefreshToken(s) PROVE Final(r)
  BY <1>7 DEF CleanRefreshToken, Final, Inv, TypeOK
<1>8. ASSUME NEW a \in Pks, DeleteAccessToken(a) PROVE Final(r)
  <2>1. Exists(r) => RefreshToken[r] \in RefreshRow
    BY RowTypes DEF Inv
  <2>2. QED
    BY <1>8, <2>1 DEF DeleteAccessToken, Final, RefreshRow
<1>9. CASE UNCHANGED vars
  BY <1>1, <1>9 DEF vars, db
<1>10. QED
  BY <1>1, <1>2, <1>3, <1>4, <1>5, <1>6, <1>7, <1>8, <1>9
  DEF Next, Start, Acquire, Proceed, Environment, RejectUnknown, RejectRevoked, DetectReuse,
      RejectClient, Accept, GetOriginalScopes, InvalidScope, UpdateInPlace,
      UpdateInPlaceFails, LockRefreshToken, LockRefreshTokenFails, ReplayFails, SendSignal,
      Tick, db

\* The time of a revocation is never moved or taken back, by any step of any
\* worker, of clear_expired or of the views that revoke.
THEOREM RevocationFinal == Spec => RevocationIsFinal
<1>1. Inv /\ [Next]_vars =>
        [\A r \in Pks :
           (Exists(r) /\ RefreshToken[r].revoked # Null) =>
              \/ RefreshToken'[r] = Absent
              \/ RefreshToken'[r].revoked = RefreshToken[r].revoked]_vars
  BY StepIsFinal DEF Final
<1>2. QED
  BY <1>1, Invariance, PTL DEF Spec, RevocationIsFinal
=============================================================================
