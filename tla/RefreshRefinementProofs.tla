---------------------- MODULE RefreshRefinementProofs ----------------------
(***************************************************************************)
(* What refreshing achieves where one request is served at a time and no   *)
(* grace period is set: a detected reuse ends the family, and the endpoint *)
(* implements OneTimeTokens.  Both fail without one of the two hypotheses  *)
(* (the run "reuse" shows how), which OneByOne states.                     *)
(***************************************************************************)
EXTENDS RefreshRefinement, RefreshChainProofs

OneByOne == Serial /\ REFRESH_TOKEN_GRACE_PERIOD_SECONDS = 0

AllInv == Inv /\ ChainInv /\ ReuseInv

LEMMA InitReuse == Init => ReuseInv
<1>1. SUFFICES ASSUME Init PROVE ReuseInv
  OBVIOUS
<1>2. \A p \in Workers : pc[p] = "idle"
  BY <1>1 DEF Init
<1>3. \A r \in Pks : Exists(r) => RefreshToken[r].revoked = Null
  BY <1>1 DEF Init, EmptyDatabase, MigratedDatabase, Exists
<1>4. QED
  BY <1>1, <1>2, <1>3
  DEF Init, ReuseInv, OneAtATime, Busy, Steps, RevokedInThePast, BreachesListed, HeldAreLive,
      BreachedAreNamed, Null

\* A request is begun when no other is under way, and goes on alone.
LEMMA Alone ==
  ASSUME OneByOne, ReuseInv, NEW p \in Workers,
         Start(p) \/ Acquire(p) \/ Proceed(p)
  PROVE  /\ \A q \in Workers \ {p} : ~Busy(q)
         /\ Start(p) => ~Busy(p)
<1>1. CASE Start(p)
  BY <1>1
  DEF Start, RejectUnknown, RejectRevoked, DetectReuse, RejectClient, Accept, Free,
      Undisturbed, OneByOne
<1>2. Acquire(p) \/ Proceed(p) => Busy(p)
  BY DEF Acquire, LockRefreshToken, RevokeFamilyMember, Proceed, GetOriginalScopes,
         InvalidScope, UpdateInPlace, UpdateInPlaceFails, LockRefreshTokenFails, Rotate,
         Replay, ReplayFails, SendSignal, Busy, Steps
<1>3. CASE ~Start(p)
  BY <1>2, <1>3 DEF ReuseInv, OneAtATime
<1>4. QED
  BY <1>1, <1>3

\* A step in which rows are at most revoked or removed
RowsOnlyRevoked ==
  \A r \in Pks : Exists(r)' =>
    /\ Exists(r)
    /\ RefreshToken'[r].token_family = RefreshToken[r].token_family
    /\ RefreshToken'[r].revoked \in {RefreshToken[r].revoked, now}

LEMMA NoneRevived ==
  ASSUME Inv, RowsOnlyRevoked, NEW r \in Pks, Live(r)'
  PROVE  Live(r) /\ RefreshToken'[r].token_family = RefreshToken[r].token_family
<1>1. now # Null
  BY ConstantsAssumption DEF Inv, TypeOK, Time, Null
<1>2. QED
  BY <1>1 DEF RowsOnlyRevoked, Live, Exists

LEMMA RevokedStaysPast ==
  ASSUME Inv, RowsOnlyRevoked, RevokedInThePast, now' \in Nat, now <= now'
  PROVE  RevokedInThePast'
<1>1. \A r \in Pks : Exists(r) => RefreshToken[r].revoked \in Nat
  BY RowTypes, ConstantsAssumption DEF Inv, RefreshRow
<1>2. now \in Nat
  BY ConstantsAssumption DEF Inv, TypeOK, Time
<1>3. QED
  BY <1>1, <1>2 DEF RowsOnlyRevoked, RevokedInThePast, Exists

\* A step of the only request under way, which is not revoking a family
LEMMA WorkerReuse ==
  ASSUME Inv, ReuseInv, NEW p \in Workers, RowsOnlyRevoked,
         pc[p] # "revoking",
         \A q \in Workers \ {p} : ~Busy(q) /\ pc'[q] = pc[q],
         nextPk' \in Nat, nextPk <= nextPk', UNCHANGED <<now, breached>>,
         pc'[p] \in {"validated", "saving", "rotating", "replaying"} =>
           /\ Live(request[p].rt)'
           /\ RefreshToken'[request'[p].rt].token_family \notin breached
  PROVE  ReuseInv'
<1>1. \A q \in Workers \ {p} : ~Busy(q)'
  BY DEF Busy
<1>2. OneAtATime'
  BY <1>1 DEF OneAtATime
<1>3. HeldAreLive'
  BY <1>1 DEF HeldAreLive, Busy, Steps
<1>4. \A r \in Pks : Live(r) => RefreshToken[r].token_family \notin breached
  BY DEF ReuseInv, BreachesListed, Busy, Steps
<1>5. BreachesListed'
  BY <1>4, NoneRevived DEF BreachesListed
<1>6. RevokedInThePast'
  BY RevokedStaysPast, ConstantsAssumption DEF ReuseInv, Inv, TypeOK, Time
<1>7. BreachedAreNamed'
  BY ConstantsAssumption DEF ReuseInv, BreachedAreNamed, Inv, TypeOK, Pks
<1>8. QED
  BY <1>2, <1>3, <1>5, <1>6, <1>7 DEF ReuseInv

LEMMA DbUnchanged ==
  ASSUME Inv, UNCHANGED db
  PROVE  RowsOnlyRevoked /\ nextPk' \in Nat /\ nextPk <= nextPk'
BY ConstantsAssumption DEF db, RowsOnlyRevoked, Exists, Inv, TypeOK

LEMMA RejectsReuse ==
  ASSUME OneByOne, AllInv, NEW p \in Workers,
         \/ RejectUnknown(p)
         \/ \E r \in Pks : RejectRevoked(p, r)
         \/ \E r \in Pks, c \in Clients : RejectClient(p, r, c)
         \/ InvalidScope(p) \/ UpdateInPlaceFails(p) \/ LockRefreshTokenFails(p)
         \/ ReplayFails(p) \/ SendSignal(p)
  PROVE  ReuseInv'
<1>1. /\ UNCHANGED <<db, now, breached>> /\ pc[p] # "revoking"
      /\ \E status \in Answers : Answer(p, status)
  BY DEF RejectUnknown, RejectRevoked, RejectClient, InvalidScope, UpdateInPlaceFails,
         LockRefreshTokenFails, ReplayFails, SendSignal, Answers, Free, Busy, Steps, hist
<1>2. \A q \in Workers \ {p} : ~Busy(q)
  BY Alone DEF AllInv, Start, Proceed
<1>3. /\ pc'[p] \in Answers
      /\ \A q \in Workers \ {p} : pc'[q] = pc[q]
  BY <1>1 DEF Answer, Goto, AllInv, Inv, TypeOK
<1>4. QED
  BY <1>1, <1>2, <1>3, DbUnchanged, WorkerReuse DEF AllInv, Answers

\* Without a grace period only a live token is accepted; it is of no breached family,
\* for no worker is revoking one.
LEMMA AcceptReuse ==
  ASSUME OneByOne, AllInv, NEW p \in Workers, NEW r \in Pks, NEW c \in Clients,
         NEW asked \in SUBSET Scopes, Accept(p, r, c, asked)
  PROVE  ReuseInv'
<1>1. /\ UNCHANGED <<db, now, breached>>
      /\ pc' = [pc EXCEPT ![p] = "validated"]
      /\ Exists(r) /\ ~PastGrace(r)
  BY DEF Accept, Goto, hist, IsFirst
<1>2. \A q \in Workers : ~Busy(q)
  BY Alone DEF AllInv, Start
<1>3. Live(r)
  <2>1. RefreshToken[r].revoked \in Nat /\ now \in Nat
    BY <1>1, RowTypes, ConstantsAssumption DEF AllInv, Inv, TypeOK, RefreshRow, Time
  <2>2. RefreshToken[r].revoked <= now
    BY <1>1 DEF AllInv, ReuseInv, RevokedInThePast
  <2>3. QED
    BY <1>1, <2>1, <2>2 DEF OneByOne, PastGrace, Live
<1>4. RefreshToken[r].token_family \notin breached
  BY <1>2, <1>3 DEF AllInv, ReuseInv, BreachesListed, Busy, Steps
<1>5. /\ request'[p].rt = r
      /\ \A q \in Workers \ {p} : pc'[q] = pc[q]
  BY <1>1 DEF Accept, NoRequest, AllInv, Inv, TypeOK
<1>6. Live(request[p].rt)' /\ RefreshToken'[request'[p].rt].token_family \notin breached
  BY <1>1, <1>3, <1>4, <1>5 DEF Live, Exists, db
<1>7. pc[p] # "revoking"
  BY <1>2 DEF Busy, Steps
<1>8. QED
  BY <1>1, <1>2, <1>5, <1>6, <1>7, DbUnchanged, WorkerReuse DEF AllInv

\* The steps of a request that hold its refresh token still
LEMMA HoldsReuse ==
  ASSUME OneByOne, AllInv, NEW p \in Workers,
         GetOriginalScopes(p) \/ LockRefreshToken(p)
  PROVE  ReuseInv'
<1>1. /\ UNCHANGED <<db, now, breached>> /\ pc[p] \in {"validated", "saving"}
      /\ \E step \in Steps : pc' = [pc EXCEPT ![p] = step]
      /\ request'[p].rt = request[p].rt
  <2>1. CASE GetOriginalScopes(p)
    BY <2>1 DEF GetOriginalScopes, Goto, Steps, hist, AllInv, Inv, TypeOK, Request
  <2>2. CASE LockRefreshToken(p)
    <3>1. request'[p].rt = request[p].rt
      <4>1. CASE request' = request
        BY <4>1
      <4>2. CASE request' # request
        <5>1. PICK a : request' = [request EXCEPT ![p] =
                             [@ EXCEPT !.access = a, !.token = AccessToken[a].token]]
          BY <2>2, <4>2 DEF LockRefreshToken
        <5>2. request[p] \in Request /\ request \in [Workers -> Request]
          BY DEF AllInv, Inv, TypeOK
        <5>3. request'[p] = [request[p] EXCEPT !.access = a, !.token = AccessToken[a].token]
          BY <5>1, <5>2
        <5>4. QED
          BY <5>2, <5>3 DEF Request
      <4>3. QED
        BY <4>1, <4>2
    <3>2. QED
      BY <2>2, <3>1 DEF LockRefreshToken, Goto, Steps, hist
  <2>3. QED
    BY <2>1, <2>2
<1>2. \A q \in Workers \ {p} : ~Busy(q) /\ pc'[q] = pc[q]
  BY <1>1, Alone DEF AllInv, Acquire, Proceed, Inv, TypeOK
<1>3. Live(request[p].rt)' /\ RefreshToken'[request'[p].rt].token_family \notin breached
  BY <1>1 DEF AllInv, ReuseInv, HeldAreLive, Live, Exists, db
<1>4. QED
  BY <1>1, <1>2, <1>3, DbUnchanged, WorkerReuse DEF AllInv

LEMMA UpdateInPlaceReuse ==
  ASSUME OneByOne, AllInv, NEW p \in Workers, UpdateInPlace(p)
  PROVE  ReuseInv'
<1>1. /\ UNCHANGED <<RefreshToken, now, breached>> /\ pc[p] = "saving"
      /\ nextPk' = nextPk + 1 /\ pc' = [pc EXCEPT ![p] = "signalling"]
  BY DEF UpdateInPlace, Goto, hist
<1>2. /\ pc'[p] = "signalling"
      /\ \A q \in Workers \ {p} : ~Busy(q) /\ pc'[q] = pc[q]
  BY <1>1, Alone DEF AllInv, Proceed, Inv, TypeOK
<1>3. RowsOnlyRevoked /\ nextPk' \in Nat /\ nextPk <= nextPk'
  BY <1>1, ConstantsAssumption DEF RowsOnlyRevoked, Exists, AllInv, Inv, TypeOK
<1>4. QED
  BY <1>1, <1>2, <1>3, WorkerReuse DEF AllInv

LEMMA RevokingRows ==
  ASSUME Inv, NEW r \in Pks,
         \/ Revoke(r)
         \/ Live(r) /\ RefreshToken' = [RefreshToken EXCEPT ![r] = RevokedRow(r)]
         \/ UNCHANGED RefreshToken
  PROVE  RowsOnlyRevoked
<1>1. CASE UNCHANGED RefreshToken
  BY <1>1 DEF RowsOnlyRevoked, Exists
<1>2. CASE Live(r) /\ RefreshToken' = [RefreshToken EXCEPT ![r] = RevokedRow(r)]
  <2>1. RefreshToken[r] \in RefreshRow /\ Exists(r)
    BY <1>2, RowTypes DEF Inv, Live
  <2>2. /\ RevokedRow(r).token_family = RefreshToken[r].token_family
        /\ RevokedRow(r).revoked = now
    BY <2>1 DEF RevokedRow, RefreshRow
  <2>3. QED
    BY <1>2, <2>1, <2>2 DEF RowsOnlyRevoked, Inv, TypeOK, Exists
<1>3. QED
  BY <1>1, <1>2 DEF Revoke

LEMMA ReplayReuse ==
  ASSUME OneByOne, AllInv, NEW p \in Workers, Replay(p)
  PROVE  ReuseInv'
<1>1. /\ UNCHANGED <<nextPk, now, breached>> /\ pc[p] = "replaying"
      /\ pc' = [pc EXCEPT ![p] = "signalling"]
      /\ request[p].rt \in Pks
  BY DEF Replay, Goto, hist, AllInv, Inv, RequestsSound
<1>2. /\ pc'[p] = "signalling"
      /\ \A q \in Workers \ {p} : ~Busy(q) /\ pc'[q] = pc[q]
  BY <1>1, Alone DEF AllInv, Proceed, Inv, TypeOK
<1>3. RowsOnlyRevoked
  BY <1>1, RevokingRows DEF Replay, AllInv
<1>4. nextPk' \in Nat /\ nextPk <= nextPk'
  BY <1>1, ConstantsAssumption DEF AllInv, Inv, TypeOK
<1>5. QED
  BY <1>1, <1>2, <1>3, <1>4, WorkerReuse DEF AllInv

\* The family that is found breached is listed to the last live row.
LEMMA DetectReuseReuse ==
  ASSUME OneByOne, AllInv, NEW p \in Workers, NEW r \in Pks, DetectReuse(p, r)
  PROVE  ReuseInv'
<1>1. /\ UNCHANGED <<db, now>> /\ Exists(r) /\ RefreshToken[r].token_family # Null
      /\ pc' = [pc EXCEPT ![p] = "revoking"]
      /\ breached' = breached \cup {RefreshToken[r].token_family}
  BY DEF DetectReuse, Goto, IsFirst, ProtectedFamily
<1>2. \A q \in Workers : ~Busy(q)
  BY Alone DEF AllInv, Start
<1>3. /\ pc'[p] = "revoking" /\ request'[p].todo = Family(r)
      /\ \A q \in Workers \ {p} : ~Busy(q)'
  BY <1>1, <1>2 DEF DetectReuse, AllInv, Inv, TypeOK, Request, Busy
<1>4. OneAtATime' /\ HeldAreLive'
  BY <1>3 DEF OneAtATime, HeldAreLive, Busy, Steps
<1>5. \A s \in Pks : Live(s) => RefreshToken[s].token_family \notin breached
  BY <1>2 DEF AllInv, ReuseInv, BreachesListed, Busy, Steps
<1>6. BreachesListed'
  <2>1. ASSUME NEW s \in Pks, Live(s)', RefreshToken'[s].token_family \in breached'
        PROVE  s \in Family(r)
    BY <1>1, <1>5, <2>1 DEF Family, Live, Exists, db
  <2>2. QED
    BY <1>3, <2>1 DEF BreachesListed
<1>7. BreachedAreNamed'
  BY <1>1 DEF db, AllInv, ReuseInv, BreachedAreNamed, ChainInv, FamilyNamesOrigin
<1>8. RevokedInThePast'
  BY <1>1 DEF db, AllInv, ReuseInv, RevokedInThePast, Exists
<1>9. QED
  BY <1>4, <1>6, <1>7, <1>8 DEF ReuseInv

\* A row leaves the list of the family only once it is live no more.
LEMMA RevokeFamilyMemberReuse ==
  ASSUME OneByOne, AllInv, NEW p \in Workers, NEW r \in Pks, RevokeFamilyMember(p, r)
  PROVE  ReuseInv'
<1>1. /\ UNCHANGED <<nextPk, now, breached>> /\ pc[p] = "revoking" /\ Busy(p)
      /\ \/ Revoke(r) /\ Live(r)
         \/ UNCHANGED RefreshToken /\ ~Live(r)
  BY DEF RevokeFamilyMember, hist, Busy, Steps, Revoke
<1>2. \A q \in Workers \ {p} : ~Busy(q)
  BY Alone DEF AllInv, Acquire
<1>3. RowsOnlyRevoked
  BY <1>1, RevokingRows DEF AllInv
<1>4. ~Live(r)'
  <2>1. CASE Revoke(r) /\ Live(r)
    <3>1. RefreshToken[r] \in RefreshRow /\ Exists(r)
      BY <2>1, RowTypes DEF AllInv, Inv, Live
    <3>2. RevokedRow(r).revoked = now
      BY <3>1 DEF RevokedRow, RefreshRow
    <3>3. RefreshToken' = [RefreshToken EXCEPT ![r] = RevokedRow(r)]
      BY <2>1 DEF Revoke
    <3>4. RefreshToken'[r].revoked = now
      BY <3>2, <3>3 DEF AllInv, Inv, TypeOK
    <3>5. now # Null
      BY ConstantsAssumption DEF AllInv, Inv, TypeOK, Time, Null
    <3>6. QED
      BY <3>4, <3>5 DEF Live
  <2>2. QED
    BY <1>1, <2>1 DEF Live, Exists
<1>5. /\ pc'[p] \in {"revoking", "denied"}
      /\ \A q \in Workers \ {p} : pc'[q] = pc[q]
      /\ pc'[p] = "denied" => request[p].todo = {r}
      /\ pc'[p] = "revoking" => request'[p].todo = request[p].todo \ {r}
  BY <1>1 DEF RevokeFamilyMember, Answer, Goto, AllInv, Inv, TypeOK, Request
<1>6. OneAtATime' /\ HeldAreLive'
  BY <1>2, <1>5 DEF OneAtATime, HeldAreLive, Busy, Steps
<1>7. BreachesListed'
  <2>1. SUFFICES ASSUME NEW s \in Pks, Live(s)', RefreshToken'[s].token_family \in breached'
        PROVE  pc'[p] = "revoking" /\ s \in request'[p].todo
    BY DEF BreachesListed
  <2>2. /\ Live(s) /\ RefreshToken[s].token_family \in breached /\ s # r
    BY <1>1, <1>3, <1>4, <2>1, NoneRevived DEF AllInv
  <2>3. s \in request[p].todo
    BY <1>2, <2>2 DEF AllInv, ReuseInv, BreachesListed, Busy, Steps
  <2>4. QED
    BY <1>5, <2>2, <2>3
<1>8. RevokedInThePast' /\ BreachedAreNamed'
  BY <1>1, <1>3, RevokedStaysPast, ConstantsAssumption
  DEF AllInv, ReuseInv, BreachedAreNamed, Inv, TypeOK, Time
<1>9. QED
  BY <1>6, <1>7, <1>8 DEF ReuseInv
-----------------------------------------------------------------------------
(* New rows, and what happens between requests                               *)

\* A pair is created with a family that is not breached; no row is revived.
LEMMA PairReuse ==
  ASSUME Inv, ReuseInv, nextPk \in Pks, nextPk' = nextPk + 1,
         UNCHANGED <<now, breached>>,
         RefreshToken'[nextPk] \in RefreshRow,
         RefreshToken'[nextPk].revoked = Null,
         RefreshToken'[nextPk].token_family \notin breached,
         \A r \in Pks \ {nextPk} : Exists(r)' =>
           /\ Exists(r)
           /\ RefreshToken'[r].token_family = RefreshToken[r].token_family
           /\ RefreshToken'[r].revoked \in {RefreshToken[r].revoked, now},
         \A q \in Workers : Busy(q)' => pc'[q] = "signalling",
         \A q, s \in Workers : Busy(q)' /\ Busy(s)' => q = s,
         \A q \in Workers : pc[q] # "revoking"
  PROVE  ReuseInv'
<1>1. now \in Nat /\ now # Null /\ nextPk \in Nat
  BY ConstantsAssumption DEF Inv, TypeOK, Time, Null, Pks
<1>2. OneAtATime' /\ HeldAreLive'
  BY DEF OneAtATime, HeldAreLive, Busy, Steps
<1>3. BreachesListed'
  BY <1>1 DEF ReuseInv, BreachesListed, Live, Exists
<1>4. RevokedInThePast'
  <2>1. ASSUME NEW r \in Pks, Exists(r)' PROVE RefreshToken'[r].revoked <= now
    <3>1. CASE r = nextPk
      BY <1>1, <3>1 DEF Null
    <3>2. CASE r # nextPk
      BY <1>1, <2>1, <3>2 DEF ReuseInv, RevokedInThePast
    <3>3. QED
      BY <3>1, <3>2
  <2>2. QED
    BY <2>1 DEF RevokedInThePast
<1>5. BreachedAreNamed'
  BY <1>1, ConstantsAssumption DEF ReuseInv, BreachedAreNamed, Inv, TypeOK, Pks
<1>6. QED
  BY <1>2, <1>3, <1>4, <1>5 DEF ReuseInv

LEMMA IssueTokensReuse ==
  ASSUME OneByOne, AllInv, NEW c \in Clients, NEW scope \in SUBSET Scopes,
         IssueTokens(c, scope)
  PROVE  ReuseInv'
<1>1. \A q \in Workers : ~Busy(q)
  BY DEF IssueTokens, Undisturbed, OneByOne
<1>2. nextPk \in Pks /\ nextPk # Null
  <2>1. Cardinality({p \in Workers : Busy(p)}) \in Nat
    BY FS_Subset, FS_CardinalityType, ConstantsAssumption
  <2>2. QED
    BY <2>1, ConstantsAssumption DEF IssueTokens, KeyLeft, AllInv, Inv, TypeOK, Pks, Null
<1> DEFINE child == NewRefresh(c, nextPk, nextPk)
<1>3. /\ RefreshToken' = [RefreshToken EXCEPT ![nextPk] = child]
      /\ nextPk' = nextPk + 1
      /\ UNCHANGED <<now, pc, request, breached>>
  BY DEF IssueTokens
<1>4. child \in RefreshRow /\ child.revoked = Null /\ child.token_family = nextPk
  BY <1>2, ConstantsAssumption DEF NewRefresh, RefreshRow, Ref, Pks, Null
<1> HIDE DEF child
<1>5. nextPk \notin breached
  BY <1>2, ConstantsAssumption DEF AllInv, ReuseInv, BreachedAreNamed, Pks
<1>6. /\ RefreshToken'[nextPk] = child
      /\ \A r \in Pks \ {nextPk} : RefreshToken'[r] = RefreshToken[r]
  BY <1>2, <1>3 DEF AllInv, Inv, TypeOK
<1>7. \A q \in Workers : pc[q] # "revoking" /\ ~Busy(q)'
  BY <1>1, <1>3 DEF Busy, Steps
<1>8. QED
  BY <1>2, <1>3, <1>4, <1>5, <1>6, <1>7, PairReuse DEF AllInv, Exists

\* What Rotate does, for the refresh token, the old and the new row
LEMMA RotateRows ==
  ASSUME Inv, ChainInv, NEW p \in Workers, Rotate(p)
  PROVE  LET r == request[p].rt IN
         /\ r \in Pks /\ nextPk \in Pks /\ r # nextPk /\ nextPk' = nextPk + 1
         /\ Exists(r)
         /\ RefreshToken'[nextPk] \in RefreshRow
         /\ RefreshToken'[nextPk].revoked = Null
         /\ RefreshToken'[nextPk].token_family = RefreshToken[r].token_family
         /\ \A s \in Pks \ {nextPk} :
              RefreshToken'[s] = IF s = r /\ Live(r) THEN RevokedRow(r) ELSE RefreshToken[s]
         /\ RevokedRow(r).token_family = RefreshToken[r].token_family
         /\ RevokedRow(r).revoked = now
         /\ lineage' = [lineage EXCEPT ![nextPk] = [origin |-> lineage[r].origin, parent |-> r,
                                                    granted |-> lineage[r].granted]]
<1>1. PICK r \in Pks : r = request[p].rt
  BY DEF Rotate, Inv, RequestsSound
<1>2. Exists(r) /\ RefreshToken[r] \in RefreshRow /\ request[p].client \in Clients
  BY <1>1, RowTypes DEF Rotate, Inv, RequestsSound
<1>3. nextPk \in Pks /\ r # nextPk
  BY <1>2, ConstantsAssumption DEF Rotate, Inv, TypeOK, FreshKeys, Exists, Pks
<1> DEFINE string == IF ROTATE_REFRESH_TOKEN THEN nextPk ELSE RefreshToken[r].token
           child == NewRefresh(request[p].client, string, RefreshToken[r].token_family)
<1>4. /\ RefreshToken' = [RefreshToken EXCEPT
                            ![r] = IF Live(r) THEN RevokedRow(r) ELSE @, ![nextPk] = child]
      /\ nextPk' = nextPk + 1
  BY <1>1 DEF Rotate
<1>5. string \in Pks /\ RefreshToken[r].token_family \in Ref /\ nextPk \in Ref
      /\ Null \in 0..MaxTime
  BY <1>2, <1>3, ConstantsAssumption DEF RefreshRow, Pks, Ref, Null
<1> HIDE DEF string
<1>6. /\ child \in RefreshRow /\ child.revoked = Null
      /\ child.token_family = RefreshToken[r].token_family
  BY <1>2, <1>5 DEF NewRefresh, RefreshRow
<1> HIDE DEF child
<1>7. /\ RefreshToken'[nextPk] = child
      /\ \A s \in Pks \ {nextPk} :
           RefreshToken'[s] = IF s = r /\ Live(r) THEN RevokedRow(r) ELSE RefreshToken[s]
  BY <1>3, <1>4 DEF Inv, TypeOK
<1>8. RevokedRow(r).token_family = RefreshToken[r].token_family /\ RevokedRow(r).revoked = now
  BY <1>2 DEF RevokedRow, RefreshRow
<1>9. lineage' = [lineage EXCEPT ![nextPk] = [origin |-> lineage[r].origin, parent |-> r,
                                              granted |-> lineage[r].granted]]
  BY <1>1 DEF Rotate
<1>10. QED
  BY <1>1, <1>2, <1>3, <1>4, <1>6, <1>7, <1>8, <1>9

LEMMA RotateReuse ==
  ASSUME OneByOne, AllInv, NEW p \in Workers, Rotate(p)
  PROVE  ReuseInv'
<1> DEFINE r == request[p].rt
<1>1. pc[p] = "rotating" /\ UNCHANGED <<now, breached>>
      /\ pc' = [pc EXCEPT ![p] = "signalling"]
  BY DEF Rotate, Goto
<1>2. \A q \in Workers \ {p} : ~Busy(q)
  BY Alone DEF AllInv, Proceed
<1>3. \A q \in Workers : /\ pc[q] # "revoking"
                         /\ Busy(q)' => q = p /\ pc'[q] = "signalling"
  BY <1>1, <1>2 DEF Busy, Steps, AllInv, Inv, TypeOK
<1>4. RefreshToken[r].token_family \notin breached
  BY <1>1 DEF AllInv, ReuseInv, HeldAreLive
<1>5. QED
  BY <1>1, <1>3, <1>4, RotateRows, PairReuse DEF AllInv, Exists

LEMMA BetweenReuse ==
  ASSUME OneByOne, AllInv, RowsOnlyRevoked, \A q \in Workers : ~Busy(q),
         UNCHANGED <<now, nextPk, pc, breached>>
  PROVE  ReuseInv'
<1>1. OneAtATime' /\ HeldAreLive' /\ BreachedAreNamed'
  BY DEF OneAtATime, HeldAreLive, Busy, Steps, BreachedAreNamed, AllInv, ReuseInv
<1>2. BreachesListed'
  BY NoneRevived DEF AllInv, ReuseInv, BreachesListed, Busy, Steps
<1>3. RevokedInThePast'
  BY RevokedStaysPast, ConstantsAssumption DEF AllInv, ReuseInv, Inv, TypeOK, Time
<1>4. QED
  BY <1>1, <1>2, <1>3 DEF ReuseInv

LEMMA RemovalsReuse ==
  ASSUME OneByOne, AllInv, NEW k \in Pks,
         RevokeRefreshToken(k) \/ CleanRefreshToken(k) \/ DeleteAccessToken(k)
  PROVE  ReuseInv'
<1>1. /\ \A q \in Workers : ~Busy(q)
      /\ UNCHANGED <<now, nextPk, pc, breached>>
  BY DEF RevokeRefreshToken, CleanRefreshToken, DeleteAccessToken, Undisturbed, OneByOne, hist
<1>2. CASE RevokeRefreshToken(k)
  BY <1>1, <1>2, RevokingRows, BetweenReuse DEF RevokeRefreshToken, AllInv
<1>3. CASE CleanRefreshToken(k)
  <2>1. RowsOnlyRevoked
    BY <1>3 DEF CleanRefreshToken, RowsOnlyRevoked, Exists, AllInv, Inv, TypeOK
  <2>2. QED
    BY <1>1, <2>1, BetweenReuse
<1>4. CASE DeleteAccessToken(k)
  <2>1. ASSUME NEW r \in PairOf(k)
        PROVE  LET row == [RefreshToken[r] EXCEPT !.access_token = Null] IN
               /\ Exists(r)
               /\ row.token_family = RefreshToken[r].token_family
               /\ row.revoked = RefreshToken[r].revoked
    BY RowTypes DEF PairOf, AllInv, Inv, RefreshRow
  <2>2. RowsOnlyRevoked
    BY <1>4, <2>1 DEF DeleteAccessToken, RowsOnlyRevoked, Exists
  <2>3. QED
    BY <1>1, <2>2, BetweenReuse
<1>5. QED
  BY <1>2, <1>3, <1>4

LEMMA TickReuse ==
  ASSUME AllInv, Tick
  PROVE  ReuseInv'
<1>1. /\ now' = now + 1 /\ now \in Nat
      /\ UNCHANGED <<nextPk, RefreshToken, pc, request, breached>>
  BY ConstantsAssumption DEF Tick, db, hist, AllInv, Inv, TypeOK, Time
<1>2. RevokedInThePast'
  BY <1>1, RevokedStaysPast DEF AllInv, ReuseInv, RowsOnlyRevoked, Exists
<1>3. QED
  BY <1>1, <1>2
  DEF AllInv, ReuseInv, OneAtATime, Busy, BreachesListed, HeldAreLive, BreachedAreNamed, Live,
      Exists

LEMMA NextReuse ==
  ASSUME OneByOne, AllInv, [Next]_vars
  PROVE  ReuseInv'
<1>1. ASSUME NEW p \in Workers, Start(p) PROVE ReuseInv'
  BY <1>1, RejectsReuse, DetectReuseReuse, AcceptReuse DEF Start
<1>2. ASSUME NEW p \in Workers, Acquire(p) PROVE ReuseInv'
  BY <1>2, HoldsReuse, RevokeFamilyMemberReuse DEF Acquire
<1>3. ASSUME NEW p \in Workers, Proceed(p) PROVE ReuseInv'
  BY <1>3, RejectsReuse, HoldsReuse, UpdateInPlaceReuse, RotateReuse, ReplayReuse DEF Proceed
<1>4. CASE Environment
  BY <1>4, IssueTokensReuse, RemovalsReuse, TickReuse DEF Environment
<1>5. CASE UNCHANGED vars
  BY <1>5
  DEF vars, db, hist, AllInv, ReuseInv, OneAtATime, Busy, RevokedInThePast, BreachesListed,
      HeldAreLive, BreachedAreNamed, Live, Exists
<1>6. QED
  BY <1>1, <1>2, <1>3, <1>4, <1>5 DEF Next

\* The three invariants hold together in every reachable state.
THEOREM AllInvariance == ASSUME OneByOne PROVE Spec => []AllInv
<1>1. Init => AllInv
  BY InitInv, InitChain, InitReuse DEF AllInv
<1>2. AllInv /\ [Next]_vars => AllInv'
  BY NextInv, NextChain, NextReuse DEF AllInv
<1>3. QED
  BY <1>1, <1>2, PTL DEF Spec

\* One request at a time and without a grace period, a detected reuse ends the family:
\* once its rows have been gone through none of them is live, and none is added.
THEOREM ReuseIsFinal == ASSUME OneByOne PROVE Spec => []ReuseEndsFamily
<1>1. AllInv => ReuseEndsFamily
  BY DEF AllInv, ReuseInv, BreachesListed, ReuseEndsFamily
<1>2. QED
  BY <1>1, AllInvariance, PTL
-----------------------------------------------------------------------------
(* The refinement                                                            *)

\* A row that counts as live
Counts(r) == Live(r) /\ RefreshToken[r].token_family \notin breached

LEMMA InitRefines == Init => Chain!Init
<1>1. SUFFICES ASSUME Init PROVE Chain!Init
  OBVIOUS
<1>2. CASE EmptyDatabase
  <2>1. \A r \in Pks : lineage[r].origin = Null /\ lineage[r].parent = Null
    BY <1>2 DEF EmptyDatabase, Unborn
  <2>2. QED
    BY <2>1 DEF Chain!Init, Chain!Unissued, Chain!Nobody, Status
<1>3. ASSUME NEW c \in Clients, NEW scope \in SUBSET Scopes, MigratedDatabase(c, scope)
      PROVE  Chain!Init
  <2>1. 1 \in Pks /\ 1 # Null
    BY <1>3, ConstantsAssumption DEF MigratedDatabase, Pks, Null
  <2> DEFINE row == [token |-> 1, application |-> c, access_token |-> 1,
                     token_family |-> Null, revoked |-> Null]
  <2>2. row # Absent
    <3>1. row \in RefreshRow
      BY <2>1, ConstantsAssumption DEF RefreshRow, Ref, Pks, Null
    <3>2. QED
      BY <3>1, AbsentAssumption
  <2>3. /\ \A r \in Pks : lineage[r].origin = (IF r = 1 THEN 1 ELSE Null)
        /\ \A r \in Pks : lineage[r].parent = Null
        /\ RefreshToken[1] = row /\ row.revoked = Null
        /\ breached = {}
    BY <1>1, <1>3, <2>1 DEF Init, MigratedDatabase, Unborn
  <2> HIDE DEF row
  <2>4. Live(1)
    BY <2>2, <2>3 DEF Live, Exists
  <2>5. Status = [Chain!Unissued EXCEPT ![1] = "live"]
    BY <2>1, <2>3, <2>4 DEF Status, Chain!Unissued
  <2>6. /\ [r \in Pks |-> lineage[r].origin] = [Chain!Nobody EXCEPT ![1] = 1]
        /\ [r \in Pks |-> lineage[r].parent] = Chain!Nobody
    BY <2>1, <2>3 DEF Chain!Nobody
  <2>7. QED
    BY <2>1, <2>5, <2>6 DEF Chain!Init
<1>4. QED
  BY <1>1, <1>2, <1>3 DEF Init

\* A step that changes the history of no pair, and for which the same rows count
LEMMA Stutters ==
  ASSUME UNCHANGED lineage, \A r \in Pks : Counts(r)' <=> Counts(r)
  PROVE  UNCHANGED Chain!vars
<1>1. Status' = Status
  BY DEF Status, Counts
<1>2. QED
  BY <1>1 DEF Chain!vars

\* Revoking or removing one row is a revocation of the chain's token, or nothing when
\* the row counts as live no more.
LEMMA RevokingRefines ==
  ASSUME AllInv, NEW r \in Pks, UNCHANGED <<lineage, breached>>, ~Live(r)',
         \A s \in Pks \ {r} : RefreshToken'[s] = RefreshToken[s]
  PROVE  [Chain!Next]_(Chain!vars)
<1>1. \A s \in Pks \ {r} : Counts(s)' <=> Counts(s)
  BY DEF Counts, Live, Exists
<1>2. CASE Counts(r)
  <2>1. lineage[r].origin # Null
    BY <1>2 DEF Counts, Live, AllInv, ChainInv, FamilyNamesOrigin
  <2>2. Status[r] = "live" /\ Status' = [Status EXCEPT ![r] = "spent"]
    BY <1>1, <1>2, <2>1 DEF Status, Counts
  <2>3. Chain!Revoke(r)
    BY <2>2 DEF Chain!Revoke
  <2>4. QED
    BY <2>3 DEF Chain!Next
<1>3. CASE ~Counts(r)
  BY <1>1, <1>3, Stutters DEF Counts
<1>4. QED
  BY <1>2, <1>3

LEMMA RevokesRefine ==
  ASSUME AllInv, NEW r \in Pks, UNCHANGED <<lineage, breached>>,
         \/ Revoke(r)
         \/ Live(r) /\ RefreshToken' = [RefreshToken EXCEPT ![r] = RevokedRow(r)]
         \/ UNCHANGED RefreshToken
  PROVE  [Chain!Next]_(Chain!vars)
<1>1. CASE UNCHANGED RefreshToken
  BY <1>1, Stutters DEF Counts, Live, Exists
<1>2. CASE Live(r) /\ RefreshToken' = [RefreshToken EXCEPT ![r] = RevokedRow(r)]
  <2>1. RevokedRow(r).revoked = now
    BY <1>2, RowTypes DEF AllInv, Inv, Live, RevokedRow, RefreshRow
  <2>2. RefreshToken'[r].revoked = now /\ now # Null
    <3>1. now # Null
      BY ConstantsAssumption DEF AllInv, Inv, TypeOK, Time, Null
    <3>2. QED
      BY <1>2, <2>1, <3>1 DEF AllInv, Inv, TypeOK
  <2>3. \A s \in Pks \ {r} : RefreshToken'[s] = RefreshToken[s]
    BY <1>2 DEF AllInv, Inv, TypeOK
  <2>4. QED
    BY <2>2, <2>3, RevokingRefines DEF Live
<1>3. QED
  BY <1>1, <1>2 DEF Revoke

\* The first pair of a chain
LEMMA IssueTokensRefines ==
  ASSUME OneByOne, AllInv, NEW c \in Clients, NEW scope \in SUBSET Scopes,
         IssueTokens(c, scope)
  PROVE  [Chain!Next]_(Chain!vars)
<1>1. PICK n \in Pks : n = nextPk /\ n # Null
  <2>1. Cardinality({p \in Workers : Busy(p)}) \in Nat
    BY FS_Subset, FS_CardinalityType, ConstantsAssumption
  <2>2. QED
    BY <2>1, ConstantsAssumption DEF IssueTokens, KeyLeft, AllInv, Inv, TypeOK, Pks, Null
<1> DEFINE child == NewRefresh(c, nextPk, nextPk)
           link == [origin |-> n, parent |-> Null, granted |-> scope]
<1>2. /\ RefreshToken' = [RefreshToken EXCEPT ![n] = child]
      /\ lineage' = [lineage EXCEPT ![n] = link]
      /\ UNCHANGED breached
  BY <1>1 DEF IssueTokens
<1>3. child \in RefreshRow /\ child.revoked = Null /\ child.token_family = n
  BY <1>1, ConstantsAssumption DEF NewRefresh, RefreshRow, Ref, Pks, Null
<1>4. link.origin = n /\ link.parent = Null
  OBVIOUS
<1> HIDE DEF child, link
<1>5. /\ RefreshToken'[n] = child /\ lineage'[n] = link
      /\ \A r \in Pks \ {n} : RefreshToken'[r] = RefreshToken[r] /\ lineage'[r] = lineage[r]
  BY <1>1, <1>2 DEF AllInv, Inv, TypeOK
<1>6. n \notin breached /\ lineage[n].origin = Null /\ lineage[n].parent = Null
  BY <1>1, ConstantsAssumption
  DEF AllInv, ReuseInv, BreachedAreNamed, ChainInv, FreshHistory, Unborn, Pks
<1>7. Counts(n)'
  BY <1>2, <1>3, <1>5, <1>6, AbsentAssumption DEF Counts, Live, Exists
<1>8. \A r \in Pks \ {n} : Counts(r)' <=> Counts(r)
  BY <1>2, <1>5 DEF Counts, Live, Exists
<1>9. Status[n] = "unissued" /\ Status' = [Status EXCEPT ![n] = "live"]
  BY <1>1, <1>4, <1>5, <1>6, <1>7, <1>8 DEF Status, Counts
<1>10. /\ [r \in Pks |-> lineage'[r].origin] = [[r \in Pks |-> lineage[r].origin] EXCEPT ![n] = n]
       /\ [r \in Pks |-> lineage'[r].parent] = [r \in Pks |-> lineage[r].parent]
  BY <1>4, <1>5, <1>6
<1>11. Chain!Issue(n)
  BY <1>9, <1>10 DEF Chain!Issue
<1>12. QED
  BY <1>11 DEF Chain!Next

\* One refresh: the old token is live when its successor is created.
LEMMA RotateRefines ==
  ASSUME OneByOne, AllInv, NEW p \in Workers, Rotate(p)
  PROVE  [Chain!Next]_(Chain!vars)
<1>1. PICK r \in Pks : r = request[p].rt
  BY DEF Rotate, AllInv, Inv, RequestsSound
<1>2. PICK n \in Pks : n = nextPk /\ n # r
  BY <1>1, RotateRows DEF AllInv
<1>3. UNCHANGED breached
  BY DEF Rotate
<1>4. Counts(r)
  BY <1>1 DEF Rotate, AllInv, ReuseInv, HeldAreLive, Counts
<1>5. /\ RefreshToken'[n] # Absent /\ RefreshToken'[n].revoked = Null
      /\ RefreshToken'[n].token_family = RefreshToken[r].token_family
      /\ RefreshToken'[r].revoked = now
      /\ \A s \in Pks \ {n, r} : RefreshToken'[s] = RefreshToken[s]
  BY <1>1, <1>2, <1>4, RotateRows, AbsentAssumption DEF AllInv, Counts
<1>6. now # Null
  BY ConstantsAssumption DEF AllInv, Inv, TypeOK, Time, Null
<1>7. Counts(n)' /\ ~Counts(r)' /\ \A s \in Pks \ {n, r} : Counts(s)' <=> Counts(s)
  BY <1>3, <1>4, <1>5, <1>6 DEF Counts, Live, Exists
<1>8. /\ lineage'[n].origin = lineage[r].origin /\ lineage'[n].parent = r
      /\ \A s \in Pks \ {n} : lineage'[s] = lineage[s]
  BY <1>1, <1>2, RotateRows DEF AllInv, Inv, TypeOK
<1>9. lineage[n].origin = Null /\ lineage[r].origin # Null
  BY <1>2, <1>4, ConstantsAssumption
  DEF Counts, Live, AllInv, ChainInv, FamilyNamesOrigin, FreshHistory, Unborn, Pks
<1>10. /\ Status[r] = "live" /\ Status[n] = "unissued"
       /\ Status' = [Status EXCEPT ![r] = "spent", ![n] = "live"]
  <2>1. Status[r] = "live" /\ Status[n] = "unissued"
    BY <1>4, <1>9 DEF Status, Counts
  <2>2. \A s \in Pks : lineage'[s].origin = Null
                        <=> (lineage[s].origin = Null /\ s # n)
    BY <1>8, <1>9
  <2>3. \A s \in Pks : Status'[s] = CASE s = r -> "spent" [] s = n -> "live"
                                        [] OTHER -> Status[s]
    BY <1>2, <1>7, <1>9, <2>2 DEF Status, Counts
  <2>4. Status \in [Pks -> {"unissued", "live", "spent"}]
    BY DEF Status
  <2>5. Status' = [s \in Pks |-> Status'[s]]
    BY DEF Status
  <2>6. QED
    BY <1>2, <2>1, <2>3, <2>4, <2>5
<1>11. /\ [s \in Pks |-> lineage'[s].origin]
            = [[s \in Pks |-> lineage[s].origin] EXCEPT ![n] = lineage[r].origin]
       /\ [s \in Pks |-> lineage'[s].parent]
            = [[s \in Pks |-> lineage[s].parent] EXCEPT ![n] = r]
  BY <1>8
<1>12. Chain!Refresh(r, n)
  BY <1>10, <1>11 DEF Chain!Refresh
<1>13. QED
  BY <1>12 DEF Chain!Next

\* A reuse that is detected ends the chain: all its rows bear the family.
LEMMA DetectReuseRefines ==
  ASSUME OneByOne, AllInv, NEW p \in Workers, NEW r \in Pks, DetectReuse(p, r)
  PROVE  [Chain!Next]_(Chain!vars)
<1>1. /\ UNCHANGED <<RefreshToken, lineage>> /\ Exists(r)
      /\ RefreshToken[r].token_family # Null
      /\ breached' = breached \cup {RefreshToken[r].token_family}
  BY DEF DetectReuse, IsFirst, ProtectedFamily, db
<1>2. PICK o \in Pks : o = lineage[r].origin
  BY <1>1, ConstantsAssumption
  DEF AllInv, ChainInv, FamilyNamesOrigin, Inv, TypeOK, Lineage, Ref, Pks, Null
<1>3. RefreshToken[r].token_family = o /\ o # Null
  BY <1>1, <1>2 DEF AllInv, ChainInv, FamilyNamesOrigin
<1>4. \A s \in Pks : Exists(s) => (RefreshToken[s].token_family = o <=> lineage[s].origin = o)
  BY <1>1, <1>2, <1>3 DEF AllInv, ChainInv, FamilyNamesOrigin, ChainsAgree
<1>5. \A s \in Pks : Counts(s)' <=> Counts(s) /\ lineage[s].origin # o
  BY <1>1, <1>3, <1>4 DEF Counts, Live, Exists
<1>6. Status' = [s \in Pks |-> IF lineage[s].origin = o THEN "spent" ELSE Status[s]]
  BY <1>1, <1>3, <1>5 DEF Status, Counts
<1>7. Chain!EndChain(o)
  BY <1>1, <1>6 DEF Chain!EndChain
<1>8. QED
  BY <1>7 DEF Chain!Next

LEMMA RemovalsRefine ==
  ASSUME AllInv, NEW k \in Pks,
         RevokeRefreshToken(k) \/ CleanRefreshToken(k) \/ DeleteAccessToken(k)
  PROVE  [Chain!Next]_(Chain!vars)
<1>1. UNCHANGED <<lineage, breached>>
  BY DEF RevokeRefreshToken, CleanRefreshToken, DeleteAccessToken, hist
<1>2. CASE RevokeRefreshToken(k)
  BY <1>1, <1>2, RevokesRefine DEF RevokeRefreshToken
<1>3. CASE CleanRefreshToken(k)
  <2>1. ~Live(k)' /\ \A s \in Pks \ {k} : RefreshToken'[s] = RefreshToken[s]
    BY <1>3 DEF CleanRefreshToken, Live, Exists, AllInv, Inv, TypeOK
  <2>2. QED
    BY <1>1, <2>1, RevokingRefines
<1>4. CASE DeleteAccessToken(k)
  <2>1. ASSUME NEW r \in PairOf(k)
        PROVE  LET row == [RefreshToken[r] EXCEPT !.access_token = Null] IN
               /\ Exists(r) /\ row \in RefreshRow
               /\ row.token_family = RefreshToken[r].token_family
               /\ row.revoked = RefreshToken[r].revoked
    BY RowTypes, ConstantsAssumption DEF PairOf, AllInv, Inv, RefreshRow, Ref, Null
  <2>2. \A r \in Pks : Counts(r)' <=> Counts(r)
    BY <1>1, <1>4, <2>1, AbsentAssumption DEF DeleteAccessToken, Counts, Live, Exists
  <2>3. QED
    BY <1>1, <2>2, Stutters
<1>5. QED
  BY <1>2, <1>3, <1>4

LEMMA StepRefines ==
  ASSUME OneByOne, AllInv, [Next]_vars
  PROVE  [Chain!Next]_(Chain!vars)
<1>1. CASE UNCHANGED <<RefreshToken, lineage, breached>>
  BY <1>1, Stutters DEF Counts, Live, Exists
<1>2. ASSUME NEW p \in Workers, NEW r \in Pks, RevokeFamilyMember(p, r)
      PROVE  [Chain!Next]_(Chain!vars)
  BY <1>2, RevokesRefine DEF RevokeFamilyMember, hist
<1>3. ASSUME NEW p \in Workers, Replay(p) PROVE [Chain!Next]_(Chain!vars)
  <2>1. request[p].rt \in Pks
    BY <1>3 DEF Replay, AllInv, Inv, RequestsSound
  <2>2. QED
    BY <1>3, <2>1, RevokesRefine DEF Replay, hist
<1>4. QED
  BY <1>1, <1>2, <1>3, IssueTokensRefines, RotateRefines, DetectReuseRefines, RemovalsRefine
  DEF Next, Start, Acquire, Proceed, Environment, RejectUnknown, RejectRevoked, RejectClient,
      Accept, GetOriginalScopes, InvalidScope, UpdateInPlace, UpdateInPlaceFails,
      LockRefreshToken, LockRefreshTokenFails, ReplayFails, SendSignal, Tick, db, hist, vars

\* The endpoint implements one-time tokens: each refresh is one step of a chain in which
\* a token is good for one refresh, and a reuse ends the chain for good.
THEOREM OneTimeTokensImplemented == ASSUME OneByOne PROVE Spec => ImplementsOneTimeTokens
<1>1. Init => Chain!Init
  BY InitRefines
<1>2. AllInv /\ [Next]_vars => [Chain!Next]_(Chain!vars)
  BY StepRefines
<1>3. QED
  BY <1>1, <1>2, AllInvariance, PTL DEF Spec, ImplementsOneTimeTokens, Chain!Spec
=============================================================================
