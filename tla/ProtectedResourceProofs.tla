---------------------- MODULE ProtectedResourceProofs ----------------------
(***************************************************************************)
(* Proofs about ProtectedResource, for every number of workers, tokens and *)
(* views, every way the views are guarded, every caching time and every    *)
(* time zone.                                                              *)
(***************************************************************************)
EXTENDS ProtectedResource, TLAPS

LEMMA RowTypes ==
  ASSUME TypeOK
  PROVE  /\ \A t \in Tokens : Issued[t] # Absent => Issued[t] \in IssuedRow
         /\ \A t \in Tokens : AccessToken[t] # Absent => AccessToken[t] \in Row
         /\ \A p \in Workers : request[p] # Absent => request[p] \in Request
         /\ now \in Nat /\ MaxCachingTime \in Nat
BY ConstantsAssumption DEF TypeOK, Time, MaxCachingTime

LEMMA Readings ==
  /\ AUTHENTICATION_SERVER_EXP_TIME_ZONE \in Int /\ ExpTimeZone \in Int /\ TIME_ZONE \in Int
  /\ USE_TZ \in BOOLEAN /\ ExpDelay \in Int /\ CapDelay \in Int /\ ClockDelay \in Int
BY ConstantsAssumption DEF ExpDelay, CapDelay, ClockDelay, Later

LEMMA InitInv == Init => Inv
BY ConstantsAssumption
DEF Init, Inv, TypeOK, CacheSound, RequestsSound, ListsSound, RowSound, Busy, Steps, Answers,
    Time

\* What rows say of a token stays true while the token keeps its row and the
\* clock does not go back; when the token goes, the caching time starts anew.
RowsStay ==
  /\ \A t \in Tokens, row \in Row \cup {Absent} : RowSound(row, t) => RowSound(row, t)'
  /\ \A t \in Tokens, answer \in Content \cup {Absent} :
       AnswerSound(answer, t) => AnswerSound(answer, t)'

LEMMA SoundRowsStay ==
  ASSUME Inv,
         \A t \in Tokens : Issued[t] # Absent => Issued'[t] = Issued[t],
         now' \in Nat, now <= now',
         \A t \in Tokens : gone'[t] \in {gone[t], now}
  PROVE  RowsStay /\ \A t \in Tokens : gone'[t] <= now'
<1>1. \A t \in Tokens : gone[t] \in Nat /\ gone[t] <= now
  BY DEF Inv, TypeOK, CacheSound
<1>2. now \in Nat /\ RESOURCE_SERVER_TOKEN_CACHING_SECONDS \in Nat
  BY RowTypes, ConstantsAssumption DEF Inv
<1>3. \A t \in Tokens, row \in Row : RowSound(row, t) => RowSound(row, t)'
  <2>1. SUFFICES ASSUME NEW t \in Tokens, NEW row \in Row, RowSound(row, t)
        PROVE  RowSound(row, t)'
    OBVIOUS
  <2>2. row.expires \in Int /\ CapDelay \in Int
    BY Readings DEF Row
  <2>3. PICK m \in Nat, n \in Nat : m = now /\ n = now'
    BY <1>2
  <2>4. PICK c \in Nat : c = RESOURCE_SERVER_TOKEN_CACHING_SECONDS
    BY <1>2
  <2>5. MaxCachingTime = m + c /\ MaxCachingTime' = n + c
    BY <2>3, <2>4 DEF MaxCachingTime
  <2>6. m <= n
    BY <2>3
  <2>7. row # Absent
    BY AbsentAssumption
  <2>8. /\ Issued'[t] = Issued[t] /\ Issued[t] # Absent
        /\ row.scope = Issued'[t].scope
        /\ t \in Dated => row.expires <= Issued'[t].expires + ExpDelay
    BY <2>1, <2>7 DEF RowSound
  <2>9. row.expires <= MaxCachingTime' + CapDelay
    <3>1. PICK e \in Int, d \in Int : e = row.expires /\ d = CapDelay
      BY <2>2
    <3>2. e <= (m + c) + d
      BY <2>1, <2>5, <2>7, <3>1 DEF RowSound
    <3>3. e <= (n + c) + d
      BY <2>6, <3>2
    <3>4. QED
      BY <2>5, <3>1, <3>3
  <2>10. gone'[t] # 0 =>
          row.expires <= gone'[t] + RESOURCE_SERVER_TOKEN_CACHING_SECONDS + CapDelay
    <3>1. CASE gone'[t] = gone[t]
      BY <2>1, <2>7, <3>1 DEF RowSound
    <3>2. CASE gone'[t] = now
      BY <2>1, <2>7, <3>2 DEF RowSound, MaxCachingTime
    <3>3. QED
      BY <3>1, <3>2
  <2>11. QED
    BY <2>8, <2>9, <2>10 DEF RowSound
<1>4. \A t \in Tokens, answer \in Content \cup {Absent} :
        AnswerSound(answer, t) => AnswerSound(answer, t)'
  BY DEF AnswerSound, Told
<1>5. QED
  BY <1>1, <1>2, <1>3, <1>4 DEF RowsStay, RowSound

\* A step in which worker p alone moves: what has to be shown of p
LEMMA WorkerInv ==
  ASSUME Inv, NEW p \in Workers, TypeOK', RowsStay,
         \A q \in Workers \ {p} : pc'[q] = pc[q] /\ request'[q] = request[q],
         CacheSound', ListsSound',
         Busy(p)' =>
           /\ request'[p] # Absent
           /\ RowSound(request[p].row, request[p].token)'
           /\ AnswerSound(request[p].answer, request[p].token)'
  PROVE  Inv'
<1>1. ASSUME NEW q \in Workers \ {p}, Busy(q)'
      PROVE  /\ request'[q] # Absent
             /\ RowSound(request[q].row, request[q].token)'
             /\ AnswerSound(request[q].answer, request[q].token)'
  <2>1. Busy(q) /\ request'[q] = request[q]
    BY <1>1 DEF Busy
  <2>2. request[q] # Absent /\ request[q] \in Request
    BY <2>1, RowTypes DEF Inv, RequestsSound
  <2>3. request[q].row \in Row \cup {Absent} /\ request[q].token \in Tokens
    BY <2>2 DEF Request
  <2>4. RowSound(request[q].row, request[q].token)
    BY <2>1 DEF Inv, RequestsSound
  <2> DEFINE row == request[q].row
             t == request[q].token
  <2>5. \A r \in Row \cup {Absent}, u \in Tokens :
          r = request'[q].row /\ u = request'[q].token /\ RowSound(r, u)'
            => RowSound(request[q].row, request[q].token)'
    BY DEF RowSound
  <2>6. RowSound(request[q].row, request[q].token)'
    BY <2>1, <2>3, <2>4, <2>5 DEF RowsStay
  <2>7. AnswerSound(request[q].answer, request[q].token)'
    <3>1. request[q].answer \in Content \cup {Absent}
      BY <2>2 DEF Request
    <3>2. AnswerSound(request[q].answer, request[q].token)
      BY <2>1 DEF Inv, RequestsSound
    <3>3. \A a \in Content \cup {Absent}, u \in Tokens :
            a = request'[q].answer /\ u = request'[q].token /\ AnswerSound(a, u)'
              => AnswerSound(request[q].answer, request[q].token)'
      BY DEF AnswerSound, Told
    <3>4. QED
      BY <2>1, <2>3, <3>1, <3>2, <3>3 DEF RowsStay
  <2>8. QED
    BY <2>1, <2>2, <2>6, <2>7
<1>2. RequestsSound'
  BY <1>1 DEF RequestsSound
<1>3. QED
  BY <1>2 DEF Inv

\* The clock and the tables of tokens move only as far as the rows allow.
LEMMA Quiet ==
  ASSUME Inv, UNCHANGED <<now, Issued, gone>>
  PROVE  RowsStay
BY DEF RowsStay, RowSound, AnswerSound, Told, MaxCachingTime

LEMMA CacheUnchanged ==
  ASSUME Inv, UNCHANGED <<now, Issued, gone, AccessToken>>
  PROVE  CacheSound'
BY DEF Inv, CacheSound, RowSound, MaxCachingTime

\* An answer ends a request without touching a table.
LEMMA AnswerInv ==
  ASSUME Inv, NEW p \in Workers, NEW status \in Answers, Answer(p, status),
         UNCHANGED <<now, Issued, gone, AccessToken, appended>>
  PROVE  Inv'
<1>1. /\ pc' = [pc EXCEPT ![p] = status]
      /\ request' = [request EXCEPT ![p] = Absent]
  BY DEF Answer, Goto
<1>2. TypeOK'
  BY <1>1 DEF Inv, TypeOK
<1>3. /\ ~Busy(p)'
      /\ \A q \in Workers \ {p} : pc'[q] = pc[q] /\ request'[q] = request[q]
  BY <1>1 DEF Inv, TypeOK, Busy, Answers, Steps
<1>4. RowsStay /\ CacheSound' /\ ListsSound'
  BY Quiet, CacheUnchanged DEF Inv, ListsSound
<1>5. QED
  BY <1>2, <1>3, <1>4, WorkerInv

\* A request goes on, or begins, with rec for what is kept of it.
LEMMA StepInv ==
  ASSUME Inv, NEW p \in Workers, NEW step \in Steps, NEW rec \in Request,
         pc' = [pc EXCEPT ![p] = step],
         request' = [request EXCEPT ![p] = rec],
         UNCHANGED <<now, Issued, gone, AccessToken>>,
         appended' \in [Views -> SUBSET Scopes],
         ListsSound',
         RowSound(rec.row, rec.token),
         AnswerSound(rec.answer, rec.token)
  PROVE  Inv'
<1>1. TypeOK'
  BY DEF Inv, TypeOK
<1>2. /\ request'[p] = rec /\ rec # Absent
      /\ \A q \in Workers \ {p} : pc'[q] = pc[q] /\ request'[q] = request[q]
  BY AbsentAssumption DEF Inv, TypeOK
<1>3. /\ RowSound(request[p].row, request[p].token)'
      /\ AnswerSound(request[p].answer, request[p].token)'
  BY <1>2 DEF RowSound, AnswerSound, Told, MaxCachingTime
<1>4. RowsStay /\ CacheSound'
  BY Quiet, CacheUnchanged
<1>5. QED
  BY <1>1, <1>2, <1>3, <1>4, WorkerInv

LEMMA PassViewInv ==
  ASSUME Inv, NEW p \in Workers, NEW v \in Views, NEW m \in Methods, NEW session \in BOOLEAN,
         PassView(p, v, m, session)
  PROVE  Inv'
BY AnswerInv DEF PassView, Answers

LEMMA EnterViewInv ==
  ASSUME Inv, NEW p \in Workers, NEW v \in Views, NEW m \in Methods, NEW t \in Tokens,
         NEW session \in BOOLEAN, EnterView(p, v, m, t, session)
  PROVE  Inv'
<1> DEFINE rec == NewRequest(v, m, t, session)
<1>1. /\ request' = [request EXCEPT ![p] = rec]
      /\ pc' = [pc EXCEPT ![p] = "loading"]
      /\ UNCHANGED <<now, Issued, gone, AccessToken>>
      /\ appended' = IF Kind[v] = "rw_protected_resource"
                     THEN [appended EXCEPT ![v] = @ \cup {MethodScope(m)}]
                     ELSE appended
  BY DEF EnterView, Goto
<1>2. rec \in Request /\ rec.row = Absent /\ rec.answer = Absent
  BY DEF NewRequest, Request
<1>3. MethodScope(m) \in Scopes
  BY ConstantsAssumption DEF MethodScope
<1>4. appended' \in [Views -> SUBSET Scopes] /\ ListsSound'
  BY <1>1, <1>3 DEF Inv, TypeOK, ListsSound
<1>5. RowSound(rec.row, rec.token) /\ AnswerSound(rec.answer, rec.token)
  BY <1>2 DEF RowSound, AnswerSound
<1> HIDE DEF rec
<1>6. QED
  BY <1>1, <1>2, <1>4, <1>5, StepInv DEF Steps

\* What is known of a request under way
LEMMA RequestKnown ==
  ASSUME Inv, NEW p \in Workers, Busy(p)
  PROVE  /\ request[p] \in Request
         /\ request[p].token \in Tokens /\ request[p].view \in Views
         /\ RowSound(request[p].row, request[p].token)
         /\ AnswerSound(request[p].answer, request[p].token)
<1>1. request[p] # Absent /\ request[p] \in Request
  BY RowTypes DEF Inv, RequestsSound
<1>2. QED
  BY <1>1 DEF Request, Inv, RequestsSound

LEMMA LoadAccessTokenInv ==
  ASSUME Inv, NEW p \in Workers, LoadAccessToken(p)
  PROVE  Inv'
<1> DEFINE row == AccessToken[request[p].token]
<1>1. pc[p] = "loading" /\ Busy(p) /\ UNCHANGED <<now, Issued, gone, AccessToken, appended>>
  BY DEF LoadAccessToken, Busy, Steps
<1>2. /\ request[p] \in Request /\ RowSound(request[p].row, request[p].token)
      /\ AnswerSound(request[p].answer, request[p].token)
      /\ request[p].token \in Tokens
  BY <1>1, RequestKnown
<1>3. appended' \in [Views -> SUBSET Scopes] /\ ListsSound'
  BY <1>1 DEF Inv, TypeOK, ListsSound
<1>4. CASE IsValid(row, Demanded(p))
  <2> DEFINE rec == [request[p] EXCEPT !.row = row]
  <2>1. request' = [request EXCEPT ![p] = rec] /\ pc' = [pc EXCEPT ![p] = "checking"]
    BY <1>4 DEF LoadAccessToken, Goto
  <2>2. row \in Row \cup {Absent} /\ RowSound(row, request[p].token)
    BY <1>2 DEF Inv, TypeOK, CacheSound
  <2>3. /\ rec \in Request /\ rec.token = request[p].token /\ rec.row = row
        /\ rec.answer = request[p].answer
    <3> HIDE DEF row
    <3>1. QED
      BY <1>2, <2>2 DEF Request
  <2> HIDE DEF rec, row
  <2>4. QED
    BY <1>1, <1>2, <1>3, <2>1, <2>2, <2>3, StepInv DEF Steps
<1>5. CASE ~IsValid(row, Demanded(p))
  <2>1. pc' = [pc EXCEPT ![p] = "asking"] /\ request' = request
    BY <1>5 DEF LoadAccessToken, Goto
  <2>2. request' = [request EXCEPT ![p] = request[p]]
    BY <2>1 DEF Inv, TypeOK
  <2>3. QED
    BY <1>1, <1>2, <1>3, <2>1, <2>2, StepInv DEF Steps
<1>6. QED
  BY <1>4, <1>5

LEMMA AnswerActiveInv ==
  ASSUME Inv, NEW p \in Workers, AnswerActive(p)
  PROVE  Inv'
<1> DEFINE t == request[p].token
           rec == [request[p] EXCEPT !.answer = Told(t)]
<1>1. /\ pc[p] = "asking" /\ Busy(p)
      /\ UNCHANGED <<now, Issued, gone, AccessToken, appended>>
      /\ request' = [request EXCEPT ![p] = rec]
      /\ pc' = [pc EXCEPT ![p] = "answered"]
  BY DEF AnswerActive, Busy, Steps, Goto
<1>2. /\ request[p] \in Request /\ t \in Tokens
      /\ RowSound(request[p].row, request[p].token)
  BY <1>1, RequestKnown
<1>3. Issued[t] # Absent /\ Told(t) \in Content
  <2>1. Issued[t] # Absent
    BY DEF AnswerActive, Active
  <2>2. Issued[t] \in IssuedRow
    BY <1>2, <2>1, RowTypes DEF Inv
  <2>3. QED
    BY <2>1, <2>2, ConstantsAssumption DEF Told, Content, IssuedRow, Time
<1>4. /\ rec \in Request /\ rec.token = t /\ rec.row = request[p].row
      /\ rec.answer = Told(t)
  BY <1>2, <1>3 DEF Request
<1>5. appended' \in [Views -> SUBSET Scopes] /\ ListsSound'
  BY <1>1 DEF Inv, TypeOK, ListsSound
<1>6. RowSound(rec.row, rec.token) /\ AnswerSound(rec.answer, rec.token)
  BY <1>2, <1>3, <1>4 DEF AnswerSound
<1> HIDE DEF rec, t
<1>7. QED
  BY <1>1, <1>4, <1>5, <1>6, StepInv DEF Steps

\* A step that only moves the program counter of a request
LEMMA MoveInv ==
  ASSUME Inv, NEW p \in Workers, Busy(p), NEW step \in Steps, Goto(p, step),
         UNCHANGED <<now, Issued, gone, AccessToken, appended, request>>
  PROVE  Inv'
<1>1. /\ request[p] \in Request /\ RowSound(request[p].row, request[p].token)
      /\ AnswerSound(request[p].answer, request[p].token)
  BY RequestKnown
<1>2. /\ request' = [request EXCEPT ![p] = request[p]]
      /\ appended' \in [Views -> SUBSET Scopes] /\ ListsSound'
      /\ UNCHANGED <<now, Issued, gone, AccessToken>>
      /\ pc' = [pc EXCEPT ![p] = step]
  BY DEF Inv, TypeOK, ListsSound, Goto
<1>3. QED
  BY <1>1, <1>2, StepInv

LEMMA AnswerNoneInv ==
  ASSUME Inv, NEW p \in Workers, AnswerNone(p)
  PROVE  Inv'
BY MoveInv DEF AnswerNone, Busy, Steps

LEMMA TakeNoAnswerInv ==
  ASSUME Inv, NEW p \in Workers, TakeNoAnswer(p)
  PROVE  Inv'
BY MoveInv DEF TakeNoAnswer, Busy, Steps

\* The cached row is never good for longer than the token, or than the caching
\* time, but for the zones of the readings.
LEMMA CachedRowIsCapped ==
  ASSUME NEW t \in Tokens, Issued[t] \in IssuedRow, now \in Time
  PROVE  LET row == CachedRow(Told(t)) IN
         /\ row.scope = Issued[t].scope
         /\ t \in Dated => row.expires <= Issued[t].expires + ExpDelay
         /\ row.expires <= MaxCachingTime + CapDelay
         /\ row \in Row
<1> DEFINE exp == Told(t).exp
           row == CachedRow(Told(t))
<1>1. /\ Issued[t].scope \in SUBSET Scopes /\ Issued[t].expires \in Nat
      /\ MaxCachingTime \in Nat
  BY ConstantsAssumption DEF IssuedRow, Time, MaxCachingTime
<1>2. /\ exp = IF t \in Dated THEN Issued[t].expires + ExpTimeZone ELSE Absent
      /\ t \in Dated => exp \in Int /\ exp # Absent
      /\ Told(t).scope = Issued[t].scope
  BY <1>1, Readings, AbsentAssumption DEF Told
<1>3. /\ row.scope = Issued[t].scope
      /\ row = [scope |-> row.scope, expires |-> row.expires]
      /\ row.expires =
           IF exp = Absent \/ Instant(exp) > MaxCachingTime THEN MaxCachingTime
           ELSE IF USE_TZ THEN Instant(exp) ELSE exp
  BY <1>2 DEF CachedRow
<1>4. CASE exp = Absent
  <2>1. row.expires = MaxCachingTime /\ t \notin Dated
    BY <1>2, <1>3, <1>4
  <2>2. MaxCachingTime <= MaxCachingTime + CapDelay
    BY <1>1, Readings DEF CapDelay, Later
  <2>3. QED
    BY <1>1, <1>3, <2>1, <2>2 DEF Row
<1>5. CASE exp # Absent
  <2>1. t \in Dated /\ exp = Issued[t].expires + ExpTimeZone /\ exp \in Int
    BY <1>2, <1>5
  <2>2. PICK e \in Int : e = exp
    BY <2>1
  <2>3. row.expires = IF Instant(e) > MaxCachingTime THEN MaxCachingTime
                      ELSE IF USE_TZ THEN Instant(e) ELSE e
    BY <1>3, <1>5, <2>2
  <2>4. e = Issued[t].expires + ExpTimeZone
    BY <2>1, <2>2
  <2> HIDE DEF row, exp
  <2>5. row.expires \in Int
    BY <1>1, <2>2, <2>3, Readings DEF Instant
  <2>6. row.expires <= Issued[t].expires + ExpDelay
    BY <1>1, <2>3, <2>4, Readings DEF Instant, ExpDelay, Later
  <2>7. row.expires <= MaxCachingTime + CapDelay
    BY <1>1, <2>3, Readings DEF Instant, CapDelay, Later
  <2>8. row \in Row
    BY <1>1, <1>3, <2>5 DEF Row
  <2>9. QED
    BY <1>3, <2>6, <2>7, <2>8 DEF row
<1>6. QED
  BY <1>4, <1>5

\* An answer that was under way when the token was revoked confirms it once more:
\* the caching time is counted from its arrival.
LEMMA CacheAnswerInv ==
  ASSUME Inv, NEW p \in Workers, CacheAnswer(p)
  PROVE  Inv'
<1>1. pc[p] = "answered" /\ Busy(p) /\ request[p].answer # Absent
  BY DEF CacheAnswer, Busy, Steps
<1>2. PICK t \in Tokens : t = request[p].token
  BY <1>1, RequestKnown
<1>3. request[p] \in Request /\ request[p].answer = Told(t) /\ Issued[t] # Absent
  BY <1>1, <1>2, RequestKnown DEF AnswerSound
<1>4. Issued[t] \in IssuedRow
  BY <1>3, RowTypes DEF Inv
<1>5. /\ now \in Time /\ now \in Nat /\ now \in 0..MaxTime
      /\ gone[t] \in 0..MaxTime /\ gone[t] <= now
  BY ConstantsAssumption DEF Inv, TypeOK, CacheSound, Time
<1>6. PICK row \in Row :
        /\ row = CachedRow(Told(t))
        /\ row.scope = Issued[t].scope
        /\ t \in Dated => row.expires <= Issued[t].expires + ExpDelay
        /\ row.expires <= MaxCachingTime + CapDelay
  BY <1>4, <1>5, CachedRowIsCapped
<1>7. PICK rec \in Request :
        /\ rec = [request[p] EXCEPT !.row = row, !.answer = Absent]
        /\ rec.row = row /\ rec.answer = Absent /\ rec.token = t
  <2>1. [request[p] EXCEPT !.row = row, !.answer = Absent] \in Request
    BY <1>3 DEF Request
  <2>2. QED
    BY <1>2, <1>3, <2>1 DEF Request
<1>8. /\ UNCHANGED <<now, Issued, appended>>
      /\ AccessToken' = [AccessToken EXCEPT ![t] = row]
      /\ gone' = [gone EXCEPT ![t] = IF @ = 0 THEN 0 ELSE now]
      /\ request' = [request EXCEPT ![p] = rec]
      /\ pc' = [pc EXCEPT ![p] = "checking"]
  BY <1>2, <1>3, <1>4, <1>6, <1>7 DEF CacheAnswer, Goto
<1>9. TypeOK'
  BY <1>5, <1>8 DEF Inv, TypeOK, Steps
<1>10. \A u \in Tokens : gone'[u] \in {gone[u], now}
  BY <1>8 DEF Inv, TypeOK
<1>11. RowsStay /\ \A u \in Tokens : gone'[u] <= now'
  BY <1>5, <1>8, <1>10, SoundRowsStay
<1>12. RowSound(row, t)'
  <2>1. gone'[t] # 0 => gone'[t] = now
    BY <1>8 DEF Inv, TypeOK
  <2>2. QED
    BY <1>3, <1>6, <1>8, <2>1 DEF RowSound, MaxCachingTime
<1>13. CacheSound'
  <2>1. ASSUME NEW u \in Tokens PROVE RowSound(AccessToken[u], u)'
    <3>1. CASE u = t
      <4>1. AccessToken'[u] = row
        BY <1>8, <3>1 DEF Inv, TypeOK
      <4>2. QED
        BY <1>12, <3>1, <4>1 DEF RowSound
    <3>2. CASE u # t
      <4>1. PICK old \in Row \cup {Absent} : old = AccessToken[u]
        BY DEF Inv, TypeOK
      <4>2. AccessToken'[u] = old
        BY <1>8, <3>2, <4>1 DEF Inv, TypeOK
      <4>3. RowSound(old, u)'
        BY <1>11, <4>1 DEF RowsStay, Inv, CacheSound
      <4>4. QED
        BY <4>2, <4>3 DEF RowSound
    <3>3. QED
      BY <3>1, <3>2
  <2>2. QED
    BY <1>11, <2>1 DEF CacheSound
<1>14. /\ ListsSound' /\ request'[p] = rec /\ rec # Absent
       /\ \A q \in Workers \ {p} : pc'[q] = pc[q] /\ request'[q] = request[q]
  BY <1>8, AbsentAssumption DEF Inv, TypeOK, ListsSound
<1>15. /\ RowSound(request[p].row, request[p].token)'
       /\ AnswerSound(request[p].answer, request[p].token)'
  BY <1>7, <1>12, <1>14 DEF RowSound, AnswerSound, MaxCachingTime
<1>16. QED
  BY <1>7, <1>8, <1>9, <1>11, <1>13, <1>14, <1>15, WorkerInv

LEMMA VerifyInv ==
  ASSUME Inv, NEW p \in Workers, Verify(p)
  PROVE  Inv'
<1> DEFINE rest == Kind[request[p].view] \in RestKinds
           valid == IsValid(request[p].row, Demanded(p))
<1>1. pc[p] = "checking" /\ Busy(p) /\ UNCHANGED <<now, Issued, gone, AccessToken, appended>>
  BY DEF Verify, Busy, Steps
<1>2. CASE rest /\ (valid \/ request[p].session)
  <2>1. /\ request[p] \in Request /\ RowSound(request[p].row, request[p].token)
        /\ AnswerSound(request[p].answer, request[p].token)
    BY <1>1, RequestKnown
  <2> DEFINE rec == [request[p] EXCEPT !.row = IF valid THEN @ ELSE Absent]
  <2>2. request' = [request EXCEPT ![p] = rec] /\ pc' = [pc EXCEPT ![p] = "permitting"]
    BY <1>2 DEF Verify, Goto, Answer
  <2>3. /\ rec \in Request /\ rec.token = request[p].token
        /\ rec.row \in {request[p].row, Absent} /\ rec.answer = request[p].answer
    <3> HIDE DEF valid
    <3>1. QED
      BY <2>1 DEF Request
  <2>4. RowSound(rec.row, rec.token)
    BY <2>1, <2>3 DEF RowSound
  <2>5. appended' \in [Views -> SUBSET Scopes] /\ ListsSound'
    BY <1>1 DEF Inv, TypeOK, ListsSound
  <2> HIDE DEF rec
  <2>6. QED
    BY <1>1, <2>1, <2>2, <2>3, <2>4, <2>5, StepInv DEF Steps
<1>3. CASE ~(rest /\ (valid \/ request[p].session))
  <2>1. \E status \in Answers : Answer(p, status)
    BY <1>3 DEF Verify, Refusal, Answers
  <2>2. QED
    BY <1>1, <2>1, AnswerInv
<1>4. QED
  BY <1>2, <1>3

LEMMA HasPermissionInv ==
  ASSUME Inv, NEW p \in Workers, HasPermission(p)
  PROVE  Inv'
<1>1. \E status \in Answers : Answer(p, status)
  BY DEF HasPermission, Refusal, Answers
<1>2. QED
  BY <1>1, AnswerInv DEF HasPermission

\* A step of the tables or of the clock, in which no request moves
LEMMA TablesInv ==
  ASSUME Inv, TypeOK', RowsStay, UNCHANGED <<pc, request, appended>>,
         \A t \in Tokens : Issued[t] # Absent => Issued'[t] = Issued[t],
         \A t \in Tokens : gone'[t] <= now',
         \A t \in Tokens : AccessToken'[t] \in {AccessToken[t], Absent}
  PROVE  Inv'
<1>1. ASSUME NEW t \in Tokens PROVE RowSound(AccessToken[t], t)'
  <2>1. PICK row \in Row \cup {Absent} : row = AccessToken'[t]
    BY DEF TypeOK
  <2>2. RowSound(row, t)
    BY <2>1 DEF Inv, CacheSound, RowSound
  <2>3. RowSound(row, t)'
    BY <2>2 DEF RowsStay
  <2>4. QED
    BY <2>1, <2>3 DEF RowSound
<1>2. ASSUME NEW q \in Workers, Busy(q)'
      PROVE  /\ request'[q] # Absent
             /\ RowSound(request[q].row, request[q].token)'
             /\ AnswerSound(request[q].answer, request[q].token)'
  <2>1. Busy(q) /\ request'[q] = request[q]
    BY <1>2 DEF Busy
  <2>2. /\ request[q] # Absent /\ request[q] \in Request
        /\ AnswerSound(request[q].answer, request[q].token)
        /\ RowSound(request[q].row, request[q].token)
    BY <2>1, RequestKnown DEF Inv, RequestsSound
  <2>3. PICK row \in Row \cup {Absent}, t \in Tokens :
          row = request[q].row /\ t = request[q].token
    BY <2>2 DEF Request
  <2>4. RowSound(row, t)'
    BY <2>2, <2>3 DEF RowsStay
  <2>5. RowSound(request[q].row, request[q].token)'
    BY <2>1, <2>3, <2>4 DEF RowSound
  <2>6. AnswerSound(request[q].answer, request[q].token)'
    <3>1. PICK answer \in Content \cup {Absent} : answer = request[q].answer
      BY <2>2 DEF Request
    <3>2. AnswerSound(answer, t)'
      BY <2>2, <2>3, <3>1 DEF RowsStay
    <3>3. QED
      BY <2>1, <2>3, <3>1, <3>2 DEF AnswerSound, Told
  <2>7. QED
    BY <2>1, <2>2, <2>5, <2>6
<1>3. CacheSound'
  BY <1>1 DEF CacheSound
<1>4. RequestsSound' /\ ListsSound'
  BY <1>2 DEF RequestsSound, Inv, ListsSound
<1>5. QED
  BY <1>3, <1>4 DEF Inv

LEMMA IssueTokenInv ==
  ASSUME Inv, NEW t \in Tokens, NEW scope \in Grants[t], NEW expires \in 2..MaxTime,
         IssueToken(t, scope, expires)
  PROVE  Inv'
<1>1. scope \in SUBSET Scopes /\ expires \in 1..MaxTime
  BY ConstantsAssumption
<1>2. PICK row \in IssuedRow : row = [scope |-> scope, expires |-> expires]
  BY <1>1 DEF IssuedRow, Time
<1>3. /\ Issued[t] = Absent /\ Issued' = [Issued EXCEPT ![t] = row]
      /\ UNCHANGED <<now, gone, AccessToken, appended, pc, request>>
  BY <1>2 DEF IssueToken
<1>4. TypeOK' /\ \A u \in Tokens : Issued[u] # Absent => Issued'[u] = Issued[u]
  BY <1>3 DEF Inv, TypeOK
<1>5. RowsStay /\ \A u \in Tokens : gone'[u] <= now'
  BY <1>3, <1>4, RowTypes, SoundRowsStay DEF Inv, CacheSound
<1>6. QED
  BY <1>3, <1>4, <1>5, TablesInv

LEMMA RevokeTokenInv ==
  ASSUME Inv, NEW t \in Tokens, RevokeToken(t)
  PROVE  Inv'
<1>1. /\ gone' = [gone EXCEPT ![t] = now]
      /\ UNCHANGED <<now, Issued, AccessToken, appended, pc, request>>
  BY DEF RevokeToken
<1>2. TypeOK' /\ \A u \in Tokens : gone'[u] \in {gone[u], now}
  BY <1>1, ConstantsAssumption DEF Inv, TypeOK, Time
<1>3. RowsStay /\ \A u \in Tokens : gone'[u] <= now'
  BY <1>1, <1>2, RowTypes, SoundRowsStay DEF Inv
<1>4. QED
  BY <1>1, <1>2, <1>3, TablesInv

LEMMA ClearExpiredInv ==
  ASSUME Inv, NEW t \in Tokens, ClearExpired(t)
  PROVE  Inv'
<1>1. /\ AccessToken' = [AccessToken EXCEPT ![t] = Absent]
      /\ UNCHANGED <<now, Issued, gone, appended, pc, request>>
  BY DEF ClearExpired
<1>2. TypeOK' /\ \A u \in Tokens : AccessToken'[u] \in {AccessToken[u], Absent}
  BY <1>1 DEF Inv, TypeOK
<1>3. RowsStay /\ \A u \in Tokens : gone'[u] <= now'
  BY <1>1, Quiet DEF Inv, CacheSound
<1>4. QED
  BY <1>1, <1>2, <1>3, TablesInv

LEMMA TickInv ==
  ASSUME Inv, Tick
  PROVE  Inv'
<1>1. /\ now' = now + 1 /\ now < MaxTime
      /\ UNCHANGED <<Issued, gone, AccessToken, appended, pc, request>>
  BY DEF Tick
<1>2. TypeOK' /\ now' \in Nat /\ now <= now'
  BY <1>1, ConstantsAssumption DEF Inv, TypeOK, Time
<1>3. RowsStay /\ \A u \in Tokens : gone'[u] <= now'
  BY <1>1, <1>2, SoundRowsStay
<1>4. QED
  BY <1>1, <1>2, <1>3, TablesInv

LEMMA StutterInv == Inv /\ UNCHANGED vars => Inv'
BY DEF Inv, TypeOK, CacheSound, RequestsSound, ListsSound, RowSound, AnswerSound, Told,
       MaxCachingTime, Busy, vars

LEMMA StartInv ==
  ASSUME Inv, NEW p \in Workers, Start(p)
  PROVE  Inv'
<1>1. PICK asked \in Serves[p], session \in BOOLEAN :
        \/ PassView(p, asked[1], asked[2], session)
        \/ EnterView(p, asked[1], asked[2], asked[3], session)
  BY DEF Start
<1>2. asked[1] \in Views /\ asked[2] \in Methods /\ asked[3] \in Tokens
  BY ConstantsAssumption
<1>3. QED
  BY <1>1, <1>2, PassViewInv, EnterViewInv

LEMMA NextInv ==
  ASSUME Inv, [Next]_vars
  PROVE  Inv'
<1>1. CASE \E p \in Workers : Start(p)
  BY <1>1, StartInv
<1>2. CASE \E p \in Workers : AuthorizationServer(p)
  BY <1>2, AnswerActiveInv, AnswerNoneInv DEF AuthorizationServer
<1>3. CASE \E p \in Workers : Proceed(p)
  BY <1>3, LoadAccessTokenInv, CacheAnswerInv, TakeNoAnswerInv, VerifyInv, HasPermissionInv
  DEF Proceed
<1>4. CASE \E t \in Tokens : \E scope \in Grants[t], expires \in 2..MaxTime :
             IssueToken(t, scope, expires)
  BY <1>4, IssueTokenInv
<1>5. CASE \E t \in Tokens : RevokeToken(t) \/ ClearExpired(t)
  BY <1>5, RevokeTokenInv, ClearExpiredInv
<1>6. CASE Tick
  BY <1>6, TickInv
<1>7. CASE UNCHANGED vars
  BY <1>7, StutterInv
<1>8. QED
  BY <1>1, <1>2, <1>3, <1>4, <1>5, <1>6, <1>7 DEF Next

\* The inductive invariant holds in every state that can be reached.
THEOREM Invariance == Spec => []Inv
BY InitInv, NextInv, PTL DEF Spec

\* The tables, the lists and the requests keep their types.
THEOREM TypeCorrect == Spec => []TypeOK
<1>1. Inv => TypeOK
  BY DEF Inv
<1>2. QED
  BY <1>1, Invariance, PTL

-----------------------------------------------------------------------------
(* Who is answered "granted", and who "insufficient"                         *)

\* A worker leaves its request only in a step of its own.
LEMMA OthersStand ==
  ASSUME Inv, [Next]_vars, NEW p \in Workers, pc'[p] # pc[p]
  PROVE  Start(p) \/ AuthorizationServer(p) \/ Proceed(p)
<1>1. ASSUME NEW q \in Workers, q # p, Start(q) \/ AuthorizationServer(q) \/ Proceed(q)
      PROVE  FALSE
  <2>1. \E step : pc' = [pc EXCEPT ![q] = step]
    BY <1>1
    DEF Start, PassView, EnterView, AuthorizationServer, AnswerActive, AnswerNone, Proceed,
        LoadAccessToken, CacheAnswer, TakeNoAnswer, Verify, HasPermission, Answer, Goto
  <2>2. QED
    BY <1>1, <2>1 DEF Inv, TypeOK
<1>2. UNCHANGED vars \/ Tick \/ (\E t \in Tokens :
         \/ \E scope \in Grants[t], expires \in 2..MaxTime : IssueToken(t, scope, expires)
         \/ RevokeToken(t) \/ ClearExpired(t)) => pc' = pc
  BY DEF Tick, IssueToken, RevokeToken, ClearExpired, vars
<1>3. QED
  BY <1>1, <1>2 DEF Next

\* Who is answered "granted" or "insufficient" is so by the view's decorator, mixin
\* or middleware, or by the permission class.
LEMMA AnsweredBy ==
  ASSUME Inv, [Next]_vars, NEW p \in Workers,
         pc'[p] # pc[p], pc'[p] \in {"granted", "insufficient"}
  PROVE  Busy(p) /\ (Verify(p) \/ HasPermission(p))
<1>1. ASSUME NEW step \in Steps \cup {"passed"}, pc' = [pc EXCEPT ![p] = step]
      PROVE  FALSE
  BY <1>1 DEF Inv, TypeOK, Steps
<1>2. Verify(p) \/ HasPermission(p) \/
      \E step \in Steps \cup {"passed"} : pc' = [pc EXCEPT ![p] = step]
  BY OthersStand
  DEF Start, PassView, EnterView, AuthorizationServer, AnswerActive, AnswerNone, Proceed,
      LoadAccessToken, CacheAnswer, TakeNoAnswer, Answer, Goto, Steps
<1>3. QED
  BY <1>1, <1>2 DEF Verify, HasPermission, Busy, Steps

\* Whoever is granted has a row, read or cached before, that is valid now for one of
\* the scope lists of the view.
LEMMA GrantingKnown ==
  ASSUME Inv, [Next]_vars, NEW p \in Workers, Granting(p)
  PROVE  /\ request[p].row \in Row /\ request[p].row # Absent
         /\ request[p].token \in Tokens
         /\ RowSound(request[p].row, request[p].token)
         /\ LocalNow < request[p].row.expires
         /\ \E scopes \in Alternatives(request[p].view, request[p].method) :
              scopes \subseteq request[p].row.scope
<1>1. Busy(p) /\ (Verify(p) \/ HasPermission(p)) /\ pc'[p] = "granted"
  BY AnsweredBy DEF Granting
<1>2. /\ request[p] \in Request /\ request[p].token \in Tokens
      /\ RowSound(request[p].row, request[p].token)
  BY <1>1, RequestKnown
<1>3. \E scopes \in Alternatives(request[p].view, request[p].method) :
        IsValid(request[p].row, scopes)
  <2>1. CASE Verify(p)
    <3>1. /\ Kind[request[p].view] \notin RestKinds
          /\ IsValid(request[p].row, Demanded(p))
      BY <1>1, <2>1 DEF Inv, TypeOK, Verify, Answer, Goto, Refusal
    <3>2. /\ Alternatives(request[p].view, request[p].method)
               = {Required(request[p].view, request[p].method)}
          /\ Required(request[p].view, request[p].method) \subseteq Demanded(p)
      BY <3>1 DEF Alternatives, Demanded, RestKinds
    <3>3. QED
      BY <3>1, <3>2 DEF IsValid, AllowScopes
  <2>2. CASE HasPermission(p)
    BY <1>1, <2>2 DEF Inv, TypeOK, HasPermission, Permitted, Answer, Goto, Refusal
  <2>3. QED
    BY <1>1, <2>1, <2>2
<1>4. request[p].row # Absent /\ ~IsExpired(request[p].row)
  BY <1>3 DEF IsValid
<1>5. request[p].row \in Row
  BY <1>2, <1>4 DEF Request
<1>6. request[p].row.expires \in Int /\ LocalNow \in Int
  BY <1>5, RowTypes, Readings DEF Inv, Row, LocalNow
<1>7. QED
  BY <1>2, <1>3, <1>4, <1>5, <1>6 DEF IsValid, IsExpired, AllowScopes

\* A resource is given to a token only if the token was issued for all the scopes the
\* view needs for this method, whatever the cache went through since.
THEOREM GrantsCovered == Spec => GrantsAreCovered
<1>1. ASSUME Inv, [Next]_vars, NEW p \in Workers, Granting(p)
      PROVE  /\ Issued[request[p].token] # Absent
             /\ \E scopes \in Alternatives(request[p].view, request[p].method) :
                  scopes \subseteq Issued[request[p].token].scope
  BY <1>1, GrantingKnown DEF RowSound
<1>2. Inv /\ [Next]_vars =>
        [\A p \in Workers : Granting(p) =>
           LET t == request[p].token IN
           /\ Issued[t] # Absent
           /\ \E scopes \in Alternatives(request[p].view, request[p].method) :
                scopes \subseteq Issued[t].scope]_vars
  BY <1>1
<1>3. QED
  BY <1>2, Invariance, PTL DEF Spec, GrantsAreCovered

\* The clock is no further ahead of the one a row is compared with than ClockDelay.
LEMMA ClockReading ==
  ASSUME now \in Nat
  PROVE  LocalNow \in Int /\ now = LocalNow + ClockDelay
BY Readings DEF LocalNow, ClockDelay

\* The cache does not lengthen the life of a token whose expiry was told by more
\* than its zones differ: not at all where they agree.
THEOREM NothingAfterExpiry == Spec => NeverAfterExpiry
<1>1. ASSUME Inv, [Next]_vars, NEW p \in Workers, Granting(p), request[p].token \in Dated
      PROVE  now < Issued[request[p].token].expires + ExpDelay + ClockDelay
  <2>1. /\ request[p].row \in Row /\ request[p].token \in Tokens
        /\ LocalNow < request[p].row.expires
        /\ Issued[request[p].token] # Absent
        /\ request[p].row.expires <= Issued[request[p].token].expires + ExpDelay
    BY <1>1, GrantingKnown DEF RowSound
  <2>2. /\ request[p].row.expires \in Int /\ now \in Nat
        /\ Issued[request[p].token].expires \in Nat
    BY <1>1, <2>1, RowTypes, ConstantsAssumption DEF Inv, Row, IssuedRow, Time
  <2>3. QED
    BY <2>1, <2>2, ClockReading, Readings
<1>2. Inv /\ [Next]_vars =>
        [\A p \in Workers : Granting(p) =>
           LET t == request[p].token IN
           t \in Dated => now < Issued[t].expires + ExpDelay + ClockDelay]_vars
  BY <1>1
<1>3. QED
  BY <1>2, Invariance, PTL DEF Spec, NeverAfterExpiry

\* A token that was revoked is refused at the latest one caching time later, and what
\* its zones differ, counted from the last answer under way when it was revoked.
THEOREM RevocationIsSeen == Spec => RevocationReachesCache
<1>1. ASSUME Inv, [Next]_vars, NEW p \in Workers, Granting(p), gone[request[p].token] # 0
      PROVE  now < gone[request[p].token] + RESOURCE_SERVER_TOKEN_CACHING_SECONDS
                     + CapDelay + ClockDelay
  <2>1. /\ request[p].row \in Row /\ request[p].token \in Tokens
        /\ LocalNow < request[p].row.expires
        /\ request[p].row.expires
             <= gone[request[p].token] + RESOURCE_SERVER_TOKEN_CACHING_SECONDS + CapDelay
    BY <1>1, GrantingKnown DEF RowSound
  <2>2. /\ request[p].row.expires \in Int /\ now \in Nat
        /\ gone[request[p].token] \in Nat /\ RESOURCE_SERVER_TOKEN_CACHING_SECONDS \in Nat
    BY <1>1, <2>1, RowTypes, ConstantsAssumption DEF Inv, TypeOK, Row
  <2>3. QED
    BY <2>1, <2>2, ClockReading, Readings
<1>2. Inv /\ [Next]_vars =>
        [\A p \in Workers : Granting(p) =>
           LET t == request[p].token IN
           gone[t] # 0 => now < gone[t] + RESOURCE_SERVER_TOKEN_CACHING_SECONDS
                                  + CapDelay + ClockDelay]_vars
  BY <1>1
<1>3. QED
  BY <1>2, Invariance, PTL DEF Spec, RevocationReachesCache

\* docs/settings.rst on RESOURCE_SERVER_TOKEN_CACHING_SECONDS: "The number of seconds
\* an authorization token received from the introspection endpoint remains valid."
\* A token that is gone, and no longer confirmed, is refused when they are over.
ValidWhileCached ==
  [][\A p \in Workers : Granting(p) =>
       LET t == request[p].token IN
       gone[t] # 0 => now < gone[t] + RESOURCE_SERVER_TOKEN_CACHING_SECONDS]_vars

\* With USE_TZ on that is so, whatever zone the setting for an exp names; without,
\* RevocationIsSeen says by how much it may fail.
THEOREM CachedInTime ==
  ASSUME USE_TZ
  PROVE  Spec => ValidWhileCached
<1>1. CapDelay = 0 /\ ClockDelay = 0
  BY DEF CapDelay, ClockDelay
<1>2. \A n \in Int : n + CapDelay + ClockDelay = n
  BY <1>1
<1>3. Inv /\ [Next]_vars /\ [\A p \in Workers : Granting(p) =>
           LET t == request[p].token IN
           gone[t] # 0 => now < gone[t] + RESOURCE_SERVER_TOKEN_CACHING_SECONDS
                                  + CapDelay + ClockDelay]_vars =>
        [\A p \in Workers : Granting(p) =>
           LET t == request[p].token IN
           gone[t] # 0 => now < gone[t] + RESOURCE_SERVER_TOKEN_CACHING_SECONDS]_vars
  <2>1. ASSUME Inv, [Next]_vars, NEW p \in Workers, Granting(p)
        PROVE  gone[request[p].token] + RESOURCE_SERVER_TOKEN_CACHING_SECONDS \in Int
    BY <2>1, GrantingKnown, ConstantsAssumption DEF Inv, TypeOK
  <2>2. QED
    BY <1>2, <2>1
<1>4. QED
  BY <1>3, Invariance, RevocationIsSeen, PTL DEF Spec, RevocationReachesCache, ValidWhileCached

\* Who is told "insufficient_scope" lacks a scope of its own request: at the views
\* whose scopes are copied for each request.
THEOREM RefusedForOwn == Spec => RefusedForOwnScopes
<1>1. ASSUME Inv, [Next]_vars, NEW p \in Workers, Busy(p), pc'[p] = "insufficient",
             Kind[request[p].view] # "rw_protected_resource",
             NEW scopes \in Alternatives(request[p].view, request[p].method),
             AllowScopes(request[p].row, scopes)
      PROVE  FALSE
  <2>1. Verify(p) \/ HasPermission(p)
    BY <1>1, AnsweredBy DEF Busy, Steps
  <2>2. request[p] \in Request /\ request[p].view \in Views
    BY <1>1, RequestKnown
  <2>3. request[p].row # Absent /\ ~IsExpired(request[p].row)
    BY <1>1, <2>1
    DEF Inv, TypeOK, Verify, HasPermission, Answer, Goto, Refusal
  <2>4. CASE Verify(p)
    <3>1. ~IsValid(request[p].row, Demanded(p))
      BY <1>1, <2>4 DEF Inv, TypeOK, Verify, Answer, Goto
    <3>2. ~AllowScopes(request[p].row, Demanded(p))
      BY <2>3, <3>1 DEF IsValid
    <3>3. Kind[request[p].view] \notin RestKinds
      BY <3>2 DEF AllowScopes, Demanded
    <3>4. appended[request[p].view] = {}
      BY <1>1, <2>2 DEF Inv, ListsSound
    <3>5. scopes = Demanded(p)
      BY <1>1, <3>3, <3>4 DEF Alternatives, Demanded, RestKinds
    <3>6. QED
      BY <1>1, <3>2, <3>5
  <2>5. CASE HasPermission(p)
    <3>1. ~Permitted(p)
      BY <1>1, <2>5 DEF Inv, TypeOK, HasPermission, Answer, Goto
    <3>2. QED
      BY <1>1, <2>3, <3>1 DEF Permitted, IsValid
  <2>6. QED
    BY <2>1, <2>4, <2>5
<1>2. Inv /\ [Next]_vars =>
        [\A p \in Workers :
           (Busy(p) /\ pc'[p] = "insufficient" /\ Kind[request[p].view] # "rw_protected_resource") =>
             \A scopes \in Alternatives(request[p].view, request[p].method) :
               ~AllowScopes(request[p].row, scopes)]_vars
  BY <1>1
<1>3. QED
  BY <1>2, Invariance, PTL DEF Spec, RefusedForOwnScopes
=============================================================================
