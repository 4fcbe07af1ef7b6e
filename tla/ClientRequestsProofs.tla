------------------------ MODULE ClientRequestsProofs ------------------------
(***************************************************************************)
(* Proofs about RedirectURIs and ClientRequests: for every set of URIs and *)
(* registrations, every request and any number of edits of applications.   *)
(***************************************************************************)
EXTENDS ClientRequests, FiniteSetTheorems, WellFoundedInduction, TLAPS

-----------------------------------------------------------------------------
(* Matching                                                                  *)

LEMMA ReverseIs ==
  ASSUME NEW s \in Seq(STRING)
  PROVE  /\ Reverse(s) \in Seq(STRING) /\ Len(Reverse(s)) = Len(s)
         /\ \A i \in 1..Len(s) : Reverse(s)[i] = s[(Len(s) - i) + 1]
<1>1. Len(s) \in Nat /\ \A i \in 1..Len(s) : s[i] \in STRING
  OBVIOUS
<1>2. Reverse(s) = [i \in 1..Len(s) |-> s[(Len(s) - i) + 1]]
  BY DEF Reverse
<1>3. \A i \in 1..Len(s) : s[(Len(s) - i) + 1] \in STRING
  BY <1>1
<1>4. QED
  BY <1>1, <1>2, <1>3

\* endswith() compares the last tokens.
LEMMA SuffixIs ==
  ASSUME NEW s \in Seq(STRING), NEW t \in Seq(STRING)
  PROVE  IsSuffix(s, t) <=>
           /\ Len(s) <= Len(t)
           /\ \A i \in 1..Len(s) : s[i] = t[i + (Len(t) - Len(s))]
<1> DEFINE n == Len(s)
           r == Reverse(s)
           q == Reverse(t)
<1>1. n \in Nat /\ Len(t) \in Nat
  OBVIOUS
<1>2. /\ r \in Seq(STRING) /\ Len(r) = n /\ \A i \in 1..n : r[i] = s[(n - i) + 1]
      /\ q \in Seq(STRING) /\ Len(q) = Len(t)
      /\ \A i \in 1..Len(t) : q[i] = t[(Len(t) - i) + 1]
  BY ReverseIs
<1>3. IsSuffix(s, t) <=> n <= Len(t) /\ SubSeq(r, 1, n) = SubSeq(q, 1, n)
  BY <1>2 DEF IsSuffix, IsPrefix
<1> HIDE DEF r, q
<1>4. ASSUME n <= Len(t)
      PROVE  SubSeq(r, 1, n) = SubSeq(q, 1, n) <=> \A i \in 1..n : r[i] = q[i]
  BY <1>1, <1>2, <1>4
<1>5. ASSUME n <= Len(t), \A i \in 1..n : r[i] = q[i], NEW i \in 1..n
      PROVE  s[i] = t[i + (Len(t) - n)]
  <2>1. (n - i) + 1 \in 1..n /\ (n - i) + 1 \in 1..Len(t)
    BY <1>1, <1>5
  <2> DEFINE j == (n - i) + 1
  <2>2. r[j] = s[(n - j) + 1] /\ q[j] = t[(Len(t) - j) + 1]
    BY <1>2, <2>1
  <2>3. (n - j) + 1 = i /\ (Len(t) - j) + 1 = i + (Len(t) - n)
    BY <1>1
  <2>4. QED
    BY <1>5, <2>1, <2>2, <2>3
<1>6. ASSUME n <= Len(t), \A i \in 1..n : s[i] = t[i + (Len(t) - n)], NEW i \in 1..n
      PROVE  r[i] = q[i]
  <2>1. (n - i) + 1 \in 1..n /\ i \in 1..Len(t)
    BY <1>1, <1>6
  <2>2. r[i] = s[(n - i) + 1] /\ q[i] = t[(Len(t) - i) + 1]
    BY <1>2, <2>1
  <2>3. ((n - i) + 1) + (Len(t) - n) = (Len(t) - i) + 1
    BY <1>1
  <2>4. QED
    BY <1>6, <2>1, <2>2, <2>3
<1>7. QED
  BY <1>3, <1>4, <1>5, <1>6

\* A wildcard matches itself.
LEMMA TailIsSuffix ==
  ASSUME NEW s \in Seq(STRING), s # <<>>
  PROVE  IsSuffix(Tail(s), s)
<1>1. /\ Tail(s) \in Seq(STRING) /\ Len(s) \in Nat \ {0} /\ Len(Tail(s)) = Len(s) - 1
      /\ \A i \in 1..Len(Tail(s)) : Tail(s)[i] = s[i + 1]
  OBVIOUS
<1>2. Len(s) - Len(Tail(s)) = 1
  BY <1>1
<1>3. IsSuffix(Tail(s), s) <=>
        /\ Len(Tail(s)) <= Len(s)
        /\ \A i \in 1..Len(Tail(s)) : Tail(s)[i] = s[i + (Len(s) - Len(Tail(s)))]
  BY <1>1, SuffixIs
<1>4. QED
  BY <1>1, <1>2, <1>3

LEMMA MatchesItself ==
  ASSUME NEW u \in URIs
  PROVE  Matches(u, u)
<1>1. u.host \in Seq(STRING)
  BY URIsAssumption DEF IsURI
<1>2. HostMatches(u.host, u.host)
  BY <1>1, TailIsSuffix DEF HostMatches, StartsWith
<1>3. QED
  BY <1>2 DEF Matches

\* The URI that an answer is sent to is a registered one, named or not.
LEMMA RedirectIsRegistered ==
  ASSUME NEW row \in Application, NEW asked \in URIs \cup {Absent},
         RedirectFor(row, asked) # Absent
  PROVE  /\ RedirectFor(row, asked) \in URIs
         /\ RedirectToURIAllowed(RedirectFor(row, asked), row.redirect_uris)
<1>1. row.redirect_uris \in SUBSET URIs
  BY DEF Application
<1>2. CASE asked # Absent
  BY <1>2 DEF RedirectFor
<1>3. CASE asked = Absent
  <2>1. Cardinality(row.redirect_uris) = 1
    BY <1>3 DEF RedirectFor
  <2>2. row.redirect_uris # {}
    BY <2>1, FS_EmptySet
  <2>3. RedirectFor(row, asked) \in row.redirect_uris
    BY <1>3, <2>1, <2>2 DEF RedirectFor
  <2>4. QED
    BY <1>1, <2>3, MatchesItself DEF RedirectToURIAllowed
<1>4. QED
  BY <1>2, <1>3

\* What is stored is compared right, hashed or not.
LEMMA SecretsAreTold ==
  ASSUME NEW row, SoundRow(row), NEW secret \in Secrets
  PROVE  CheckSecret(secret, row.client_secret) <=> secret = row.secret_text
<1>1. row.secret_text \in Secrets
  BY DEF SoundRow, Application
<1>2. Hash(secret) = Hash(row.secret_text) <=> secret = row.secret_text
  BY DEF Hash
<1>3. row.secret_text \notin Hashed /\ Hash(row.secret_text) \in Hashed
  BY <1>1, ConstantsAssumption DEF Hashed
<1>4. QED
  BY <1>2, <1>3 DEF SoundRow, CheckSecret

LEMMA RowTyped ==
  ASSUME NEW c \in Clients, NEW form \in Forms[c], NEW secret \in Secrets \cup Hashed,
         NEW text \in Secrets
  PROVE  /\ Row(form, secret, text) \in Application
         /\ Row(form, secret, text).client_secret = secret
         /\ Row(form, secret, text).secret_text = text
<1>1. form \in Application
  BY ConstantsAssumption
<1>2. QED
  BY <1>1 DEF Row, Application

LEMMA RegisteredIsSound ==
  ASSUME NEW c \in Clients, NEW row \in Registration(c)
  PROVE  SoundRow(row)
<1>1. PICK form \in Forms[c] : row = Row(form, Hash(FirstSecret[c]), FirstSecret[c])
  BY DEF Registration
<1>2. FirstSecret[c] \in Secrets /\ Hash(FirstSecret[c]) \in Hashed
  BY ConstantsAssumption DEF Hashed
<1>3. QED
  BY <1>1, <1>2, RowTyped DEF Registration, SoundRow
-----------------------------------------------------------------------------
(* What is sent, and to what step it belongs                                 *)

LEMMA RequestTypes ==
  ASSUME TypeOK, RequestOfStep
  PROVE  /\ pc \in TokenPCs => request \in TokenRequest
         /\ pc \in BrowserPCs => request \in AuthorizationRequest
         /\ pc \in LogoutPCs => request \in LogoutRequest
         /\ client # Absent => client \in Loaded
BY ConstantsAssumption DEF TypeOK, RequestOfStep

LEMMA PresentedUnchanged ==
  ASSUME UNCHANGED request
  PROVE  Presented' = Presented
BY DEF Presented

\* Credentials are records, and Absent is none.
LEMMA OwnIsCredentials ==
  ASSUME NEW c \in Clients, NEW row \in Application
  PROVE  Own(c, row) \in Credentials /\ Own(c, row) # Absent
         /\ Own(c, row).client_id = c /\ Own(c, row).client_secret = row.secret_text
BY ConstantsAssumption DEF Own, Credentials, Application
-----------------------------------------------------------------------------
(* Edits of applications                                                     *)

\* What was seen of an application counts as long as the request goes on.
LEMMA SeenGrows ==
  ASSUME Inv, pc # "idle", UNCHANGED <<pc, request, client, target>>,
         \A c \in Clients : seen[c] \subseteq seen'[c]
  PROVE  /\ RequestOfStep' /\ ClientWasSeen' /\ WayToStep'
         /\ AcceptedByOwnSecret' /\ OwnSecretSuffices' /\ TargetWasRegistered'
<1>1. RequestOfStep'
  BY DEF Inv, RequestOfStep
<1>2. client # Absent => client.client_id \in Clients
  BY DEF Inv, TypeOK, Loaded
<1>3. ClientWasSeen'
  BY <1>2 DEF Inv, ClientWasSeen
<1>4. \A c \in Clients : \A row \in seen'[c] : seen'[c] = {row} => seen[c] = {row}
  BY DEF Inv, RowsSound
<1>5. Presented' = Presented
  BY PresentedUnchanged
<1>6. WayToStep'
  BY <1>4, <1>5 DEF Inv, WayToStep
<1>7. AcceptedByOwnSecret'
  <2>1. SUFFICES ASSUME pc \in {"granting", "accepted", "unauthorized_client"}
                 PROVE  AcceptedByOwnSecret'
    BY DEF AcceptedByOwnSecret
  <2>2. client.client_id \in Clients
    BY <1>2, <2>1 DEF Inv, ClientWasSeen, Granted
  <2>3. QED
    BY <1>5, <2>1, <2>2 DEF Inv, AcceptedByOwnSecret
<1>8. OwnSecretSuffices'
  BY <1>4, <1>5 DEF Inv, OwnSecretSuffices
<1>9. TargetWasRegistered'
  <2>1. /\ pc \in BrowserPCs \cup LogoutPCs => request.client_id \in Clients
        /\ pc = "accepted" => client.client_id \in Clients
    BY <1>2, RequestTypes
    DEF Inv, AuthorizationRequest, LogoutRequest, ClientWasSeen, Granted
  <2>2. QED
    BY <2>1
    DEF Inv, TargetWasRegistered, BrowserPCs, BrowserSteps, LogoutPCs, LogoutSteps
<1>10. QED
  BY <1>1, <1>3, <1>6, <1>7, <1>8, <1>9

LEMMA SavedIsSound ==
  ASSUME NEW c \in Clients, SoundRow(app[c]), NEW form \in Forms[c],
         NEW text \in TypedSecrets[c] \cup {Absent}, NEW hash \in BOOLEAN,
         SaveApplication(c, form, text, hash)
  PROVE  \E row : /\ SoundRow(row)
                  /\ app' = [app EXCEPT ![c] = row]
                  /\ \/ /\ Busy /\ edits < MaxEdits
                        /\ edits' = edits + 1
                        /\ seen' = [seen EXCEPT ![c] = @ \cup {row}]
                     \/ pc = "idle" /\ UNCHANGED <<edits, seen>>
<1> DEFINE typed == IF text = Absent THEN app[c].client_secret ELSE text
           last == IF text = Absent THEN app[c].secret_text ELSE text
           row == Row(form, PreSave(typed, hash), last)
<1>1. last \in Secrets /\ typed \in {last, Hash(last)}
  BY ConstantsAssumption DEF SoundRow, Application
<1>2. PreSave(typed, hash) \in {last, Hash(last)}
  BY <1>1 DEF PreSave, Hashed
<1>3. PreSave(typed, hash) \in Secrets \cup Hashed
  BY <1>1, <1>2 DEF Hashed
<1>4. /\ row \in Application /\ row.client_secret = PreSave(typed, hash)
      /\ row.secret_text = last
  BY <1>1, <1>3, RowTyped
<1>5. Clean(row)
  BY DEF SaveApplication
<1>6. SoundRow(row)
  BY <1>2, <1>4, <1>5 DEF SoundRow
<1>7. QED
  BY <1>6 DEF SaveApplication

LEMMA SaveInv ==
  ASSUME Inv, NEW c \in Clients, NEW form \in Forms[c],
         NEW text \in TypedSecrets[c] \cup {Absent}, NEW hash \in BOOLEAN,
         SaveApplication(c, form, text, hash)
  PROVE  Inv'
<1>1. SoundRow(app[c])
  BY DEF Inv, RowsSound
<1>2. PICK row : /\ SoundRow(row)
                 /\ app' = [app EXCEPT ![c] = row]
                 /\ \/ /\ Busy /\ edits < MaxEdits
                       /\ edits' = edits + 1
                       /\ seen' = [seen EXCEPT ![c] = @ \cup {row}]
                    \/ pc = "idle" /\ UNCHANGED <<edits, seen>>
  BY <1>1, SavedIsSound
<1>3. UNCHANGED <<pc, request, client, target>>
  BY DEF SaveApplication
<1>4. row \in Application
  BY <1>2 DEF SoundRow
<1>5. app' \in [Clients -> Application] /\ seen' \in [Clients -> SUBSET Application]
      /\ edits' \in 0..MaxEdits
  BY <1>2, <1>4, ConstantsAssumption DEF Inv, TypeOK
<1>6. TypeOK'
  BY <1>3, <1>5 DEF Inv, TypeOK
<1>7. \A d \in Clients : seen[d] \subseteq seen'[d]
  BY <1>2, <1>4 DEF Inv, TypeOK
<1>8. RowsSound'
  BY <1>2, <1>3 DEF Inv, TypeOK, RowsSound, Busy, Steps, TokenSteps, BrowserSteps, LogoutSteps
<1>9. CASE pc = "idle"
  BY <1>3, <1>6, <1>8, <1>9
  DEF Inv, RequestOfStep, ClientWasSeen, WayToStep, AcceptedByOwnSecret,
      OwnSecretSuffices, TargetWasRegistered, TokenPCs, BrowserPCs, LogoutPCs, Granted,
      TokenSteps, BrowserSteps, LogoutSteps
<1>10. CASE pc # "idle"
  BY <1>3, <1>6, <1>7, <1>8, <1>10, SeenGrows DEF Inv
<1>11. QED
  BY <1>9, <1>10
-----------------------------------------------------------------------------
(* The beginning and the end of a request                                    *)

LEMMA NowIsSound ==
  ASSUME Inv
  PROVE  /\ Now \in [Clients -> SUBSET Application]
         /\ \A c \in Clients : app[c] \in Now[c] /\ \A row \in Now[c] : SoundRow(row)
BY DEF Now, Inv, TypeOK, RowsSound, SoundRow

LEMMA BeginInv ==
  ASSUME Inv, NEW step, NEW q, Begin(step, q),
         \/ step = "basic" /\ q \in TokenRequests
         \/ step = "requiring" /\ q \in TokenRequests
              /\ q.grant_type # "client_credentials"
         \/ step = "validating" /\ q \in AuthorizationRequests
         \/ step = "logout" /\ q \in LogoutRequests
  PROVE  Inv'
<1>1. /\ pc' = step /\ request' = q /\ client' = Absent /\ target' = Absent
      /\ seen' = Now /\ app' = app /\ edits' = edits
  BY DEF Begin
<1>2. TypeOK'
  BY <1>1, NowIsSound
  DEF Inv, TypeOK, Steps, TokenSteps, BrowserSteps, LogoutSteps
<1>3. RowsSound'
  BY <1>1, NowIsSound DEF Inv, RowsSound
<1>4. QED
  BY <1>1, <1>2, <1>3
  DEF Inv, RequestOfStep, ClientWasSeen, WayToStep, AcceptedByOwnSecret,
      OwnSecretSuffices, TargetWasRegistered, TokenPCs, BrowserPCs, LogoutPCs, Granted,
      TokenSteps, BrowserSteps, LogoutSteps

LEMMA CloseInv ==
  ASSUME Inv, Close
  PROVE  Inv'
<1>1. /\ pc' = "idle" /\ edits' = 0 /\ request' = Absent /\ client' = Absent
      /\ target' = Absent /\ seen' = [c \in Clients |-> {}] /\ app' = app
  BY DEF Close
<1>2. TypeOK'
  BY <1>1, ConstantsAssumption DEF Inv, TypeOK, Answers
<1>3. QED
  BY <1>1, <1>2
  DEF Inv, RowsSound, RequestOfStep, ClientWasSeen, WayToStep, AcceptedByOwnSecret,
      OwnSecretSuffices, TargetWasRegistered, TokenPCs, BrowserPCs, LogoutPCs, Granted,
      TokenSteps, BrowserSteps, LogoutSteps

LEMMA InitInv == Init => Inv
<1>1. SUFFICES ASSUME Init PROVE Inv
  OBVIOUS
<1>2. \A c \in Clients : app[c] \in Registration(c)
  BY <1>1 DEF Init
<1>3. \A c \in Clients : SoundRow(app[c])
  BY <1>2, RegisteredIsSound
<1>4. app \in [Clients -> Application]
  BY <1>1, <1>3 DEF Init, SoundRow
<1>5. TypeOK
  BY <1>1, <1>4, ConstantsAssumption DEF Init, TypeOK, Answers
<1>6. QED
  BY <1>1, <1>3, <1>5
  DEF Init, Inv, RowsSound, RequestOfStep, ClientWasSeen, WayToStep, AcceptedByOwnSecret,
      OwnSecretSuffices, TargetWasRegistered, TokenPCs, BrowserPCs, LogoutPCs, Granted,
      TokenSteps, BrowserSteps, LogoutSteps

\* What every later step keeps.
LEMMA GoKeeps ==
  ASSUME Inv, NEW step \in (Steps \cup Answers) \ {"idle"}, pc # "idle", Go(step),
         client' \in Loaded \cup {Absent}, target' \in URIs \cup {Absent},
         seen' = seen \/ seen' = Now
  PROVE  TypeOK' /\ RowsSound'
<1>1. pc' = step /\ UNCHANGED <<app, edits, request>>
  BY DEF Go
<1>2. seen' \in [Clients -> SUBSET Application]
  BY NowIsSound DEF Inv, TypeOK
<1>3. TypeOK'
  BY <1>1, <1>2 DEF Inv, TypeOK
<1>4. RowsSound'
  BY <1>1, NowIsSound DEF Inv, RowsSound
<1>5. QED
  BY <1>3, <1>4
-----------------------------------------------------------------------------
(* Client authentication                                                     *)

\* What is loaded for a client_id is a row the client had during the request.
LEMMA LoadedIsOwn ==
  ASSUME Inv, pc \in TokenPCs, NEW id \in Clients \cup {Absent}
  PROVE  /\ LoadApplication(id) # Absent <=> id # Absent
         /\ LoadApplication(id) \in Loaded \cup {Absent}
         /\ LoadApplication(id) # Absent =>
              /\ LoadApplication(id).client_id = id
              /\ LoadApplication(id).row \in seen[id]
<1>1. client # Absent => client \in Loaded /\ client.row \in seen[client.client_id]
  BY DEF Inv, TypeOK, ClientWasSeen
<1>2. id # Absent => id \in Clients /\ app[id] \in Application /\ app[id] \in seen[id]
  BY DEF Inv, TypeOK, RowsSound, TokenPCs, TokenSteps, Granted
<1>3. id # Absent => [client_id |-> id, row |-> app[id]] \in Loaded
  BY <1>2 DEF Loaded
<1>4. CASE client # Absent /\ client.client_id = id
  <2>1. id # Absent
    BY <1>1, <1>4, ConstantsAssumption DEF Loaded
  <2>2. LoadApplication(id) = client
    BY <1>4 DEF LoadApplication
  <2>3. QED
    BY <1>1, <1>4, <2>1, <2>2
<1>5. CASE ~(client # Absent /\ client.client_id = id) /\ id = Absent
  BY <1>5 DEF LoadApplication
<1>6. CASE ~(client # Absent /\ client.client_id = id) /\ id # Absent
  <2>1. LoadApplication(id) = [client_id |-> id, row |-> app[id]]
    BY <1>6 DEF LoadApplication
  <2>2. QED
    BY <1>2, <1>3, <1>6, <2>1, ConstantsAssumption
<1>7. QED
  BY <1>4, <1>5, <1>6

\* Who was authenticated gave his own secret, or need not give one.
LEMMA AuthenticIsOwn ==
  ASSUME Inv, pc \in TokenPCs, NEW id \in Clients \cup {Absent},
         NEW secret \in Secrets, NEW loaded, loaded = LoadApplication(id)
  PROVE  /\ Authentic(loaded, secret) =>
              /\ id # Absent
              /\ \E row \in seen[id] :
                   \/ Own(id, row) = [client_id |-> id, client_secret |-> secret]
                   \/ row.client_type = "public" /\ request.grant_type = "device_code"
         /\ id # Absent /\ ~Authentic(loaded, secret) =>
              \A row \in seen[id] : seen[id] = {row} =>
                Own(id, row) # [client_id |-> id, client_secret |-> secret]
<1>1. loaded # Absent <=> id # Absent
  BY LoadedIsOwn
<1>2. CASE id = Absent
  BY <1>1, <1>2 DEF Authentic
<1>3. CASE id # Absent
  <2>1. id \in Clients /\ loaded.row \in seen[id]
    BY <1>1, <1>3, LoadedIsOwn
  <2>2. SoundRow(loaded.row)
    BY <2>1 DEF Inv, RowsSound
  <2>3. CheckSecret(secret, loaded.row.client_secret)
          <=> secret = loaded.row.secret_text
    BY <2>2, SecretsAreTold
  <2>4. Authentic(loaded, secret) <=>
          \/ loaded.row.client_type = "public" /\ request.grant_type = "device_code"
          \/ secret = loaded.row.secret_text
    BY <1>1, <1>3, <2>3 DEF Authentic, NeedsNoSecret
  <2>5. QED
    BY <1>3, <2>1, <2>4 DEF Own
<1>4. QED
  BY <1>2, <1>3

\* The parts of a token request.
LEMMA TokenRequestParts ==
  ASSUME Inv, pc \in TokenPCs
  PROVE  /\ request.basic \in Credentials \cup {Absent}
         /\ request.client_id \in Clients \cup {Absent}
         /\ request.client_secret \in Secrets
         /\ request.origin \in URIs \cup {Absent}
         /\ request.basic # Absent =>
              /\ request.basic.client_id \in Clients
              /\ request.basic.client_secret \in Secrets
              /\ request.basic = [client_id |-> request.basic.client_id,
                                  client_secret |-> request.basic.client_secret]
<1>1. request \in TokenRequest
  BY RequestTypes DEF Inv
<1>2. request.basic \in Credentials \cup {Absent}
  BY <1>1 DEF TokenRequest
<1>3. QED
  BY <1>1, <1>2 DEF TokenRequest, Credentials

LEMMA RequireAuthenticationInv ==
  ASSUME Inv, RequireAuthentication
  PROVE  Inv'
<1> DEFINE told == \/ request.basic # Absent
                   \/ request.client_id # Absent /\ request.client_secret # Blank
           loaded == LoadApplication(request.client_id)
<1>1. pc = "requiring" /\ pc \in TokenPCs /\ request.grant_type # "client_credentials"
  BY DEF RequireAuthentication, TokenPCs, TokenSteps, Inv, WayToStep
<1>2. /\ client' = IF told THEN client ELSE loaded
      /\ UNCHANGED <<app, edits, request, target, seen>>
      /\ \/ pc' = "by_id" /\ ~told /\ loaded # Absent /\ loaded.row.client_type = "public"
         \/ pc' = "basic"
  BY DEF RequireAuthentication, Go
<1>3. /\ loaded \in Loaded \cup {Absent}
      /\ loaded # Absent => /\ loaded.client_id = request.client_id
                            /\ loaded.row \in seen[loaded.client_id]
  BY <1>1, TokenRequestParts, LoadedIsOwn
<1>4. ~told /\ loaded # Absent => request.basic = Absent /\ request.client_secret = Blank
  BY <1>3, ConstantsAssumption DEF Loaded
<1> HIDE DEF told, loaded
<1>5. client' \in Loaded \cup {Absent}
      /\ (client' # Absent => client'.row \in seen[client'.client_id])
  BY <1>1, <1>2, <1>3 DEF Inv, TypeOK, ClientWasSeen
<1>6. TypeOK' /\ RowsSound'
  BY <1>1, <1>2, <1>5, GoKeeps
  DEF RequireAuthentication, Steps, TokenSteps, Answers, Inv, TypeOK
<1>7. Presented' = Presented
  BY <1>2, PresentedUnchanged
<1>8. RequestOfStep' /\ ClientWasSeen'
  BY <1>1, <1>2, <1>5
  DEF Inv, RequestOfStep, ClientWasSeen, TokenPCs, BrowserPCs, LogoutPCs, Granted,
      TokenSteps, BrowserSteps, LogoutSteps
<1>9. WayToStep'
  BY <1>1, <1>2, <1>3, <1>4, <1>7 DEF WayToStep
<1>10. AcceptedByOwnSecret' /\ OwnSecretSuffices' /\ TargetWasRegistered'
  BY <1>2 DEF AcceptedByOwnSecret, OwnSecretSuffices, TargetWasRegistered
<1>11. QED
  BY <1>6, <1>8, <1>9, <1>10 DEF Inv

LEMMA AuthenticateBasicInv ==
  ASSUME Inv, AuthenticateBasic
  PROVE  Inv'
<1> DEFINE id == request.basic.client_id
           secret == request.basic.client_secret
           loaded == LoadApplication(id)
<1>1. pc = "basic" /\ pc \in TokenPCs
  BY DEF AuthenticateBasic, TokenPCs, TokenSteps
<1>2. UNCHANGED <<app, edits, request, target, seen>>
  BY DEF AuthenticateBasic, Go
<1>3. Presented' = Presented /\ request.basic \in Presented
  BY <1>2, PresentedUnchanged DEF Presented
<1>4. CASE request.basic = Absent
  <2>1. pc' = "body" /\ client' = client
    BY <1>4 DEF AuthenticateBasic, Go
  <2>2. TypeOK' /\ RowsSound'
    BY <1>1, <1>2, <1>4, <2>1, GoKeeps
    DEF AuthenticateBasic, Steps, TokenSteps, Answers, Inv, TypeOK
  <2>3. RequestOfStep' /\ ClientWasSeen'
    BY <1>1, <1>2, <2>1
    DEF Inv, RequestOfStep, ClientWasSeen, TokenPCs, BrowserPCs, LogoutPCs, Granted,
        TokenSteps, BrowserSteps, LogoutSteps
  <2>4. \A c \in Clients : \A row \in seen[c] : Own(c, row) # request.basic
    BY <1>4, OwnIsCredentials DEF Inv, TypeOK
  <2>5. WayToStep'
    BY <1>2, <2>1, <2>4 DEF WayToStep, Own
  <2>6. AcceptedByOwnSecret' /\ OwnSecretSuffices' /\ TargetWasRegistered'
    BY <2>1 DEF AcceptedByOwnSecret, OwnSecretSuffices, TargetWasRegistered
  <2>7. QED
    BY <2>2, <2>3, <2>5, <2>6 DEF Inv
<1>5. CASE request.basic # Absent
  <2>1. /\ id \in Clients /\ secret \in Secrets /\ id # Absent
        /\ request.basic = [client_id |-> id, client_secret |-> secret]
    BY <1>1, <1>5, TokenRequestParts, ConstantsAssumption
  <2>2. /\ client' = loaded
        /\ pc' = IF Authentic(loaded, secret) THEN "granting" ELSE "body"
    BY <1>5 DEF AuthenticateBasic, Go
  <2>3. /\ loaded \in Loaded /\ loaded # Absent /\ loaded.client_id = id
        /\ loaded.row \in seen[id]
    BY <1>1, <2>1, LoadedIsOwn
  <2>4. /\ Authentic(loaded, secret) =>
             \E row \in seen[id] :
               \/ Own(id, row) = request.basic
               \/ row.client_type = "public" /\ request.grant_type = "device_code"
        /\ ~Authentic(loaded, secret) =>
             \A row \in seen[id] : seen[id] = {row} => Own(id, row) # request.basic
    BY <1>1, <2>1, AuthenticIsOwn
  <2> HIDE DEF loaded
  <2>5. TypeOK' /\ RowsSound'
    <3>1. PICK step \in {"granting", "body"} : Go(step)
      BY <1>5 DEF AuthenticateBasic
    <3>2. QED
      BY <1>1, <1>2, <2>2, <2>3, <3>1, GoKeeps
      DEF Steps, TokenSteps, Answers, Inv, TypeOK
  <2>6. RequestOfStep' /\ ClientWasSeen'
    BY <1>1, <1>2, <2>2, <2>3
    DEF Inv, RequestOfStep, ClientWasSeen, TokenPCs, BrowserPCs, LogoutPCs, Granted,
        TokenSteps, BrowserSteps, LogoutSteps
  <2>7. WayToStep'
    <3>1. SUFFICES ASSUME pc' = "body", NEW c \in Clients, NEW row \in seen[c],
                          seen[c] = {row}
                   PROVE  Own(c, row) # request.basic
      BY <1>2, <2>2 DEF WayToStep, Own
    <3>2. c = id => Own(c, row) # request.basic
      BY <2>2, <2>4, <3>1
    <3>3. c # id => Own(c, row) # request.basic
      BY OwnIsCredentials, <3>1 DEF Inv, TypeOK
    <3>4. QED
      BY <3>2, <3>3
  <2>8. AcceptedByOwnSecret'
    <3>1. SUFFICES ASSUME pc' = "granting"
                   PROVE  AcceptedByOwnSecret'
      BY <2>2 DEF AcceptedByOwnSecret
    <3>2. id \in {cred.client_id : cred \in Presented \ {Absent}}
      BY <1>3, <1>5
    <3>3. PICK row \in seen[id] :
               \/ Own(id, row) = request.basic
               \/ row.client_type = "public" /\ request.grant_type = "device_code"
      BY <2>2, <2>4, <3>1
    <3>4. client'.client_id = id
      BY <2>2, <2>3
    <3>5. QED
      BY <1>2, <1>3, <3>1, <3>2, <3>3, <3>4 DEF AcceptedByOwnSecret
  <2>9. OwnSecretSuffices' /\ TargetWasRegistered'
    BY <2>2 DEF OwnSecretSuffices, TargetWasRegistered
  <2>10. QED
    BY <2>5, <2>6, <2>7, <2>8, <2>9 DEF Inv
<1>6. QED
  BY <1>4, <1>5

LEMMA AuthenticateBodyInv ==
  ASSUME Inv, AuthenticateBody
  PROVE  Inv'
<1> DEFINE id == request.client_id
           secret == request.client_secret
           loaded == LoadApplication(id)
           pair == [client_id |-> id, client_secret |-> secret]
<1>1. pc = "body" /\ pc \in TokenPCs
  BY DEF AuthenticateBody, TokenPCs, TokenSteps
<1>2. UNCHANGED <<app, edits, request, target, seen>> /\ Presented' = Presented
  BY PresentedUnchanged DEF AuthenticateBody, Go
<1>3. /\ client' = loaded
      /\ pc' = IF Authentic(loaded, secret) THEN "granting" ELSE "invalid_client"
  BY DEF AuthenticateBody, Go
<1>4. id \in Clients \cup {Absent} /\ secret \in Secrets
  BY <1>1, TokenRequestParts
<1>5. /\ loaded \in Loaded \cup {Absent}
      /\ loaded # Absent <=> id # Absent
      /\ loaded # Absent => loaded.client_id = id /\ loaded.row \in seen[id]
  BY <1>1, <1>4, LoadedIsOwn
<1>6. /\ Authentic(loaded, secret) =>
           /\ id # Absent
           /\ \E row \in seen[id] :
                \/ Own(id, row) = pair
                \/ row.client_type = "public" /\ request.grant_type = "device_code"
      /\ id # Absent /\ ~Authentic(loaded, secret) =>
           \A row \in seen[id] : seen[id] = {row} => Own(id, row) # pair
  BY <1>1, <1>4, AuthenticIsOwn
<1>7. Presented = {request.basic} \cup (IF id # Absent THEN {pair} ELSE {})
  BY DEF Presented
<1> HIDE DEF loaded
<1>8. TypeOK' /\ RowsSound'
  <2>1. PICK step \in {"granting", "invalid_client"} : Go(step)
    BY DEF AuthenticateBody
  <2>2. QED
    BY <1>1, <1>2, <1>3, <1>5, <2>1, GoKeeps
    DEF Steps, TokenSteps, Answers, Inv, TypeOK
<1>9. RequestOfStep' /\ ClientWasSeen'
  BY <1>1, <1>2, <1>3, <1>5, <1>6
  DEF Inv, RequestOfStep, ClientWasSeen, TokenPCs, BrowserPCs, LogoutPCs, Granted,
      TokenSteps, BrowserSteps, LogoutSteps
<1>10. WayToStep' /\ TargetWasRegistered'
  BY <1>3 DEF WayToStep, TargetWasRegistered
<1>11. AcceptedByOwnSecret'
  <2>1. SUFFICES ASSUME pc' = "granting"
                 PROVE  AcceptedByOwnSecret'
    BY <1>3 DEF AcceptedByOwnSecret
  <2>2. id # Absent /\ client'.client_id = id
    BY <1>3, <1>5, <1>6, <2>1
  <2>3. PICK row \in seen[id] :
             \/ Own(id, row) = pair
             \/ row.client_type = "public" /\ request.grant_type = "device_code"
    BY <1>3, <1>6, <2>1
  <2>4. Own(id, row) = pair => Own(id, row) \in Presented
    BY <1>7, <2>2
  <2>5. QED
    BY <1>2, <2>1, <2>2, <2>3, <2>4 DEF AcceptedByOwnSecret
<1>12. OwnSecretSuffices'
  <2>1. SUFFICES ASSUME pc' = "invalid_client", NEW c \in Clients, NEW row \in seen[c],
                        seen[c] = {row}
                 PROVE  Own(c, row) \notin Presented
    BY <1>2, <1>3 DEF OwnSecretSuffices, Own
  <2>2. Own(c, row) # request.basic
    BY <1>1, <2>1 DEF Inv, WayToStep
  <2>3. ASSUME id # Absent PROVE Own(c, row) # pair
    <3>1. c = id => Own(c, row) # pair
      BY <1>3, <1>6, <2>1, <2>3
    <3>2. c # id => Own(c, row) # pair
      BY OwnIsCredentials, <2>1 DEF Inv, TypeOK
    <3>3. QED
      BY <3>1, <3>2
  <2>4. QED
    BY <1>7, <2>2, <2>3
<1>13. QED
  BY <1>8, <1>9, <1>10, <1>11, <1>12 DEF Inv

LEMMA AuthenticateClientIdInv ==
  ASSUME Inv, AuthenticateClientId
  PROVE  Inv'
<1> DEFINE id == request.client_id
           loaded == LoadApplication(id)
<1>1. pc = "by_id" /\ pc \in TokenPCs
  BY DEF AuthenticateClientId, TokenPCs, TokenSteps
<1>2. UNCHANGED <<app, edits, request, target, seen>> /\ Presented' = Presented
  BY PresentedUnchanged DEF AuthenticateClientId, Go
<1>3. /\ client' = loaded
      /\ pc' = IF loaded.row.client_type # "confidential" THEN "granting"
                                                          ELSE "invalid_client"
  BY DEF AuthenticateClientId, Go
<1>4. /\ request.basic = Absent /\ request.client_secret = Blank
      /\ request.grant_type # "client_credentials"
      /\ client # Absent /\ client.client_id = id /\ client.row.client_type = "public"
  BY <1>1 DEF Inv, WayToStep, ClientWasSeen
<1>5. loaded = client
  BY <1>4 DEF LoadApplication
<1>6. /\ loaded \in Loaded /\ loaded # Absent /\ id \in Clients
      /\ loaded.client_id = id /\ loaded.row \in seen[id]
      /\ loaded.row.client_type = "public"
  BY <1>1, <1>4, <1>5 DEF Inv, TypeOK, ClientWasSeen, Loaded
<1> HIDE DEF loaded
<1>7. TypeOK' /\ RowsSound'
  <2>1. PICK step \in {"granting", "invalid_client"} : Go(step)
    BY DEF AuthenticateClientId
  <2>2. QED
    BY <1>1, <1>2, <1>3, <1>6, <2>1, GoKeeps
    DEF Steps, TokenSteps, Answers, Inv, TypeOK
<1>8. RequestOfStep' /\ ClientWasSeen'
  BY <1>1, <1>2, <1>3, <1>6
  DEF Inv, RequestOfStep, ClientWasSeen, TokenPCs, BrowserPCs, LogoutPCs, Granted,
      TokenSteps, BrowserSteps, LogoutSteps
<1>9. WayToStep' /\ TargetWasRegistered'
  BY <1>3 DEF WayToStep, TargetWasRegistered
<1>10. AcceptedByOwnSecret'
  <2>1. SUFFICES ASSUME pc' = "granting"
                 PROVE  AcceptedByOwnSecret'
    BY <1>3 DEF AcceptedByOwnSecret
  <2>2. QED
    BY <1>2, <1>3, <1>4, <1>6, <2>1 DEF AcceptedByOwnSecret
<1>11. OwnSecretSuffices'
  BY <1>3, <1>6 DEF OwnSecretSuffices
<1>12. QED
  BY <1>7, <1>8, <1>9, <1>10, <1>11 DEF Inv

LEMMA ValidateGrantTypeInv ==
  ASSUME Inv, ValidateGrantType
  PROVE  Inv'
<1>1. pc = "granting" /\ pc \in TokenPCs /\ client # Absent
  BY DEF ValidateGrantType, TokenPCs, Granted, Inv, ClientWasSeen
<1>2. UNCHANGED <<app, edits, request, client, seen>> /\ Presented' = Presented
  BY PresentedUnchanged DEF ValidateGrantType, Go
<1>3. \/ pc' = "accepted" /\ target' = SharedWith(request.origin)
      \/ pc' = "unauthorized_client" /\ target' = target
  BY DEF ValidateGrantType, Go
<1>4. client.client_id \in Clients /\ client.row \in seen[client.client_id]
  BY <1>1 DEF Inv, TypeOK, Loaded, ClientWasSeen
<1>5. /\ SharedWith(request.origin) \in URIs \cup {Absent}
      /\ SharedWith(request.origin) # Absent =>
           IsOriginAllowed(SharedWith(request.origin), client.row.allowed_origins)
  BY <1>1, TokenRequestParts DEF SharedWith
<1>6. TypeOK' /\ RowsSound'
  <2>1. PICK step \in {"accepted", "unauthorized_client"} : Go(step)
    BY DEF ValidateGrantType
  <2>2. QED
    BY <1>1, <1>2, <1>3, <1>5, <2>1, GoKeeps
    DEF Steps, TokenSteps, Answers, Inv, TypeOK
<1>7. RequestOfStep' /\ ClientWasSeen'
  BY <1>1, <1>2, <1>3
  DEF Inv, RequestOfStep, ClientWasSeen, TokenPCs, BrowserPCs, LogoutPCs, Granted,
      TokenSteps, BrowserSteps, LogoutSteps
<1>8. WayToStep' /\ OwnSecretSuffices'
  BY <1>3 DEF WayToStep, OwnSecretSuffices
<1>9. AcceptedByOwnSecret'
  BY <1>1, <1>2 DEF Inv, AcceptedByOwnSecret
<1>10. TargetWasRegistered'
  BY <1>2, <1>3, <1>4, <1>5 DEF TargetWasRegistered
<1>11. QED
  BY <1>6, <1>7, <1>8, <1>9, <1>10 DEF Inv
-----------------------------------------------------------------------------
(* The redirects                                                             *)

\* A step of a browser's request has to keep only what concerns redirects.
LEMMA BrowserStepInv ==
  ASSUME Inv, NEW step \in BrowserPCs \cup LogoutPCs \cup {"page", "crashed"},
         pc \in BrowserSteps \cup LogoutSteps, Go(step),
         step \in BrowserPCs => pc \in BrowserPCs,
         step \in LogoutPCs => pc \in LogoutPCs,
         client' \in Loaded \cup {Absent}, target' \in URIs \cup {Absent},
         seen' = seen \/ seen' = Now,
         TargetWasRegistered'
  PROVE  Inv'
<1>1. pc' = step /\ UNCHANGED <<app, edits, request>>
  BY DEF Go
<1>2. step \in (Steps \cup Answers) \ {"idle"} /\ pc # "idle"
  BY DEF BrowserPCs, LogoutPCs, Steps, BrowserSteps, LogoutSteps, Answers
<1>3. TypeOK' /\ RowsSound'
  BY <1>2, GoKeeps
<1>4. pc' \notin TokenPCs
  BY <1>1 DEF TokenPCs, TokenSteps, Granted, BrowserPCs, LogoutPCs, BrowserSteps, LogoutSteps
<1>5. RequestOfStep'
  BY <1>1, <1>4 DEF Inv, RequestOfStep
<1>6. ClientWasSeen' /\ WayToStep' /\ AcceptedByOwnSecret' /\ OwnSecretSuffices'
  BY <1>4
  DEF ClientWasSeen, WayToStep, AcceptedByOwnSecret, OwnSecretSuffices, TokenPCs,
      TokenSteps, Granted
<1>7. QED
  BY <1>3, <1>5, <1>6 DEF Inv

LEMMA ValidateInv ==
  ASSUME Inv, pc \in {"validating", "creating"}, NEW asked \in URIs \cup {Absent},
         NEW valid \in {"loading", "sending_code"}, Validate(asked, valid)
  PROVE  Inv'
<1> DEFINE c == request.client_id
<1>1. pc \in BrowserSteps /\ pc \in BrowserPCs
  BY DEF BrowserSteps, BrowserPCs
<1>2. PICK row \in Application : row = app[c]
  BY <1>1, RequestTypes DEF Inv, TypeOK, AuthorizationRequest
<1>3. c \in Clients /\ row \in seen[c]
  BY <1>1, <1>2, RequestTypes DEF Inv, RowsSound, AuthorizationRequest, BrowserSteps
<1>4. /\ client' = [client_id |-> c, row |-> row] /\ target' = RedirectFor(row, asked)
      /\ Go(Outcome(row, asked, valid)) /\ seen' = seen
  BY <1>2 DEF Validate
<1>5. client' \in Loaded
  BY <1>2, <1>3, <1>4 DEF Loaded
<1>6. RedirectFor(row, asked) # Absent =>
        /\ RedirectFor(row, asked) \in URIs
        /\ RedirectToURIAllowed(RedirectFor(row, asked), row.redirect_uris)
  BY RedirectIsRegistered
<1>7. Outcome(row, asked, valid) \in {"crashed", "page", "sending_error", valid}
  BY DEF Outcome
<1>8. Outcome(row, asked, valid) \in {"sending_error", valid}
        => RedirectFor(row, asked) # Absent
  <2>1. AssertionFails(row, asked) => RedirectFor(row, asked) = Absent
    BY FS_EmptySet DEF AssertionFails, RedirectFor
  <2>2. QED
    BY <2>1 DEF Outcome
<1>9. TargetWasRegistered'
  BY <1>3, <1>4, <1>6, <1>7, <1>8 DEF Go, TargetWasRegistered
<1>10. QED
  BY <1>1, <1>4, <1>5, <1>6, <1>7, <1>9, BrowserStepInv DEF BrowserPCs, BrowserSteps, LogoutPCs, LogoutSteps

LEMMA ValidateLogoutInv ==
  ASSUME Inv, ValidateLogout
  PROVE  Inv'
<1> DEFINE c == request.client_id
           u == request.post_logout_redirect_uri
<1>1. pc \in {"logout", "logout_submitted"} /\ pc \in LogoutSteps /\ pc \in LogoutPCs
  BY DEF ValidateLogout, LogoutSteps, LogoutPCs
<1>2. c \in Clients /\ u \in URIs
  BY <1>1, RequestTypes DEF Inv, LogoutRequest
<1>3. PICK row \in Application : row = app[c] /\ row \in seen[c]
  BY <1>1, <1>2 DEF Inv, TypeOK, RowsSound
<1>4. /\ client' = [client_id |-> c, row |-> row] /\ seen' = seen
      /\ \/ /\ PostLogoutAllowed(row, u) /\ target' = u
            /\ Go("leaving") \/ Go("logout_form") \/ Go("page")
         \/ Go("page") /\ target' = target
  BY <1>3 DEF ValidateLogout
<1>5. client' \in Loaded /\ target' \in URIs \cup {Absent}
  BY <1>2, <1>3, <1>4 DEF Loaded, Inv, TypeOK
<1>6. PICK step \in {"leaving", "logout_form", "page"} :
        /\ Go(step)
        /\ step = "leaving" => PostLogoutAllowed(row, u) /\ target' = u
  BY <1>4
<1>7. TargetWasRegistered'
  BY <1>3, <1>4, <1>6 DEF Go, TargetWasRegistered, PostLogoutAllowed
<1>8. QED
  BY <1>1, <1>4, <1>5, <1>6, <1>7, BrowserStepInv
  DEF BrowserPCs, BrowserSteps, LogoutPCs, LogoutSteps

LEMMA ProceedBrowserInv ==
  ASSUME Inv, ProceedBrowser
  PROVE  Inv'
<1>1. client \in Loaded \cup {Absent} /\ target \in URIs \cup {Absent}
  BY DEF Inv, TypeOK
<1>2. CASE ValidateRequest
  <2>1. request.redirect_uri \in URIs \cup {Absent}
    BY <1>2, RequestTypes
    DEF ValidateRequest, Inv, AuthorizationRequest, BrowserPCs, BrowserSteps
  <2>2. QED
    BY <1>2, <2>1, ValidateInv DEF ValidateRequest
<1>3. CASE CreateResponse
  BY <1>1, <1>3, ValidateInv DEF CreateResponse
<1>4. CASE ValidateLogout
  BY <1>4, ValidateLogoutInv
<1>5. CASE LoadForm
  <2>1. PICK step \in {"creating", "form"} : Go(step)
    BY <1>5 DEF LoadForm
  <2>2. pc = "loading" /\ UNCHANGED <<client, target, seen>>
    BY <1>5 DEF LoadForm
  <2>3. TargetWasRegistered'
    BY <2>1, <2>2 DEF Go, Inv, TargetWasRegistered
  <2>4. QED
    BY <1>1, <2>1, <2>2, <2>3, BrowserStepInv
    DEF BrowserPCs, BrowserSteps, LogoutPCs, LogoutSteps
<1>6. CASE Allow
  <2>1. pc = "form" /\ Go("creating") /\ seen' = Now /\ UNCHANGED <<client, target>>
    BY <1>6 DEF Allow
  <2>2. TargetWasRegistered'
    BY <2>1 DEF Go, TargetWasRegistered
  <2>3. QED
    BY <1>1, <2>1, <2>2, BrowserStepInv
    DEF BrowserPCs, BrowserSteps, LogoutPCs, LogoutSteps
<1>7. CASE Deny
  <2>1. pc = "form" /\ Go("sending_error") /\ UNCHANGED <<client, target, seen>>
    BY <1>7 DEF Deny
  <2>2. TargetWasRegistered'
    BY <2>1 DEF Go, Inv, TargetWasRegistered
  <2>3. QED
    BY <1>1, <2>1, <2>2, BrowserStepInv
    DEF BrowserPCs, BrowserSteps, LogoutPCs, LogoutSteps
<1>8. CASE SendRedirect
  <2>1. /\ pc \in {"sending_code", "sending_error", "leaving"}
        /\ UNCHANGED <<client, target, seen>>
    BY <1>8 DEF SendRedirect
  <2>2. PICK step \in {"page", "code_sent", "error_sent", "left"} :
          /\ Go(step)
          /\ step = "code_sent" => pc = "sending_code"
          /\ step = "error_sent" => pc = "sending_error"
          /\ step = "left" => pc = "leaving"
    BY <1>8, <2>1 DEF SendRedirect
  <2>3. TargetWasRegistered'
    BY <2>1, <2>2 DEF Go, Inv, TargetWasRegistered
  <2>4. QED
    BY <1>1, <2>1, <2>2, <2>3, BrowserStepInv
    DEF BrowserPCs, BrowserSteps, LogoutPCs, LogoutSteps
<1>9. CASE SubmitLogout
  <2>1. pc = "logout_form" /\ Go("logout_submitted") /\ seen' = Now
        /\ UNCHANGED <<client, target>>
    BY <1>9 DEF SubmitLogout
  <2>2. TargetWasRegistered'
    BY <2>1 DEF Go, TargetWasRegistered
  <2>3. QED
    BY <1>1, <2>1, <2>2, BrowserStepInv
    DEF BrowserPCs, BrowserSteps, LogoutPCs, LogoutSteps
<1>10. QED
  BY <1>2, <1>3, <1>4, <1>5, <1>6, <1>7, <1>8, <1>9 DEF ProceedBrowser

LEMMA NextInv == Inv /\ [Next]_vars => Inv'
<1>1. SUFFICES ASSUME Inv, [Next]_vars PROVE Inv'
  OBVIOUS
<1>2. ASSUME NEW q \in TokenRequests, BeginToken(q) PROVE Inv'
  BY <1>1, <1>2, BeginInv DEF BeginToken
<1>3. ASSUME NEW q \in AuthorizationRequests, BeginAuthorization(q) PROVE Inv'
  BY <1>1, <1>3, BeginInv DEF BeginAuthorization
<1>4. ASSUME NEW q \in LogoutRequests, BeginLogout(q) PROVE Inv'
  BY <1>1, <1>4, BeginInv DEF BeginLogout
<1>5. CASE ProceedToken
  BY <1>1, <1>5, RequireAuthenticationInv, AuthenticateBasicInv, AuthenticateBodyInv,
     AuthenticateClientIdInv, ValidateGrantTypeInv
  DEF ProceedToken
<1>6. CASE UNCHANGED vars
  BY <1>1, <1>6, PresentedUnchanged
  DEF vars, Inv, TypeOK, RowsSound, RequestOfStep, ClientWasSeen, WayToStep,
      AcceptedByOwnSecret, OwnSecretSuffices, TargetWasRegistered
<1>7. QED
  BY <1>1, <1>2, <1>3, <1>4, <1>5, <1>6, SaveInv, ProceedBrowserInv, CloseInv DEF Next
-----------------------------------------------------------------------------
(* Theorems                                                                  *)

\* The inductive invariant: what clean() and pre_save() make of a row, what led to each
\* step of a request, and from which row its client and its target were taken.
THEOREM Invariance == Spec => []Inv
<1>1. QED
  BY InitInv, NextInv, PTL DEF Spec

\* The rows, the request and what is kept of it have their types.
THEOREM TypeCorrect == Spec => []TypeOK
<1>1. Inv => TypeOK
  BY DEF Inv
<1>2. QED
  BY <1>1, Invariance, PTL

\* No token request is granted to a client whose own secret, as it was during the
\* request, did not come with its name in one part of the request, unless the client
\* was public then and needed none.
THEOREM AcceptedOnOwnSecret == Spec => []AcceptedByOwnSecret
<1>1. Inv => AcceptedByOwnSecret
  BY DEF Inv
<1>2. QED
  BY <1>1, Invariance, PTL

\* A client that is not being edited and presents the secret that was typed in last is
\* never refused as an invalid client, hashed once, twice saved, or in clear text.
THEOREM OwnSecretIsEnough == Spec => []OwnSecretSuffices
<1>1. Inv => OwnSecretSuffices
  BY DEF Inv
<1>2. QED
  BY <1>1, Invariance, PTL

\* Codes, errors, the end of a logout and answers to an origin go where the client
\* had registered them to go.
THEOREM AnswersGoToRegistered == Spec => []SentOnlyToRegistered
<1>1. Inv => SentOnlyToRegistered
  BY DEF Inv, TargetWasRegistered, SentOnlyToRegistered
<1>2. QED
  BY <1>1, Invariance, PTL
-----------------------------------------------------------------------------
(* The domain of a host with a wildcard                                      *)

LEMMA PositionsFinite ==
  ASSUME NEW n \in Nat, NEW D \in SUBSET (1..n)
  PROVE  IsFiniteSet(D) /\ Cardinality(D) \in Nat
<1>1. 1 \in Int /\ n \in Int
  OBVIOUS
<1>2. IsFiniteSet(1..n)
  BY <1>1, FS_Interval
<1>3. IsFiniteSet(D)
  BY <1>2, FS_Subset
<1>4. QED
  BY <1>3, FS_CardinalityType

LEMMA Greatest ==
  ASSUME NEW n \in Nat, NEW D \in SUBSET (1..n), D # {}
  PROVE  \E m \in D : \A k \in D : k <= m
<1> DEFINE less == OpToRel(<, Nat)
           T == {n - k : k \in D}
<1>1. T \subseteq Nat /\ T # {}
  <2>1. \A k \in D : n - k \in Nat
    OBVIOUS
  <2>2. QED
    BY <2>1
<1>2. IsWellFoundedOn(less, Nat)
  BY NatLessThanWellFounded
<1>3. \A x, y \in Nat : y < x => <<y, x>> \in less
  BY DEF OpToRel
<1> HIDE DEF less
<1>4. \E x \in T : \A y \in T : <<y, x>> \notin less
  BY <1>1, <1>2, WFMin
<1>5. PICK m \in D : \A y \in T : <<y, n - m>> \notin less
  BY <1>4
<1>6. ASSUME NEW k \in D PROVE k <= m
  <2>1. n - k \in T /\ n - k \in Nat /\ n - m \in Nat
    BY <1>1
  <2>2. ~(n - k < n - m)
    BY <1>3, <1>5, <2>1
  <2>3. n \in Int /\ k \in Int /\ m \in Int
    OBVIOUS
  <2>4. QED
    BY <2>2, <2>3
<1>7. QED
  BY <1>6

\* The last two of at least two positions
LEMMA LastTwo ==
  ASSUME NEW n \in Nat, NEW D \in SUBSET (1..n), Cardinality(D) >= 2
  PROVE  \E i, j \in D : i < j /\ \A k \in D : k >= i => k \in {i, j}
<1>1. IsFiniteSet(D) /\ Cardinality(D) \in Nat
  BY PositionsFinite
<1>2. D # {}
  BY <1>1, FS_EmptySet
<1>3. PICK j \in D : \A k \in D : k <= j
  BY <1>2, Greatest
<1>4. IsFiniteSet(D \ {j}) /\ Cardinality(D \ {j}) = Cardinality(D) - 1
  BY <1>1, FS_RemoveElement
<1>5. D \ {j} # {}
  BY <1>1, <1>4, FS_EmptySet
<1>6. D \ {j} \in SUBSET (1..n)
  OBVIOUS
<1>7. PICK i \in D \ {j} : \A k \in D \ {j} : k <= i
  BY <1>5, <1>6, Greatest
<1>8. i \in Int /\ j \in Int /\ i # j /\ i <= j
  BY <1>3
<1>9. \A k \in D : k \in Int
  OBVIOUS
<1>10. \A k \in D : k >= i => k \in {i, j}
  BY <1>7, <1>8, <1>9
<1>11. QED
  BY <1>8, <1>10

\* Domain() finds the last position but one.
LEMMA LastButOne ==
  ASSUME NEW n \in Nat, NEW D \in SUBSET (1..n), NEW i \in D, NEW j \in D, i < j,
         \A k \in D : k >= i => k \in {i, j}
  PROVE  {x \in D : Cardinality({y \in D : y >= x}) = 2} = {i}
<1>1. i \in Int /\ j \in Int /\ \A k \in D : k \in Int
  OBVIOUS
<1>2. IsFiniteSet({i}) /\ Cardinality({i}) = 1
  BY FS_Singleton
<1>3. IsFiniteSet({i, j}) /\ Cardinality({i, j}) = 2
  <2>1. {i, j} = {i} \cup {j} /\ j \notin {i}
    BY <1>1
  <2>2. QED
    BY <1>2, <2>1, FS_AddElement
<1>4. {y \in D : y >= i} = {i, j}
  <2>1. j >= i /\ i >= i
    BY <1>1
  <2>2. QED
    BY <1>1, <2>1
<1>5. ASSUME NEW x \in D, x > i
      PROVE  Cardinality({y \in D : y >= x}) = 1
  <2>1. x = j
    BY <1>1, <1>5
  <2>2. \A y \in D : y >= x <=> y = j
    BY <1>1, <1>5, <2>1
  <2>3. {y \in D : y >= x} = {j}
    BY <2>1, <2>2
  <2>4. QED
    BY <2>3, FS_Singleton
<1>6. ASSUME NEW x \in D, x < i
      PROVE  Cardinality({y \in D : y >= x}) >= 3
  <2> DEFINE S == {y \in D : y >= x}
  <2>1. IsFiniteSet(S) /\ Cardinality(S) \in Nat
    <3>1. S \in SUBSET (1..n)
      OBVIOUS
    <3>2. QED
      BY <3>1, PositionsFinite
  <2>2. IsFiniteSet({i, j} \cup {x}) /\ Cardinality({i, j} \cup {x}) = 3
    <3>1. x \notin {i, j}
      BY <1>1, <1>6
    <3>2. QED
      BY <1>3, <3>1, FS_AddElement
  <2>3. {i, j} \cup {x} \in SUBSET S
    BY <1>1, <1>6
  <2> HIDE DEF S
  <2>4. QED
    BY <2>1, <2>2, <2>3, FS_Subset DEF S
<1>7. \A x \in D : Cardinality({y \in D : y >= x}) = 2 <=> x = i
  <2>1. SUFFICES ASSUME NEW x \in D
                 PROVE  Cardinality({y \in D : y >= x}) = 2 <=> x = i
    OBVIOUS
  <2>2. CASE x = i
    BY <1>3, <1>4, <2>2
  <2>3. CASE x > i
    BY <1>1, <1>5, <2>3
  <2>4. CASE x < i
    <3>1. Cardinality({y \in D : y >= x}) >= 3
      BY <1>6, <2>4
    <3>2. Cardinality({y \in D : y >= x}) # 2
      BY <3>1
    <3>3. QED
      BY <1>1, <2>4, <3>2
  <2>5. QED
    BY <1>1, <2>2, <2>3, <2>4
<1>8. QED
  BY <1>7

\* The end of a host
LEMMA EndIs ==
  ASSUME NEW s \in Seq(STRING), NEW m \in Nat, m <= Len(s)
  PROVE  /\ SubSeq(s, m + 1, Len(s)) \in Seq(STRING)
         /\ Len(SubSeq(s, m + 1, Len(s))) = Len(s) - m
         /\ \A k \in 1..(Len(s) - m) : SubSeq(s, m + 1, Len(s))[k] = s[m + k]
OBVIOUS

\* Behind a wildcard are two labels at least, and a host that matches ends with them.
LEMMA WildcardKeepsDomain ==
  ASSUME NEW a \in Seq(STRING), NEW h \in Seq(STRING),
         StartsWith(a, "*"), Labels(a) >= 3, IsSuffix(Tail(a), h)
  PROVE  Domain(a) = Domain(h)
<1> DEFINE n == Len(a)
           d == Len(h) - n
           A == {k \in DOMAIN a : a[k] = "."}
           H == {k \in DOMAIN h : h[k] = "."}
           last(D) == {x \in D : Cardinality({y \in D : y >= x}) = 2}
<1>1. a # <<>> /\ a[1] = "*" /\ Cardinality(A) + 1 >= 3
  BY DEF StartsWith, Labels, CountOf
<1>2. /\ n \in Nat /\ n # 0 /\ Len(h) \in Nat /\ d \in Int
      /\ DOMAIN a = 1..n /\ DOMAIN h = 1..Len(h)
  BY <1>1
<1>3. /\ Tail(a) \in Seq(STRING) /\ Len(Tail(a)) = n - 1
      /\ \A k \in 1..(n - 1) : Tail(a)[k] = a[k + 1]
  BY <1>1
<1>4. n - 1 <= Len(h) /\ \A k \in 2..n : a[k] = h[k + d]
  <2>1. /\ n - 1 <= Len(h)
        /\ \A k \in 1..(n - 1) : Tail(a)[k] = h[k + (Len(h) - (n - 1))]
    BY <1>3, SuffixIs
  <2>2. SUFFICES ASSUME NEW k \in 2..n PROVE a[k] = h[k + d]
    BY <2>1
  <2>3. k - 1 \in 1..(n - 1) /\ (k - 1) + 1 = k
        /\ (k - 1) + (Len(h) - (n - 1)) = k + d
    BY <1>2
  <2>4. QED
    BY <1>3, <2>1, <2>3
<1>5. A \in SUBSET (1..n) /\ H \in SUBSET (1..Len(h)) /\ 1 \notin A
  BY <1>1, <1>2
<1>6. Cardinality(A) >= 2
  <2>1. Cardinality(A) \in Nat
    BY <1>2, <1>5, PositionsFinite
  <2>2. QED
    BY <1>1, <2>1
<1>7. PICK i \in A, j \in A : i < j /\ \A k \in A : k >= i => k \in {i, j}
  <2>1. n \in Nat /\ A \in SUBSET (1..n) /\ Cardinality(A) >= 2
    BY <1>2, <1>5, <1>6
  <2> HIDE DEF A, n
  <2>2. QED
    BY <2>1, LastTwo
<1>8. i \in 2..n /\ j \in 2..n /\ a[i] = "." /\ a[j] = "."
  BY <1>2, <1>5
<1>9. last(A) = {i}
  <2> HIDE DEF A
  <2>1. QED
    BY <1>2, <1>5, <1>7, LastButOne
<1>10. i + d \in H /\ j + d \in H
  BY <1>2, <1>4, <1>8
<1>11. \A k \in H : k >= i + d => k \in {i + d, j + d}
  <2>1. SUFFICES ASSUME NEW k \in H, k >= i + d PROVE k \in {i + d, j + d}
    OBVIOUS
  <2>2. k \in 1..Len(h) /\ h[k] = "."
    BY <1>2
  <2>3. k - d \in 2..n /\ (k - d) + d = k
    BY <1>2, <1>8, <2>1, <2>2
  <2>4. k - d \in A /\ k - d >= i
    BY <1>2, <1>4, <1>8, <2>1, <2>2, <2>3
  <2>5. k - d \in {i, j}
    BY <1>7, <2>4
  <2>6. QED
    BY <2>3, <2>5
<1>12. last(H) = {i + d}
  <2>1. i + d < j + d
    BY <1>2, <1>7, <1>8
  <2> HIDE DEF H
  <2>2. QED
    BY <1>2, <1>5, <1>10, <1>11, <2>1, LastButOne
<1>13. Domain(a) = SubSeq(a, i + 1, n)
  <2>1. Domain(a) = SubSeq(a, IF last(A) = {} THEN 1 ELSE (CHOOSE x \in last(A) : TRUE) + 1, n)
    BY DEF Domain
  <2>2. last(A) # {} /\ (CHOOSE x \in last(A) : TRUE) = i
    BY <1>9
  <2>3. QED
    BY <2>1, <2>2
<1>14. Domain(h) = SubSeq(h, (i + d) + 1, Len(h))
  <2>1. Domain(h) =
          SubSeq(h, IF last(H) = {} THEN 1 ELSE (CHOOSE x \in last(H) : TRUE) + 1, Len(h))
    BY DEF Domain
  <2>2. last(H) # {} /\ (CHOOSE x \in last(H) : TRUE) = i + d
    BY <1>12
  <2>3. QED
    BY <2>1, <2>2
<1> HIDE DEF last, A, H
<1>15. SubSeq(a, i + 1, n) = SubSeq(h, (i + d) + 1, Len(h))
  <2> DEFINE s == SubSeq(a, i + 1, n)
             t == SubSeq(h, (i + d) + 1, Len(h))
  <2>1. /\ s \in Seq(STRING) /\ Len(s) = n - i
        /\ \A k \in 1..(n - i) : s[k] = a[i + k]
    <3>1. i \in Nat /\ i <= n
      BY <1>8
    <3>2. QED
      BY <3>1, EndIs
  <2>2. /\ i + d \in 1..Len(h) /\ Len(h) - (i + d) = n - i
    BY <1>2, <1>4, <1>8
  <2>3. /\ t \in Seq(STRING) /\ Len(t) = n - i
        /\ \A k \in 1..(n - i) : t[k] = h[(i + d) + k]
    BY <1>2, <2>2
  <2>4. \A k \in 1..(n - i) : s[k] = t[k]
    <3>1. SUFFICES ASSUME NEW k \in 1..(n - i) PROVE s[k] = t[k]
      OBVIOUS
    <3>2. i + k \in 2..n /\ (i + k) + d = (i + d) + k
      BY <1>2, <1>8
    <3>3. QED
      BY <1>4, <2>1, <2>3, <3>2
  <2> HIDE DEF s, t
  <2>5. s = t
    BY <1>2, <2>1, <2>3, <2>4
  <2>6. QED
    BY <2>5 DEF s, t
<1>16. QED
  BY <1>13, <1>14, <1>15

LEMMA BeginningIs ==
  ASSUME NEW s \in Seq(STRING), NEW m \in Nat, m <= Len(s)
  PROVE  /\ SubSeq(s, 1, m) \in Seq(STRING)
         /\ Len(SubSeq(s, 1, m)) = m
         /\ \A k \in 1..m : SubSeq(s, 1, m)[k] = s[k]
OBVIOUS

\* A suffix with a last dot is one without it of what the host is without its own.
LEMMA SuffixWithoutRoot ==
  ASSUME NEW a \in Seq(STRING), NEW h \in Seq(STRING), Len(a) >= 2,
         StartsWith(a, "*"), IsSuffix(Tail(a), h)
  PROVE  /\ WithoutRoot(a) \in Seq(STRING) /\ WithoutRoot(h) \in Seq(STRING)
         /\ StartsWith(WithoutRoot(a), "*")
         /\ IsSuffix(Tail(WithoutRoot(a)), WithoutRoot(h))
<1> DEFINE n == Len(a)
           m == Len(h)
<1>1. n \in Nat /\ m \in Nat /\ n >= 2 /\ a # <<>> /\ a[1] = "*"
  BY DEF StartsWith
<1>2. /\ Tail(a) \in Seq(STRING) /\ Len(Tail(a)) = n - 1
      /\ \A k \in 1..(n - 1) : Tail(a)[k] = a[k + 1]
  BY <1>1
<1>3. n - 1 <= m /\ \A k \in 1..(n - 1) : a[k + 1] = h[k + (m - (n - 1))]
  BY <1>2, SuffixIs
<1>4. m >= 1 /\ h # <<>> /\ a[n] = h[m]
  <2>1. n - 1 \in 1..(n - 1) /\ (n - 1) + 1 = n /\ (n - 1) + (m - (n - 1)) = m
    BY <1>1
  <2>2. QED
    BY <1>1, <1>3, <2>1
<1>5. CASE a[n] # "."
  <2>1. WithoutRoot(a) = a /\ WithoutRoot(h) = h
    BY <1>1, <1>4, <1>5 DEF WithoutRoot, EndsWithDot, Last
  <2>2. QED
    BY <2>1
<1>6. CASE a[n] = "."
  <2> DEFINE b == SubSeq(a, 1, n - 1)
             g == SubSeq(h, 1, m - 1)
  <2>1. WithoutRoot(a) = b /\ WithoutRoot(h) = g
    BY <1>1, <1>4, <1>6 DEF WithoutRoot, EndsWithDot, Last, Front
  <2>2. /\ b \in Seq(STRING) /\ Len(b) = n - 1 /\ \A k \in 1..(n - 1) : b[k] = a[k]
        /\ g \in Seq(STRING) /\ Len(g) = m - 1 /\ \A k \in 1..(m - 1) : g[k] = h[k]
    <3>1. n - 1 \in Nat /\ n - 1 <= Len(a) /\ m - 1 \in Nat /\ m - 1 <= Len(h)
      BY <1>1, <1>4
    <3> HIDE DEF n, m
    <3>2. QED
      BY <3>1, BeginningIs
  <2> HIDE DEF b, g
  <2>3. b # <<>> /\ b[1] = "*"
    BY <1>1, <2>2
  <2>4. /\ Tail(b) \in Seq(STRING) /\ Len(Tail(b)) = n - 2
        /\ \A k \in 1..(n - 2) : Tail(b)[k] = b[k + 1]
    BY <1>1, <2>2, <2>3
  <2>5. ASSUME NEW k \in 1..(n - 2)
        PROVE  Tail(b)[k] = g[k + ((m - 1) - (n - 2))]
    <3>1. /\ k \in 1..(n - 1) /\ k + 1 \in 1..(n - 1)
          /\ k + ((m - 1) - (n - 2)) = k + (m - (n - 1))
          /\ k + (m - (n - 1)) \in 1..(m - 1)
      BY <1>1, <1>3
    <3>2. Tail(b)[k] = a[k + 1]
      BY <2>2, <2>4, <3>1
    <3>3. a[k + 1] = h[k + (m - (n - 1))]
      BY <1>3, <3>1
    <3>4. QED
      BY <2>2, <3>1, <3>2, <3>3
  <2>6. n - 2 <= m - 1
    BY <1>1, <1>3
  <2>7. IsSuffix(Tail(b), g)
    BY <2>2, <2>4, <2>5, <2>6, SuffixIs
  <2>8. QED
    BY <2>1, <2>2, <2>3, <2>7 DEF StartsWith
<1>7. QED
  BY <1>5, <1>6

\* A registered host with a wildcard has labels behind it.
LEMMA WildcardIsLong ==
  ASSUME NEW a \in Seq(STRING), WildcardAllowed(a)
  PROVE  Len(a) >= 2
<1>1. a # <<>> /\ a[1] = "*" /\ Cardinality({k \in DOMAIN a : a[k] = "."}) + 1 >= 3
  BY DEF WildcardAllowed, StartsWith, Labels, CountOf
<1>2. PICK n \in Nat : n = Len(a)
  OBVIOUS
<1>3. n # 0
  BY <1>1, <1>2
<1>4. n # 1
  <2>1. SUFFICES ASSUME n = 1 PROVE FALSE
    OBVIOUS
  <2>2. {k \in DOMAIN a : a[k] = "."} = {}
    <3>1. DOMAIN a = 1..n
      BY <1>2
    <3>2. \A k \in 1..n : k = 1
      BY <2>1
    <3>3. QED
      BY <1>1, <3>1, <3>2
  <2>3. Cardinality({k \in DOMAIN a : a[k] = "."}) = 0
    BY <2>2, FS_EmptySet
  <2>4. PICK c : c = Cardinality({k \in DOMAIN a : a[k] = "."})
    OBVIOUS
  <2>5. c + 1 >= 3 /\ c = 0
    BY <1>1, <2>3, <2>4
  <2>6. QED
    BY <2>5
<1>5. n >= 2
  BY <1>3, <1>4
<1>6. QED
  BY <1>2, <1>5

LEMMA KeepsDomain ==
  ASSUME NEW u, NEW v, u.host \in Seq(STRING), v.host \in Seq(STRING),
         HostValid(u.host), HostMatches(u.host, v.host)
  PROVE  SameDomain(u, v) \/ WildcardUnderRoot(u)
<1> DEFINE a == u.host
           h == v.host
<1>1. CASE ~(ALLOW_URI_WILDCARDS /\ StartsWith(a, "*"))
  <2>1. a = h
    BY <1>1 DEF HostMatches
  <2>2. QED
    BY <2>1 DEF SameDomain
<1>2. CASE ALLOW_URI_WILDCARDS /\ StartsWith(a, "*")
  <2>1. IsSuffix(Tail(a), h)
    BY <1>2 DEF HostMatches
  <2> DEFINE S == {k \in DOMAIN a : a[k] = "*"}
  <2>2. 1 \in S /\ S \in SUBSET (1..Len(a)) /\ Len(a) \in Nat
    BY <1>2 DEF StartsWith
  <2>3. Cardinality(S) > 0
    <3> HIDE DEF S
    <3>1. IsFiniteSet(S) /\ Cardinality(S) \in Nat
      BY <2>2, PositionsFinite
    <3>2. QED
      BY <2>2, <3>1, FS_EmptySet
  <2>4. WildcardAllowed(a)
    BY <1>2, <2>3 DEF HostValid, CountOf
  <2>5. /\ WithoutRoot(a) \in Seq(STRING) /\ WithoutRoot(h) \in Seq(STRING)
        /\ StartsWith(WithoutRoot(a), "*")
        /\ IsSuffix(Tail(WithoutRoot(a)), WithoutRoot(h))
    BY <1>2, <2>1, <2>4, WildcardIsLong, SuffixWithoutRoot
  <2>6. CASE Labels(WithoutRoot(a)) >= 3
    BY <2>5, <2>6, WildcardKeepsDomain DEF SameDomain
  <2>7. CASE ~(Labels(WithoutRoot(a)) >= 3)
    <3>1. EndsWithDot(a)
      BY <2>4, <2>7 DEF WithoutRoot, WildcardAllowed
    <3>2. Labels(WithoutRoot(a)) \in Nat
      <4> DEFINE D == {k \in DOMAIN WithoutRoot(a) : WithoutRoot(a)[k] = "."}
      <4>1. Len(WithoutRoot(a)) \in Nat /\ D \in SUBSET (1..Len(WithoutRoot(a)))
        BY <2>5
      <4>2. Cardinality(D) \in Nat
        <5> HIDE DEF D
        <5>1. QED
          BY <4>1, PositionsFinite
      <4>3. QED
        BY <4>2 DEF Labels, CountOf
    <3>3. QED
      BY <1>2, <2>7, <3>1, <3>2 DEF WildcardUnderRoot
  <2>8. QED
    BY <2>6, <2>7
<1>3. QED
  BY <1>1, <1>2

LEMMA RegisteredDomain ==
  ASSUME NEW row, SoundRow(row), NEW u \in URIs, RedirectToURIAllowed(u, row.redirect_uris)
  PROVE  \E v \in row.redirect_uris :
           Alike(v, u) /\ (SameDomain(v, u) \/ WildcardUnderRoot(v))
<1>1. PICK v \in row.redirect_uris : Matches(v, u)
  BY DEF RedirectToURIAllowed
<1>2. v \in URIs /\ ValidRedirectURI(v)
  BY <1>1 DEF SoundRow, Application, Clean
<1>3. v.host \in Seq(STRING) /\ u.host \in Seq(STRING)
  BY <1>2, URIsAssumption DEF IsURI
<1>4. HostValid(v.host) /\ HostMatches(v.host, u.host)
  BY <1>1, <1>2 DEF ValidRedirectURI, Matches
<1>5. SameDomain(v, u) \/ WildcardUnderRoot(v)
  BY <1>3, <1>4, KeepsDomain
<1>6. QED
  BY <1>1, <1>5 DEF Matches, Alike

\* Codes and errors stay in a domain that was registered, at the path that was, whatever
\* wildcards a form was saved with and however the client was edited since; but for a
\* wildcard right under a last dot, which clean() takes for one in the third level.
THEOREM WildcardsStay == Spec => []WildcardStaysInDomain
<1>1. ASSUME Inv, pc \in {"code_sent", "error_sent"}
      PROVE  \E row \in seen[request.client_id] : \E u \in row.redirect_uris :
               Alike(u, target) /\ (SameDomain(u, target) \/ WildcardUnderRoot(u))
  <2>1. request.client_id \in Clients
    BY <1>1, RequestTypes DEF Inv, BrowserPCs, AuthorizationRequest
  <2>2. PICK row \in seen[request.client_id] :
          RedirectToURIAllowed(target, row.redirect_uris)
    BY <1>1 DEF Inv, TargetWasRegistered
  <2>3. SoundRow(row) /\ target \in URIs
    BY <1>1, <2>1 DEF Inv, RowsSound, TargetWasRegistered
  <2>4. QED
    BY <2>2, <2>3, RegisteredDomain
<1>2. Inv => WildcardStaysInDomain
  BY <1>1 DEF WildcardStaysInDomain
<1>3. QED
  BY <1>2, Invariance, PTL
=============================================================================
