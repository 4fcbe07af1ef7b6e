----------------------------- MODULE DeviceFlow -----------------------------
(***************************************************************************)
(* The device authorization grant: a device starts it and polls the token  *)
(* endpoint (views/base.py), a user enters the code the device shows and   *)
(* accepts or denies (views/device.py), all over the rows of DeviceGrant   *)
(* (models.py).                                                            *)
(*                                                                         *)
(* Every view reads a row, decides on what it read, and saves one column   *)
(* of it later with update_fields, without a lock: the read and the save   *)
(* are two actions.  Scopes, the verification URI and the client of the    *)
(* poll are left out.                                                      *)
(***************************************************************************)
EXTENDS Naturals, FiniteSets

CONSTANTS
  Browsers,        \* requests of users' browsers that may run at once
  Pollers,         \* requests of devices that may run at once
  Users,
  Clients,         \* client_id of the applications that serve devices
  UserCodes,       \* the short codes, drawn at random
  Anonymous,       \* the NULL user of a grant nobody entered the code of
  Absent,          \* a primary key that has no row
  EXPIRES_IN,      \* seconds a grant is good for
  MaxGrants,       \* bound: device grants ever created
  MaxTokens,       \* bound: tokens ever created
  MaxTime,         \* bound: clock readings
  Serial           \* TRUE: a deployment that serves one request at a time

ASSUME ConstantsAssumption ==
  /\ MaxGrants \in Nat /\ MaxTokens \in Nat /\ MaxTime \in Nat \ {0}
  /\ EXPIRES_IN \in Nat
  /\ Anonymous \notin Users
  /\ Browsers \cap Pollers = {}
  /\ Serial \in BOOLEAN

Grants == 1..MaxGrants
Tokens == 1..MaxTokens
Workers == Browsers \cup Pollers
Status == {"authorization-pending", "authorized", "denied", "expired"}

\* A row of AbstractDeviceGrant; its key stands for the device code.
GrantRow == [client_id : Clients, user_code : UserCodes, user : Users \cup {Anonymous},
             status : Status, expires : Nat]

\* An access token and the refresh token issued with it, which must have a user.
TokenRow == [grant : Grants, user : Users]

\* What a request is about to do: save "expired", the user, or a decision; for
\* a poll, read the grant again or save a token.
Steps   == {"expiring", "binding", "accepting", "denying", "authorized", "saving"}
Answers == {"idle", "ok", "refused", "error"}   \* waiting, and the last answer
Request == [grant : Grants, user : Users \cup {Anonymous}]

ASSUME AbsentAssumption == Absent \notin GrantRow \cup TokenRow \cup Request

VARIABLES
  now, DeviceGrant, nextGrant, AccessToken, nextToken,
  pc, request,
  entered,     \* history: the users who entered the code each device showed
  accepted,    \* history: the users who accepted each grant
  denied       \* history: the users who denied it

db   == <<DeviceGrant, nextGrant, AccessToken, nextToken>>
hist == <<entered, accepted, denied>>
vars == <<now, db, pc, request, hist>>

Exists(g)  == DeviceGrant[g] # Absent

\* Mutant of Authorized: a poll is refused only when the user denied.
NotDenied(g) == Exists(g) /\ DeviceGrant[g].status # "denied"

Authorized(g) == Exists(g) /\ DeviceGrant[g].status = "authorized"
Busy(p)    == pc[p] \in Steps
Undisturbed == Serial => \A p \in Workers : ~Busy(p)
Free(p)    == ~Busy(p) /\ Undisturbed
Goto(p, step) == pc' = [pc EXCEPT ![p] = step]

Begin(p, step, g, u) ==
  /\ Goto(p, step)
  /\ request' = [request EXCEPT ![p] = [grant |-> g, user |-> u]]

Answer(p, status) ==
  /\ Goto(p, status)
  /\ request' = [request EXCEPT ![p] = Absent]

\* save(update_fields=["status"]): an UPDATE by key, on whatever the row is now
SaveStatus(g, status) ==
  DeviceGrant' = [DeviceGrant EXCEPT ![g].status = status]

\* Bound: a token is promised only while a key is left for each one under way.
KeyLeft == nextToken + Cardinality({p \in Pollers : Busy(p)}) <= MaxTokens
-----------------------------------------------------------------------------
\* DeviceAuthorizationView and create_device_grant. user_code has no unique
\* constraint: another grant may have drawn the same one.
Initiate(c, code) ==
  /\ Undisturbed
  /\ nextGrant <= MaxGrants
  /\ DeviceGrant' = [DeviceGrant EXCEPT ![nextGrant] =
       [client_id |-> c, user_code |-> code, user |-> Anonymous,
        status |-> "authorization-pending", expires |-> now + EXPIRES_IN]]
  /\ nextGrant' = nextGrant + 1
  /\ UNCHANGED <<now, AccessToken, nextToken, pc, request, hist>>
-----------------------------------------------------------------------------
(* DeviceGrantForm.clean_user_code, then DeviceUserCodeView.form_valid        *)

\* DeviceGrant.objects.get(user_code=...) finds the rows with this code
WithCode(code) == {g \in Grants : Exists(g) /\ DeviceGrant[g].user_code = code}

\* get() raises MultipleObjectsReturned, which nothing catches
EnterSharedCode(b, code) ==
  /\ Free(b)
  /\ Cardinality(WithCode(code)) > 1
  /\ Answer(b, "error")
  /\ UNCHANGED <<now, db, hist>>

\* User u enters the code that device grant g shows. What happens is decided
\* on the row as it is read here: is_expired() first, then the status.
EnterCode(b, u, g) ==
  LET row == DeviceGrant[g] IN
  /\ Free(b)
  /\ Exists(g)
  /\ WithCode(row.user_code) = {g}
  /\ \/ /\ row.status # "expired" /\ now >= row.expires
        /\ Begin(b, "expiring", g, u)
     \/ /\ row.status = "expired" \/ (now < row.expires /\ row.status # "authorization-pending")
        /\ Answer(b, "refused")
     \/ /\ row.status = "authorization-pending" /\ now < row.expires
        /\ Begin(b, "binding", g, u)
  /\ entered' = [entered EXCEPT ![g] = @ \cup {u}]
  /\ UNCHANGED <<now, db, accepted, denied>>

\* is_expired() saves the status
MarkExpired(b) ==
  /\ pc[b] = "expiring"
  /\ SaveStatus(request[b].grant, "expired")
  /\ Answer(b, "refused")
  /\ UNCHANGED <<now, nextGrant, AccessToken, nextToken, hist>>

\* Mutant of BindUser: save() without update_fields writes the status read before.
BindUserAndStatus(b) ==
  LET g == request[b].grant IN
  /\ pc[b] = "binding"
  /\ DeviceGrant' = [DeviceGrant EXCEPT ![g].user = request[b].user,
                                        ![g].status = "authorization-pending"]
  /\ Answer(b, "ok")
  /\ UNCHANGED <<now, nextGrant, AccessToken, nextToken, hist>>

\* save(update_fields=["user"])
BindUser(b) ==
  /\ pc[b] = "binding"
  /\ DeviceGrant' = [DeviceGrant EXCEPT ![request[b].grant].user = request[b].user]
  /\ Answer(b, "ok")
  /\ UNCHANGED <<now, nextGrant, AccessToken, nextToken, hist>>
-----------------------------------------------------------------------------
(* DeviceConfirmView: any user who is logged in and has the URL               *)

\* Mutant of Pending: the status is not part of the lookup.
PendingOrNot(c, code) == {g \in WithCode(code) : DeviceGrant[g].client_id = c}

\* get_object() looks for a pending grant with the client and the code of the URL
Pending(c, code) ==
  {g \in WithCode(code) : /\ DeviceGrant[g].client_id = c
                          /\ DeviceGrant[g].status = "authorization-pending"}

\* Http404 for none, and MultipleObjectsReturned for two, which nothing catches
ConfirmFails(b, c, code) ==
  /\ Free(b)
  /\ \/ Pending(c, code) = {} /\ Answer(b, "refused")
     \/ Cardinality(Pending(c, code)) > 1 /\ Answer(b, "error")
  /\ UNCHANGED <<now, db, hist>>

\* get_object() finds the row pending; neither its user nor its expiry is read.
Confirm(b, u, g, decision) ==
  /\ Free(b)
  /\ Exists(g)
  /\ Pending(DeviceGrant[g].client_id, DeviceGrant[g].user_code) = {g}
  /\ Begin(b, decision, g, u)
  /\ UNCHANGED <<now, db, hist>>

\* Mutant of Accept: the user who accepts is saved as the user of the grant.
AcceptAndBind(b) ==
  LET g == request[b].grant IN
  /\ pc[b] = "accepting"
  /\ DeviceGrant' = [DeviceGrant EXCEPT ![g].status = "authorized",
                                        ![g].user = request[b].user]
  /\ accepted' = [accepted EXCEPT ![g] = @ \cup {request[b].user}]
  /\ Answer(b, "ok")
  /\ UNCHANGED <<now, nextGrant, AccessToken, nextToken, entered, denied>>

Accept(b) ==
  LET g == request[b].grant IN
  /\ pc[b] = "accepting"
  /\ SaveStatus(g, "authorized")
  /\ accepted' = [accepted EXCEPT ![g] = @ \cup {request[b].user}]
  /\ Answer(b, "ok")
  /\ UNCHANGED <<now, nextGrant, AccessToken, nextToken, entered, denied>>

\* Mutant of Deny: the error code of the protocol is saved as the status.
DenySavesError(b) ==
  LET g == request[b].grant IN
  /\ pc[b] = "denying"
  /\ SaveStatus(g, "access_denied")
  /\ denied' = [denied EXCEPT ![g] = @ \cup {request[b].user}]
  /\ Answer(b, "ok")
  /\ UNCHANGED <<now, nextGrant, AccessToken, nextToken, entered, accepted>>

Deny(b) ==
  LET g == request[b].grant IN
  /\ pc[b] = "denying"
  /\ SaveStatus(g, "denied")
  /\ denied' = [denied EXCEPT ![g] = @ \cup {request[b].user}]
  /\ Answer(b, "ok")
  /\ UNCHANGED <<now, nextGrant, AccessToken, nextToken, entered, accepted>>
-----------------------------------------------------------------------------
(* TokenView.device_flow_token_response                                      *)

PollRefused(p, g) ==
  /\ Free(p)
  /\ ~Authorized(g)
  /\ Answer(p, "refused")
  /\ UNCHANGED <<now, db, hist>>

PollAuthorized(p, g) ==
  /\ Free(p) /\ KeyLeft
  /\ Authorized(g)
  /\ Begin(p, "authorized", g, Anonymous)
  /\ UNCHANGED <<now, db, hist>>

\* Mutant of ReadUser: OAUTH_PRE_TOKEN_VALIDATION without its hook
ReadNobody(p) ==
  /\ pc[p] = "authorized"
  /\ Goto(p, "saving")
  /\ UNCHANGED <<now, db, request, hist>>

\* set_oauthlib_user_to_device_request_user reads the row a second time
ReadUser(p) ==
  /\ pc[p] = "authorized"
  /\ request' = [request EXCEPT ![p].user = DeviceGrant[request[p].grant].user]
  /\ Goto(p, "saving")
  /\ UNCHANGED <<now, db, hist>>

\* save_bearer_token; the grant stays as it is, for the next poll
SaveToken(p) ==
  /\ pc[p] = "saving"
  /\ request[p].user # Anonymous
  /\ nextToken <= MaxTokens
  /\ AccessToken' = [AccessToken EXCEPT ![nextToken] =
       [grant |-> request[p].grant, user |-> request[p].user]]
  /\ nextToken' = nextToken + 1
  /\ Answer(p, "ok")
  /\ UNCHANGED <<now, DeviceGrant, nextGrant, hist>>

\* A refresh token without a user violates NOT NULL: the transaction is rolled
\* back with the access token, and nothing catches the IntegrityError.
SaveTokenFails(p) ==
  /\ pc[p] = "saving"
  /\ request[p].user = Anonymous
  /\ Answer(p, "error")
  /\ UNCHANGED <<now, db, hist>>

Tick ==
  /\ now < MaxTime
  /\ now' = now + 1
  /\ UNCHANGED <<db, pc, request, hist>>
-----------------------------------------------------------------------------
Init ==
  /\ now = 1
  /\ DeviceGrant = [g \in Grants |-> Absent]
  /\ nextGrant = 1
  /\ AccessToken = [t \in Tokens |-> Absent]
  /\ nextToken = 1
  /\ pc = [p \in Workers |-> "idle"]
  /\ request = [p \in Workers |-> Absent]
  /\ entered = [g \in Grants |-> {}]
  /\ accepted = [g \in Grants |-> {}]
  /\ denied = [g \in Grants |-> {}]

Visit(b) ==
  \/ \E code \in UserCodes :
       EnterSharedCode(b, code) \/ \E c \in Clients : ConfirmFails(b, c, code)
  \/ \E u \in Users, g \in Grants :
       \/ EnterCode(b, u, g)
       \/ \E decision \in {"accepting", "denying"} : Confirm(b, u, g, decision)

Finish(b) == MarkExpired(b) \/ BindUser(b) \/ Accept(b) \/ Deny(b)

Poll(p, g) == PollRefused(p, g) \/ PollAuthorized(p, g)

Respond(p) == ReadUser(p) \/ SaveToken(p) \/ SaveTokenFails(p)

Next ==
  \/ \E c \in Clients, code \in UserCodes : Initiate(c, code)
  \/ \E b \in Browsers : Visit(b) \/ Finish(b)
  \/ \E p \in Pollers : Respond(p) \/ \E g \in Grants : Poll(p, g)
  \/ Tick

Spec == Init /\ [][Next]_vars

\* A view that has begun ends. A device polls until it is answered: that is its
\* part of the protocol (docs/tutorial/tutorial_06.rst, "Device polling"). No
\* user has to do anything.
Fairness ==
  /\ \A b \in Browsers : WF_vars(Finish(b))
  /\ \A p \in Pollers : WF_vars(Respond(p))
  /\ \A g \in Grants : SF_vars(\E p \in Pollers : PollAuthorized(p, g))

FairSpec == Spec /\ Fairness
-----------------------------------------------------------------------------
(* Properties *)

\* The tables, the requests and the history keep their types.
TypeOK ==
  /\ now \in 1..MaxTime
  /\ DeviceGrant \in [Grants -> GrantRow \cup {Absent}]
  /\ nextGrant \in 1..(MaxGrants + 1)
  /\ AccessToken \in [Tokens -> TokenRow \cup {Absent}]
  /\ nextToken \in 1..(MaxTokens + 1)
  /\ pc \in [Workers -> Steps \cup Answers]
  /\ request \in [Workers -> Request \cup {Absent}]
  /\ entered \in [Grants -> SUBSET Users]
  /\ accepted \in [Grants -> SUBSET Users]
  /\ denied \in [Grants -> SUBSET Users]

\* A device gets tokens only of a grant that some user accepted, however polls,
\* decisions and expiry interleave.
TokensNeedAcceptance ==
  \A t \in Tokens : AccessToken[t] # Absent => accepted[AccessToken[t].grant] # {}

\* A token is a user's only if that user entered the code of that very device,
\* also when two devices show the same code (get() in clean_user_code).
TokenUserEnteredCode ==
  \A t \in Tokens : AccessToken[t] # Absent =>
    AccessToken[t].user \in entered[AccessToken[t].grant]

\* A grant that was decided or has expired never waits for a decision again: a
\* view that read it pending saves only its own column.
NeverPendingAgain ==
  [][\A g \in Grants :
       Exists(g) /\ DeviceGrant[g].status # "authorization-pending"
         => DeviceGrant'[g].status # "authorization-pending"]_vars

Served(g) == \E t \in Tokens : AccessToken[t] # Absent /\ AccessToken[t].grant = g

\* A device whose grant has a user and is authorized, and stays so, gets its tokens
\* (the poll, the hook that reads the user, and save_bearer_token).
BoundIsServed ==
  \A g \in Grants :
    Authorized(g) /\ DeviceGrant[g].user # Anonymous ~> ~Authorized(g) \/ Served(g)

\* One decision is made on a grant, and what was denied is never redeemed
\* (clean_user_code and get_object accept only a pending grant).
OneDecision ==
  \A g \in Grants :
    /\ accepted[g] = {} \/ denied[g] = {}
    /\ denied[g] # {} => \A t \in Tokens : AccessToken[t] # Absent
                                             => AccessToken[t].grant # g
-----------------------------------------------------------------------------
(* The inductive invariant: what makes the safety properties above hold      *)

\* Keys not drawn yet have no row, and no history.
FreshGrants ==
  \A g \in Grants : g >= nextGrant =>
    ~Exists(g) /\ accepted[g] = {} /\ denied[g] = {}

GrantsSound ==
  \A g \in Grants : Exists(g) =>
    /\ DeviceGrant[g].user \in entered[g] \cup {Anonymous}
    /\ Authorized(g) => accepted[g] # {}

\* What a request has read, and is about to save
RequestSound(p) ==
  /\ request[p] # Absent
  /\ Exists(request[p].grant)
  /\ pc[p] \in {"expiring", "binding", "accepting", "denying"} => request[p].user \in Users
  /\ pc[p] = "binding" => request[p].user \in entered[request[p].grant]
  /\ pc[p] \in {"authorized", "saving"} => accepted[request[p].grant] # {}
  /\ pc[p] = "saving" => request[p].user \in entered[request[p].grant] \cup {Anonymous}

RequestsSound == \A p \in Workers : Busy(p) => RequestSound(p)

Inv ==
  /\ TypeOK
  /\ FreshGrants
  /\ GrantsSound
  /\ RequestsSound
  /\ TokensNeedAcceptance
  /\ TokenUserEnteredCode
-----------------------------------------------------------------------------
(* The same for decisions, where one request is served at a time             *)

OneAtATime == \A p, q \in Workers : Busy(p) /\ Busy(q) => p = q

PendingUndecided ==
  \A g \in Grants : Exists(g) /\ DeviceGrant[g].status = "authorization-pending"
    => accepted[g] = {} /\ denied[g] = {}

\* The view that decides found the grant pending, and it still is.
DecidersHoldPending ==
  \A p \in Workers : pc[p] \in {"accepting", "denying"} =>
    DeviceGrant[request[p].grant].status = "authorization-pending"

DecidedOnce == \A g \in Grants : accepted[g] = {} \/ denied[g] = {}

DecisionInv == OneAtATime /\ PendingUndecided /\ DecidersHoldPending /\ DecidedOnce
=============================================================================
