---------------------------- MODULE SessionProofs ----------------------------
(***************************************************************************)
(* Theorems about Access, for any clients, and about Session, for any      *)
(* accounts, roles, routes and numbers of calls, any TTL and any number of *)
(* reloads.                                                                *)
(***************************************************************************)
EXTENDS Session, TLAPS

(* Access                                                                  *)

HeldUntil(token, h) == token.exp <= h[token.account][token.role] + TTL

\* What is known of a call at place q, when tokens were issued, h is held and the
\* time is n.
CallOK(q, tokens, h, n) ==
    /\ q.stage = "found" => q.message.kind = "login" /\ h[q.message.account][q.role] = n
    /\ q.stage \in {"sent", "authorized", "answered"} /\ q.message.kind = "api" =>
           q.message.token \in tokens \cup {NoToken}
    /\ q.stage = "authorized" =>
           /\ q.message.kind = "api" /\ q.message.token \in tokens
           /\ q.at < h[q.message.token.account][q.message.token.role] + TTL

\* Roles are remembered up to the present, and a token outlives its role by TTL.
AccessInv ==
    /\ AccessTypeOK
    /\ \A a \in Accounts, role \in RoleNames : held[a][role] <= now
    /\ \A a \in Accounts : account[a].active => held[a][account[a].role] = now
    /\ \A token \in issued : HeldUntil(token, held)
    /\ \A c \in Calls : CallOK(calls[c], issued, held, now)

LEMMA Moments ==
    /\ TTL \in Nat /\ TTL >= 1 /\ Horizon \in Nat /\ Horizon >= 1
    /\ \A s \in AccountStates : s.role \in RoleNames /\ s.active \in BOOLEAN
BY AccessAssumption

LEMMA AccessInitially == AccessInit => AccessInv
<1>. SUFFICES ASSUME AccessInit PROVE AccessInv
  OBVIOUS
<1>1. now = 1 /\ 1 \in 1..Horizon /\ issued = {} /\ account \in [Accounts -> AccountStates]
  BY Moments DEF AccessInit
<1>2. held \in [Accounts -> [RoleNames -> 0..Horizon]]
  BY Moments DEF AccessInit
<1>3. calls \in [Calls -> Place] /\ \A c \in Calls : calls[c].stage = "idle"
  BY DEF AccessInit, Place, Idle
<1>4. \A a \in Accounts, role \in RoleNames : held[a][role] <= 1
  BY DEF AccessInit
<1>5. ASSUME NEW a \in Accounts, account[a].active PROVE held[a][account[a].role] = 1
  <2>1. account[a] \in [role : RoleNames, active : BOOLEAN]
    BY <1>1, AccessAssumption
  <2>2. account[a] = [role |-> account[a].role, active |-> TRUE] /\ account[a].role \in RoleNames
    BY <2>1, <1>5
  <2>. QED
    BY <2>2 DEF AccessInit
<1>. QED
  BY <1>1, <1>2, <1>3, <1>4, <1>5 DEF AccessInv, AccessTypeOK, CallOK

\* A call that goes to a place q which is in order.
LEMMA GotoKeeps ==
    ASSUME AccessInv, NEW c \in Calls, NEW q \in Place, Goto(c, q),
           issued \subseteq issued', issued' \subseteq Token,
           \A token \in issued' : HeldUntil(token, held),
           CallOK(q, issued', held, now)
    PROVE  AccessInv'
<1>1. /\ now' = now /\ account' = account /\ held' = held
      /\ calls' = [calls EXCEPT ![c] = q] /\ calls \in [Calls -> Place]
  BY DEF Goto, AccessInv, AccessTypeOK
<1>2. AccessTypeOK'
  BY <1>1 DEF AccessInv, AccessTypeOK
<1>3. ASSUME NEW d \in Calls PROVE CallOK(calls'[d], issued', held', now')
  <2>1. CASE d = c
    BY <1>1, <2>1
  <2>2. CASE d # c
    <3>1. calls'[d] = calls[d]
      BY <1>1, <2>2
    <3>2. CallOK(calls[d], issued, held, now)
      BY DEF AccessInv
    <3>. QED
      BY <1>1, <3>1, <3>2 DEF CallOK
  <2>. QED
    BY <2>1, <2>2
<1>4. \A token \in issued' : HeldUntil(token, held')
  BY <1>1
<1>. QED
  BY <1>1, <1>2, <1>3, <1>4 DEF AccessInv

\* The same, when no token is issued.
LEMMA GotoKeepsTokens ==
    ASSUME AccessInv, NEW c \in Calls, NEW q \in Place, Goto(c, q), UNCHANGED issued,
           CallOK(q, issued, held, now)
    PROVE  AccessInv'
<1>1. issued' = issued /\ issued \subseteq Token /\ \A token \in issued : HeldUntil(token, held)
  BY DEF AccessInv, AccessTypeOK
<1>2. issued \subseteq issued' /\ issued' \subseteq Token
  BY <1>1
<1>3. \A token \in issued' : HeldUntil(token, held)
  BY <1>1
<1>4. CallOK(q, issued', held, now)
  BY <1>1
<1>. QED
  BY <1>2, <1>3, <1>4, GotoKeeps
-----------------------------------------------------------------------------
(* The steps of Access                                                     *)

LEMMA PlaceShapes ==
    ASSUME NEW q \in Place
    PROVE  /\ q.stage \in {"idle", "sent", "found", "authorized", "answered"}
           /\ q.stage = "idle" => q = Idle
           /\ q.stage # "idle" => q.message \in Message
           /\ q.stage = "found" => q.role \in RoleNames
           /\ q.stage = "authorized" => q.at \in 1..Horizon
           /\ q.stage = "answered" => q.status \in Statuses /\ q.token \in Token \cup {NoToken}
BY DEF Place, Idle

LEMMA MessageShapes ==
    ASSUME NEW m \in Message
    PROVE  /\ m.kind \in {"login", "api"}
           /\ m.kind = "login" => m.account \in Accounts
           /\ m.kind = "api" => m.route \in Routes /\ m.token \in Token \cup {NoToken}
BY DEF Message

\* What AccessInv says of the call c.
LEMMA CallFacts ==
    ASSUME AccessInv, NEW c \in Calls
    PROVE  calls[c] \in Place /\ CallOK(calls[c], issued, held, now)
BY DEF AccessInv, AccessTypeOK

LEMMA AnswerShapes ==
    ASSUME AccessInv, NEW c \in Calls, calls[c].stage # "idle",
           NEW status \in Statuses, NEW token \in Token \cup {NoToken}, NEW q,
           q = [stage |-> "answered", message |-> calls[c].message,
                status |-> status, token |-> token]
    PROVE  /\ q \in Place
           /\ \A tokens \in SUBSET Token : issued \subseteq tokens => CallOK(q, tokens, held, now)
<1>1. calls[c] \in Place /\ CallOK(calls[c], issued, held, now)
  BY CallFacts
<1>2. calls[c].message \in Message /\ calls[c].stage \in {"sent", "found", "authorized", "answered"}
  BY <1>1, PlaceShapes
<1>3. q \in Place
  BY <1>2 DEF Place
<1>4. q.stage = "answered" /\ q.message = calls[c].message
  OBVIOUS
<1>5. calls[c].message.kind = "api" => calls[c].message.token \in issued \cup {NoToken}
  BY <1>1, <1>2 DEF CallOK
<1>. QED
  BY <1>3, <1>4, <1>5 DEF CallOK

LEMMA AnswerKeeps ==
    ASSUME AccessInv, NEW c \in Calls, calls[c].stage # "idle",
           NEW status \in Statuses, NEW token \in Token \cup {NoToken},
           Answer(c, status, token), UNCHANGED issued
    PROVE  AccessInv'
<1>. DEFINE q == [stage |-> "answered", message |-> calls[c].message,
                  status |-> status, token |-> token]
<1>1. Goto(c, q)
  BY DEF Answer
<1>2. issued \subseteq Token
  BY DEF AccessInv, AccessTypeOK
<1>3. q \in Place /\ CallOK(q, issued, held, now)
  BY <1>2, AnswerShapes
<1>. QED
  BY <1>1, <1>3, GotoKeepsTokens

LEMMA CallKeeps ==
    ASSUME AccessInv, NEW c \in Calls, NEW message \in Message, Call(c, message)
    PROVE  AccessInv'
<1>. DEFINE q == [stage |-> "sent", message |-> message]
<1>1. Goto(c, q) /\ UNCHANGED issued
  BY DEF Call
<1>2. q \in Place
  BY DEF Place
<1>3. CallOK(q, issued, held, now)
  BY DEF Call, CallOK
<1>. QED
  BY <1>1, <1>2, <1>3, GotoKeepsTokens

LEMMA HangKeeps ==
    ASSUME AccessInv, NEW c \in Calls, Hang(c)
    PROVE  AccessInv'
<1>1. Idle \in Place /\ CallOK(Idle, issued, held, now)
  BY DEF Place, Idle, CallOK
<1>. QED
  BY <1>1, GotoKeepsTokens DEF Hang

LEMMA FindUserKeeps ==
    ASSUME AccessInv, NEW c \in Calls, FindUser(c)
    PROVE  AccessInv'
<1>. DEFINE m == calls[c].message
            a == m.account
            q == [stage |-> "found", message |-> m, role |-> account[a].role]
<1>1. calls[c].stage = "sent" /\ m.kind = "login" /\ UNCHANGED issued
  BY DEF FindUser, Sent
<1>2. m \in Message /\ a \in Accounts
  BY <1>1, CallFacts, PlaceShapes, MessageShapes
<1>3. CASE FindUserByUsername(a) /\ Goto(c, q)
  <2>1. account[a] \in AccountStates /\ account[a].role \in RoleNames
    BY <1>2, Moments DEF AccessInv, AccessTypeOK
  <2>2. q \in Place
    BY <1>2, <2>1 DEF Place
  <2>3. held[a][account[a].role] = now
    BY <1>2, <1>3 DEF FindUserByUsername, AccessInv
  <2>4. q.stage = "found" /\ q.message = m /\ q.role = account[a].role
    OBVIOUS
  <2>5. CallOK(q, issued, held, now)
    BY <1>1, <2>3, <2>4 DEF CallOK
  <2>. QED
    BY <1>1, <1>3, <2>2, <2>5, GotoKeepsTokens
<1>4. CASE Answer(c, "unauthorized", NoToken)
  <2>1. "unauthorized" \in Statuses /\ NoToken \in Token \cup {NoToken} /\ calls[c].stage # "idle"
    BY <1>1 DEF Statuses
  <2>. QED
    BY <1>1, <1>4, <2>1, AnswerKeeps
<1>. QED
  BY <1>3, <1>4 DEF FindUser

LEMMA SignKeeps ==
    ASSUME AccessInv, NEW c \in Calls, Sign(c)
    PROVE  AccessInv'
<1>. DEFINE m == calls[c].message
            token == [account |-> m.account, role |-> calls[c].role, exp |-> now + TTL]
            q == [stage |-> "answered", message |-> m, status |-> "ok", token |-> token]
<1>1. calls[c].stage = "found" /\ issued' = issued \cup {token} /\ Goto(c, q)
  BY DEF Sign, Answer
<1>2. m \in Message /\ calls[c].role \in RoleNames /\ m.kind = "login" /\ m.account \in Accounts
      /\ held[m.account][calls[c].role] = now
  <2>1. m \in Message /\ calls[c].role \in RoleNames
    BY <1>1, CallFacts, PlaceShapes
  <2>2. m.kind = "login" /\ held[m.account][calls[c].role] = now
    BY <1>1, CallFacts DEF CallOK
  <2>. QED
    BY <2>1, <2>2, MessageShapes
<1>3. now \in Nat /\ issued \subseteq Token
  BY Moments DEF AccessInv, AccessTypeOK
<1>4. token \in Token
  <2>1. now + TTL \in Nat
    BY <1>3, Moments
  <2>. QED
    BY <1>2, <2>1 DEF Token
<1>5. HeldUntil(token, held)
  <2>1. token.exp = now + TTL /\ token.account = m.account /\ token.role = calls[c].role
    OBVIOUS
  <2>2. held[token.account][token.role] = now
    BY <1>2, <2>1
  <2>. QED
    BY <1>3, <2>1, <2>2, Moments DEF HeldUntil
<1>6. \A t \in issued' : HeldUntil(t, held)
  BY <1>1, <1>5 DEF AccessInv
<1>7. issued \subseteq issued' /\ issued' \subseteq Token
  BY <1>1, <1>3, <1>4
<1>8. q \in Place /\ CallOK(q, issued', held, now)
  <2>1. calls[c].stage # "idle" /\ "ok" \in Statuses /\ token \in Token \cup {NoToken}
    BY <1>1, <1>4 DEF Statuses
  <2>. QED
    BY <1>7, <2>1, AnswerShapes
<1>. QED
  BY <1>1, <1>6, <1>7, <1>8, GotoKeeps

LEMMA AuthorizeKeeps ==
    ASSUME AccessInv, NEW c \in Calls, Authorize(c)
    PROVE  AccessInv'
<1>. DEFINE m == calls[c].message
            q == [stage |-> "authorized", message |-> m, at |-> now]
<1>1. calls[c].stage = "sent" /\ m.kind = "api" /\ UNCHANGED issued
  BY DEF Authorize, Sent
<1>2. m \in Message /\ m.token \in issued \cup {NoToken}
  BY <1>1, CallFacts, PlaceShapes DEF CallOK
<1>3. ASSUME NEW status \in Statuses, Answer(c, status, NoToken) PROVE AccessInv'
  <2>1. NoToken \in Token \cup {NoToken} /\ calls[c].stage # "idle"
    BY <1>1
  <2>. QED
    BY <1>1, <1>3, <2>1, AnswerKeeps
<1>4. CASE Valid(m.token) /\ Goto(c, q)
  <2>1. m.token \in issued /\ now < m.token.exp
    BY <1>2, <1>4 DEF Valid
  <2>2. m.token \in Token /\ HeldUntil(m.token, held)
    BY <2>1 DEF AccessInv, AccessTypeOK
  <2>3. now \in 1..Horizon /\ m.token.exp \in Nat /\ held[m.token.account][m.token.role] \in 0..Horizon
    BY <2>2 DEF AccessInv, AccessTypeOK, Token
  <2>4. now < held[m.token.account][m.token.role] + TTL
    <3>1. m.token.exp <= held[m.token.account][m.token.role] + TTL
      BY <2>2 DEF HeldUntil
    <3>2. ASSUME NEW e \in Nat, NEW h \in 0..Horizon, e <= h + TTL, now < e
          PROVE  now < h + TTL
      BY <2>3, <3>2, Moments
    <3>. QED
      BY <2>1, <2>3, <3>1, <3>2
  <2>5. q \in Place
    BY <1>2, <2>3 DEF Place
  <2>6. q.stage = "authorized" /\ q.message = m /\ q.at = now
    OBVIOUS
  <2>7. CallOK(q, issued, held, now)
    BY <1>1, <2>1, <2>4, <2>6 DEF CallOK
  <2>. QED
    BY <1>1, <1>4, <2>5, <2>7, GotoKeepsTokens
<1>5. "unauthorized" \in Statuses /\ "forbidden" \in Statuses
  BY DEF Statuses
<1>6. \/ Answer(c, "unauthorized", NoToken)
      \/ Answer(c, "forbidden", NoToken)
      \/ Valid(m.token) /\ Goto(c, q)
  BY DEF Authorize
<1>. QED
  BY <1>3, <1>4, <1>5, <1>6

LEMMA HandleKeeps ==
    ASSUME AccessInv, NEW c \in Calls, Handle(c) \/ Fail(c)
    PROVE  AccessInv'
<1>1. PICK status \in {"ok", "failed"} : Answer(c, status, NoToken)
  BY DEF Handle, Fail
<1>2. status \in Statuses /\ NoToken \in Token \cup {NoToken} /\ calls[c].stage # "idle" /\ UNCHANGED issued
  BY DEF Handle, Fail, Statuses
<1>. QED
  BY <1>1, <1>2, AnswerKeeps

LEMMA ServerKeeps ==
    ASSUME AccessInv, NEW c \in Calls, ServerStep(c)
    PROVE  AccessInv'
BY FindUserKeeps, SignKeeps, AuthorizeKeeps, HandleKeeps DEF ServerStep

\* The clock does not go back, and only ticks when no account has just been read.
LEMMA WorldKeeps ==
    ASSUME AccessInv, (\E a \in Accounts : Administer(a)) \/ Tick
    PROVE  AccessInv'
<1>1. /\ UNCHANGED <<issued, calls>> /\ Remember
      /\ now' = now \/ (now' = now + 1 /\ now < Horizon /\ \A c \in Calls : calls[c].stage # "found")
  BY DEF Administer, Tick
<1>2. now \in 1..Horizon /\ now' \in 1..Horizon /\ now <= now'
  BY <1>1, Moments DEF AccessInv, AccessTypeOK
<1>3. account' \in [Accounts -> AccountStates]
  <2>1. account \in [Accounts -> AccountStates]
    BY DEF AccessInv, AccessTypeOK
  <2>. QED
    BY <2>1 DEF Administer, Tick
<1>4. ASSUME NEW a \in Accounts, NEW role \in RoleNames
      PROVE  held'[a][role] =
                 IF account'[a] = [role |-> role, active |-> TRUE] THEN now' ELSE held[a][role]
  BY <1>1 DEF Remember
<1>5. ASSUME NEW a \in Accounts, NEW role \in RoleNames
      PROVE  /\ held[a][role] \in 0..Horizon /\ held[a][role] <= held'[a][role]
             /\ held'[a][role] \in 0..Horizon /\ held'[a][role] <= now'
             /\ held[a][role] = now /\ now' = now => held'[a][role] = now'
  <2>1. held[a][role] \in 0..Horizon /\ held[a][role] <= now
    BY DEF AccessInv, AccessTypeOK
  <2>2. held'[a][role] = now' \/ held'[a][role] = held[a][role]
    BY <1>4
  <2>. QED
    BY <1>2, <2>1, <2>2, Moments
<1>6. held' \in [Accounts -> [RoleNames -> 0..Horizon]]
  <2>1. held' = [a \in Accounts |->
                   [role \in RoleNames |->
                       IF account'[a] = [role |-> role, active |-> TRUE] THEN now'
                       ELSE held[a][role]]]
    BY <1>1 DEF Remember
  <2>2. \A a \in Accounts, role \in RoleNames :
           (IF account'[a] = [role |-> role, active |-> TRUE] THEN now' ELSE held[a][role]) \in 0..Horizon
    BY <1>4, <1>5
  <2>. QED
    BY <2>1, <2>2
<1>7. AccessTypeOK'
  BY <1>1, <1>2, <1>3, <1>6 DEF AccessInv, AccessTypeOK
<1>8. ASSUME NEW a \in Accounts, account'[a].active PROVE held'[a][account'[a].role] = now'
  <2>1. account'[a] \in [role : RoleNames, active : BOOLEAN]
    BY <1>3, AccessAssumption
  <2>2. account'[a] = [role |-> account'[a].role, active |-> TRUE] /\ account'[a].role \in RoleNames
    BY <2>1, <1>8
  <2>. QED
    BY <2>2, <1>4
<1>9. ASSUME NEW token \in issued PROVE HeldUntil(token, held')
  <2>1. token \in Token /\ HeldUntil(token, held)
    BY DEF AccessInv, AccessTypeOK
  <2>2. token.account \in Accounts /\ token.role \in RoleNames /\ token.exp \in Nat
    BY <2>1 DEF Token
  <2>. QED
    BY <2>1, <2>2, <1>5, Moments DEF HeldUntil
<1>10. ASSUME NEW c \in Calls PROVE CallOK(calls[c], issued, held', now')
  <2>. DEFINE q == calls[c]
  <2>1. q \in Place /\ CallOK(q, issued, held, now)
    BY CallFacts
  <2>2. q.stage = "found" => q.message.kind = "login" /\ held'[q.message.account][q.role] = now'
    <3>. SUFFICES ASSUME q.stage = "found"
                  PROVE q.message.kind = "login" /\ held'[q.message.account][q.role] = now'
      OBVIOUS
    <3>1. q.message.kind = "login" /\ held[q.message.account][q.role] = now
      BY <2>1 DEF CallOK
    <3>2. q.message.account \in Accounts /\ q.role \in RoleNames
      BY <2>1, <3>1, PlaceShapes, MessageShapes
    <3>3. now' = now
      BY <1>1
    <3>. QED
      BY <3>1, <3>2, <3>3, <1>5
  <2>3. q.stage = "authorized" =>
           /\ q.message.kind = "api" /\ q.message.token \in issued
           /\ q.at < held'[q.message.token.account][q.message.token.role] + TTL
    <3>. SUFFICES ASSUME q.stage = "authorized"
                  PROVE  /\ q.message.kind = "api" /\ q.message.token \in issued
                         /\ q.at < held'[q.message.token.account][q.message.token.role] + TTL
      OBVIOUS
    <3>1. /\ q.message.kind = "api" /\ q.message.token \in issued
          /\ q.at < held[q.message.token.account][q.message.token.role] + TTL
      BY <2>1 DEF CallOK
    <3>2. q.message.token.account \in Accounts /\ q.message.token.role \in RoleNames
      BY <3>1 DEF AccessInv, AccessTypeOK, Token
    <3>3. q.at \in 1..Horizon
      BY <2>1, PlaceShapes
    <3>. QED
      BY <3>1, <3>2, <3>3, <1>5, Moments
  <2>4. q.stage \in {"sent", "authorized", "answered"} /\ q.message.kind = "api" =>
           q.message.token \in issued \cup {NoToken}
    BY <2>1 DEF CallOK
  <2>. QED
    BY <2>2, <2>3, <2>4 DEF CallOK
<1>11. \A c \in Calls : CallOK(calls'[c], issued', held', now')
  BY <1>1, <1>10
<1>12. \A token \in issued' : HeldUntil(token, held')
  BY <1>1, <1>9
<1>13. \A a \in Accounts, role \in RoleNames : held'[a][role] <= now'
  BY <1>5
<1>. QED
  BY <1>7, <1>8, <1>11, <1>12, <1>13 DEF AccessInv

LEMMA AccessStuttering == AccessInv /\ UNCHANGED accessVars => AccessInv'
BY DEF AccessInv, AccessTypeOK, CallOK, HeldUntil, accessVars

LEMMA AccessImplies == AccessInv => StaleAtMostTTL
BY DEF AccessInv, CallOK, StaleAtMostTTL
-----------------------------------------------------------------------------
\* Whatever clients there are, with whatever tokens that were ever issued: a call
\* is let through only in a role its account held, while it was active, less
\* than TTL before.
THEOREM AnyClientStaleAtMostTTL == AccessSpec => []StaleAtMostTTL
<1>1. AccessInv /\ [AccessNext]_accessVars => AccessInv'
  <2>. SUFFICES ASSUME AccessInv, [AccessNext]_accessVars PROVE AccessInv'
    OBVIOUS
  <2>1. CASE \E c \in Calls : (\E message \in Message : Call(c, message)) \/ ServerStep(c) \/ Hang(c)
    BY <2>1, CallKeeps, ServerKeeps, HangKeeps
  <2>2. CASE (\E a \in Accounts : Administer(a)) \/ Tick
    BY <2>2, WorldKeeps
  <2>3. CASE UNCHANGED accessVars
    BY <2>3, AccessStuttering
  <2>. QED
    BY <2>1, <2>2, <2>3 DEF AccessNext
<1>. QED
  BY <1>1, AccessInitially, AccessImplies, PTL DEF AccessSpec
-----------------------------------------------------------------------------
(* Session                                                                 *)

\* A request with token, to route, that a page may have sent.
RequestOK(m, spoiled) ==
    /\ m.token = NoToken => spoiled
    /\ m.token = NoToken \/ m.token.role \notin Roles \/ m.token.role \in Guard(m.route)

\* What is known of a call at place q that the tab awaits for the purpose p, while
\* it shows the session s; spoiled says whether a token has become refusable.
TabCall(q, p, s, tokens, spoiled) ==
    /\ p = "nothing" => q.stage = "idle"
    /\ q.stage = "idle" => p = "nothing"
    /\ p = "login" => s = NoToken
    /\ p = "restore" => s # NoToken
    /\ q.stage # "idle" => (q.message.kind = "login" <=> p = "login")
    /\ q.stage = "answered" /\ p = "login" /\ q.status = "ok" => q.token \in tokens
    /\ q.stage \in {"sent", "authorized"} /\ p # "login" => RequestOK(q.message, spoiled)
    /\ q.stage = "answered" /\ p # "login" /\ q.status = "unauthorized" => spoiled
    /\ q.stage = "answered" => q.status # "forbidden"

Sessions == {"login", "restore"}

\* The loading screen belongs to one call, a login or a restoration.
LoadingInv ==
    /\ loading \in BOOLEAN
    /\ loading => \E c \in Calls : awaited[c] \in Sessions
    /\ \A c \in Calls :
          awaited[c] \in Sessions =>
              loading /\ \A d \in Calls : awaited[d] \in Sessions => d = c

SessionInv ==
    /\ AccessInv
    /\ signal \in issued \cup {NoToken} /\ ActsAsShown
    /\ awaited \in [Calls -> Purposes]
    /\ reloads \in 0..MaxReloads
    /\ LoadingInv
    /\ LostOnlyByExpiry
    /\ \A c \in Calls : TabCall(calls[c], awaited[c], signal, issued, Spoiled)

LEMMA SessionTypes == SessionInv => TypeOK
<1>. SUFFICES ASSUME SessionInv PROVE TypeOK
  OBVIOUS
<1>1. AccessTypeOK /\ issued \subseteq Token
  BY DEF SessionInv, AccessInv, AccessTypeOK
<1>2. signal \in Token \cup {NoToken} /\ storage \in Token \cup {NoToken}
  BY <1>1 DEF SessionInv, ActsAsShown
<1>3. loading = (\E c \in Calls : awaited[c] \in {"login", "restore"})
  BY DEF SessionInv, LoadingInv, Sessions
<1>. QED
  BY <1>1, <1>2, <1>3 DEF SessionInv, LoadingInv, TypeOK

LEMMA SessionInitially == SessionInit => SessionInv
<1>. SUFFICES ASSUME SessionInit PROVE SessionInv
  OBVIOUS
<1>1. AccessInv
  BY AccessInitially DEF SessionInit
<1>2. \A c \in Calls : calls[c].stage = "idle" /\ awaited[c] = "nothing"
  BY DEF SessionInit, AccessInit, Idle
<1>3. \A c \in Calls : TabCall(calls[c], awaited[c], signal, issued, Spoiled)
  BY <1>2 DEF TabCall
<1>4. LoadingInv
  BY <1>2 DEF SessionInit, LoadingInv, Sessions
<1>5. reloads \in 0..MaxReloads
  BY SessionAssumption DEF SessionInit
<1>6. awaited \in [Calls -> Purposes] /\ signal = NoToken /\ storage = NoToken
  BY DEF SessionInit, Purposes
<1>. QED
  BY <1>1, <1>3, <1>4, <1>5, <1>6 DEF SessionInv, ActsAsShown, LostOnlyByExpiry

\* A token that can be refused stays refusable.
LEMMA SpoiledStays ==
    ASSUME AccessInv, Spoiled, issued \subseteq issued', now' \in Nat, now <= now'
    PROVE  Spoiled'
<1>1. PICK token \in issued : token.exp <= now \/ token.role \notin Roles
  BY DEF Spoiled
<1>2. token.exp \in Nat /\ now \in Nat
  BY Moments DEF AccessInv, AccessTypeOK, Token
<1>3. token.exp <= now => token.exp <= now'
  BY <1>2
<1>. QED
  BY <1>1, <1>3 DEF Spoiled

\* Nothing spoils what is known of a call that stays where it is.
LEMMA TabCallStays ==
    ASSUME NEW q, NEW p, NEW s, NEW tokens, NEW spoiled, NEW later, NEW spoiledLater,
           TabCall(q, p, s, tokens, spoiled), tokens \subseteq later, spoiled => spoiledLater
    PROVE  TabCall(q, p, s, later, spoiledLater)
BY DEF TabCall, RequestOK

\* One call goes to place q, awaited for p, and the session shown may become s, if
\* no other call is about a session.
LEMMA TabKeeps ==
    ASSUME SessionInv, NEW c \in Calls, NEW q, NEW p \in Purposes, NEW s,
           calls' = [calls EXCEPT ![c] = q], awaited' = [awaited EXCEPT ![c] = p],
           issued \subseteq issued', Spoiled => Spoiled',
           s = signal \/ \A d \in Calls : d # c => awaited[d] \notin Sessions,
           TabCall(q, p, s, issued', Spoiled')
    PROVE  \A d \in Calls : TabCall(calls'[d], awaited'[d], s, issued', Spoiled')
<1>1. calls \in [Calls -> Place] /\ awaited \in [Calls -> Purposes]
  BY DEF SessionInv, AccessInv, AccessTypeOK
<1>2. SUFFICES ASSUME NEW d \in Calls PROVE TabCall(calls'[d], awaited'[d], s, issued', Spoiled')
  OBVIOUS
<1>3. CASE d = c
  <2>1. calls'[d] = q /\ awaited'[d] = p
    BY <1>1, <1>3
  <2>. QED
    BY <2>1
<1>4. CASE d # c
  <2>1. calls'[d] = calls[d] /\ awaited'[d] = awaited[d]
    BY <1>1, <1>4
  <2>2. TabCall(calls[d], awaited[d], signal, issued, Spoiled)
    BY DEF SessionInv
  <2>3. TabCall(calls[d], awaited[d], signal, issued', Spoiled')
    BY <2>2, TabCallStays
  <2>4. CASE s = signal
    BY <2>1, <2>3, <2>4
  <2>5. CASE awaited[d] \notin Sessions
    <3>1. awaited[d] # "login" /\ awaited[d] # "restore"
      BY <2>5 DEF Sessions
    <3>2. TabCall(calls[d], awaited[d], s, issued', Spoiled')
      BY <2>3, <3>1 DEF TabCall
    <3>. QED
      BY <2>1, <3>2
  <2>. QED
    BY <1>4, <2>4, <2>5
<1>. QED
  BY <1>3, <1>4

\* The facts about a call of the tab that its steps use.
LEMMA TabFacts ==
    ASSUME SessionInv, NEW c \in Calls
    PROVE  /\ AccessInv /\ calls[c] \in Place /\ CallOK(calls[c], issued, held, now)
           /\ TabCall(calls[c], awaited[c], signal, issued, Spoiled)
           /\ awaited[c] \in Purposes /\ now \in Nat /\ issued \subseteq Token
BY CallFacts, Moments DEF SessionInv, AccessInv, AccessTypeOK

LEMMA SpoiledSame == Spoiled /\ UNCHANGED <<issued, now>> => Spoiled'
BY DEF Spoiled

\* A step of the server leaves the tab as it was.
LEMMA ServeTab ==
    ASSUME SessionInv, NEW c \in Calls, NEW q, Goto(c, q), UNCHANGED tab,
           AccessInv', issued \subseteq issued',
           TabCall(q, awaited[c], signal, issued', Spoiled')
    PROVE  SessionInv'
<1>1. /\ signal' = signal /\ storage' = storage /\ loading' = loading /\ awaited' = awaited
      /\ reloads' = reloads /\ now' = now /\ calls' = [calls EXCEPT ![c] = q]
  BY DEF tab, Goto
<1>2. Spoiled => Spoiled'
  <2>1. AccessInv /\ now \in Nat
    BY TabFacts
  <2>2. now' \in Nat /\ now <= now'
    BY <1>1, <2>1
  <2>. QED
    BY <2>1, <2>2, SpoiledStays
<1>3. awaited' = [awaited EXCEPT ![c] = awaited[c]]
  BY <1>1 DEF SessionInv
<1>4. \A d \in Calls : TabCall(calls'[d], awaited'[d], signal, issued', Spoiled')
  BY <1>1, <1>2, <1>3, TabFacts, TabKeeps
<1>5. LoadingInv'
  BY <1>1 DEF SessionInv, LoadingInv
<1>6. signal' \in issued' \cup {NoToken} /\ ActsAsShown' /\ LostOnlyByExpiry'
  BY <1>1, <1>2 DEF SessionInv, ActsAsShown, LostOnlyByExpiry
<1>7. awaited' \in [Calls -> Purposes] /\ reloads' \in 0..MaxReloads
  BY <1>1 DEF SessionInv
<1>. QED
  BY <1>1, <1>4, <1>5, <1>6, <1>7 DEF SessionInv

\* An answer that neither refuses a role nor, to a request, a token.
LEMMA ServeAnswer ==
    ASSUME SessionInv, NEW c \in Calls, AccessInv', UNCHANGED tab, issued \subseteq issued',
           calls[c].stage # "idle", NEW status, NEW token, Answer(c, status, token),
           status # "forbidden",
           status = "unauthorized" /\ calls[c].message.kind = "api" => Spoiled',
           status = "ok" /\ calls[c].message.kind = "login" => token \in issued'
    PROVE  SessionInv'
<1>. DEFINE q == [stage |-> "answered", message |-> calls[c].message,
                  status |-> status, token |-> token]
            p == awaited[c]
<1>1. Goto(c, q)
  BY DEF Answer
<1>2. TabCall(calls[c], p, signal, issued, Spoiled) /\ calls[c].message.kind \in {"login", "api"}
  BY TabFacts, PlaceShapes, MessageShapes
<1>3. /\ q.stage = "answered" /\ q.message = calls[c].message /\ q.status = status
      /\ q.token = token
  OBVIOUS
<1>4. p # "nothing" /\ (calls[c].message.kind = "login" <=> p = "login")
      /\ (p = "login" => signal = NoToken) /\ (p = "restore" => signal # NoToken)
  BY <1>2 DEF TabCall
<1>5. p # "login" => calls[c].message.kind = "api"
  BY <1>2, <1>4
<1>6. TabCall(q, p, signal, issued', Spoiled')
  BY <1>3, <1>4, <1>5 DEF TabCall
<1>. QED
  BY <1>1, <1>6, ServeTab

LEMMA FindUserTab ==
    ASSUME SessionInv, NEW c \in Calls, FindUser(c), UNCHANGED tab
    PROVE  SessionInv'
<1>. DEFINE m == calls[c].message
            q == [stage |-> "found", message |-> m, role |-> account[m.account].role]
            p == awaited[c]
<1>1. /\ calls[c].stage = "sent" /\ m.kind = "login" /\ UNCHANGED issued
      /\ Goto(c, q) \/ Answer(c, "unauthorized", NoToken)
  BY DEF FindUser, Sent
<1>2. AccessInv' /\ issued \subseteq issued'
  BY <1>1, TabFacts, FindUserKeeps
<1>3. CASE Answer(c, "unauthorized", NoToken)
  BY <1>1, <1>2, <1>3, ServeAnswer
<1>4. CASE Goto(c, q)
  <2>1. q.stage = "found" /\ q.message = m
    OBVIOUS
  <2>2. TabCall(calls[c], p, signal, issued, Spoiled)
    BY TabFacts
  <2>3. p = "login" /\ signal = NoToken
    BY <1>1, <2>2 DEF TabCall
  <2>4. TabCall(q, p, signal, issued', Spoiled')
    BY <1>1, <2>1, <2>3 DEF TabCall
  <2>. QED
    BY <1>2, <1>4, <2>4, ServeTab
<1>. QED
  BY <1>1, <1>3, <1>4

LEMMA SignTab ==
    ASSUME SessionInv, NEW c \in Calls, Sign(c), UNCHANGED tab
    PROVE  SessionInv'
<1>. DEFINE token == [account |-> calls[c].message.account, role |-> calls[c].role,
                      exp |-> now + TTL]
<1>1. calls[c].stage = "found" /\ issued' = issued \cup {token} /\ Answer(c, "ok", token)
  BY DEF Sign
<1>2. AccessInv' /\ issued \subseteq issued' /\ token \in issued'
  BY <1>1, TabFacts, SignKeeps
<1>3. calls[c].stage # "idle"
  BY <1>1
<1>. QED
  BY <1>1, <1>2, <1>3, ServeAnswer

\* A page's request that is refused has no token, one that has expired, or one
\* in a role that is none.
LEMMA AuthorizeTab ==
    ASSUME SessionInv, NEW c \in Calls, Authorize(c), UNCHANGED tab
    PROVE  SessionInv'
<1>. DEFINE m == calls[c].message
            q == [stage |-> "authorized", message |-> m, at |-> now]
            p == awaited[c]
<1>1. calls[c].stage = "sent" /\ m.kind = "api" /\ issued' = issued
  BY DEF Authorize, Sent
<1>2. AccessInv' /\ issued \subseteq issued'
  BY <1>1, TabFacts, AuthorizeKeeps
<1>3. TabCall(calls[c], p, signal, issued, Spoiled)
  BY TabFacts
<1>4. p # "login" /\ p # "nothing" /\ RequestOK(m, Spoiled)
  BY <1>1, <1>3 DEF TabCall
<1>5. m.token \in issued \cup {NoToken}
  BY <1>1, TabFacts DEF CallOK
<1>6. CASE ~Valid(m.token) /\ Answer(c, "unauthorized", NoToken)
  <2>1. m.token = NoToken => Spoiled
    BY <1>4 DEF RequestOK
  <2>2. ASSUME m.token \in issued, m.token # NoToken PROVE Spoiled
    <3>1. m.token.exp \in Nat /\ now \in Nat
      BY <2>2, TabFacts DEF Token
    <3>2. m.token.exp <= now \/ m.token.role \notin Roles
      BY <1>6, <2>2, <3>1 DEF Valid
    <3>. QED
      BY <2>2, <3>2 DEF Spoiled
  <2>3. Spoiled
    BY <1>5, <2>1, <2>2
  <2>4. Spoiled'
    BY <1>1, <1>6, <2>3, SpoiledSame DEF Answer, Goto
  <2>. QED
    BY <1>1, <1>2, <1>6, <2>4, ServeAnswer
<1>7. CASE Valid(m.token) /\ m.token.role \in Guard(m.route) /\ Goto(c, q)
  <2>1. q.stage = "authorized" /\ q.message = m
    OBVIOUS
  <2>2. UNCHANGED <<issued, now>>
    BY <1>1, <1>7 DEF Goto
  <2>3. RequestOK(m, Spoiled')
    BY <1>4, <2>2, SpoiledSame DEF RequestOK
  <2>4. TabCall(q, p, signal, issued', Spoiled')
    BY <1>1, <1>3, <1>4, <2>1, <2>3 DEF TabCall
  <2>. QED
    BY <1>2, <1>7, <2>4, ServeTab
<1>8. m.token.role \in Guard(m.route) \/ ~Valid(m.token)
  BY <1>4 DEF RequestOK, Valid
<1>9. \/ ~Valid(m.token) /\ Answer(c, "unauthorized", NoToken)
      \/ Valid(m.token) /\ m.token.role \in Guard(m.route) /\ Goto(c, q)
  BY <1>8 DEF Authorize
<1>. QED
  BY <1>6, <1>7, <1>9

LEMMA HandleTab ==
    ASSUME SessionInv, NEW c \in Calls, Handle(c) \/ Fail(c), UNCHANGED tab
    PROVE  SessionInv'
<1>1. /\ UNCHANGED issued /\ calls[c].stage \in {"sent", "authorized"}
      /\ \/ Answer(c, "ok", NoToken) /\ calls[c].stage = "authorized"
         \/ Answer(c, "failed", NoToken)
  BY DEF Handle, Fail
<1>2. AccessInv' /\ issued \subseteq issued' /\ calls[c].stage # "idle"
  BY <1>1, TabFacts, HandleKeeps
<1>3. calls[c].stage = "authorized" => calls[c].message.kind = "api"
  BY TabFacts DEF CallOK
<1>4. CASE Answer(c, "failed", NoToken)
  BY <1>2, <1>4, ServeAnswer
<1>5. CASE Answer(c, "ok", NoToken) /\ calls[c].stage = "authorized"
  <2>1. calls[c].message.kind # "login"
    BY <1>3, <1>5
  <2>. QED
    BY <1>2, <1>5, <2>1, ServeAnswer
<1>. QED
  BY <1>1, <1>4, <1>5

LEMMA WorldTab ==
    ASSUME SessionInv, World, UNCHANGED tab
    PROVE  SessionInv'
<1>1. AccessInv'
  BY WorldKeeps DEF SessionInv, World
<1>2. UNCHANGED <<issued, calls>> /\ now' \in Nat /\ now <= now' /\ AccessInv
  <2>1. now \in Nat /\ AccessInv
    BY Moments DEF SessionInv, AccessInv, AccessTypeOK
  <2>. QED
    BY <2>1 DEF World, Administer, Tick
<1>3. Spoiled => Spoiled'
  BY <1>2, SpoiledStays
<1>4. UNCHANGED <<signal, storage, loading, awaited, reloads>>
  BY DEF tab
<1>5. ASSUME NEW d \in Calls PROVE TabCall(calls'[d], awaited'[d], signal', issued', Spoiled')
  <2>1. TabCall(calls[d], awaited[d], signal, issued, Spoiled)
    BY DEF SessionInv
  <2>2. issued \subseteq issued'
    BY <1>2
  <2>3. TabCall(calls[d], awaited[d], signal, issued', Spoiled')
    BY <1>3, <2>1, <2>2, TabCallStays
  <2>. QED
    BY <1>2, <1>4, <2>3
<1>6. LoadingInv'
  BY <1>4 DEF SessionInv, LoadingInv
<1>. QED
  BY <1>1, <1>2, <1>3, <1>4, <1>5, <1>6 DEF SessionInv, ActsAsShown, LostOnlyByExpiry

LEMMA ServerTab ==
    ASSUME SessionInv, NEW c \in Calls, Serve(c)
    PROVE  SessionInv'
BY FindUserTab, SignTab, AuthorizeTab, HandleTab DEF Serve, ServerStep
-----------------------------------------------------------------------------
(* The steps of the user                                                   *)

LEMMA IdleCall ==
    ASSUME SessionInv, NEW c \in Calls, calls[c] = Idle
    PROVE  awaited[c] = "nothing"
<1>1. calls[c].stage = "idle"
  BY DEF Idle
<1>. QED
  BY <1>1, TabFacts DEF TabCall

LEMMA LoginTab ==
    ASSUME SessionInv, NEW c \in Calls, NEW a \in Accounts, Login(c, a)
    PROVE  SessionInv'
<1>. DEFINE m == [kind |-> "login", account |-> a]
            q == [stage |-> "sent", message |-> m]
<1>1. /\ ~loading /\ signal = NoToken /\ calls[c] = Idle /\ Goto(c, q) /\ Call(c, m)
      /\ awaited' = [awaited EXCEPT ![c] = "login"] /\ loading' = TRUE
      /\ UNCHANGED <<signal, storage, reloads, issued, now>>
  BY DEF Login, Shown, Call, Await, Goto
<1>2. m \in Message
  BY DEF Message
<1>3. AccessInv'
  BY <1>1, <1>2, TabFacts, CallKeeps
<1>4. awaited \in [Calls -> Purposes] /\ "login" \in Purposes /\ awaited' \in [Calls -> Purposes]
  BY <1>1 DEF SessionInv, Purposes
<1>5. \A d \in Calls : awaited'[d] = IF d = c THEN "login" ELSE awaited[d]
  BY <1>1, <1>4
<1>6. \A d \in Calls : awaited[d] \notin Sessions
  BY <1>1 DEF SessionInv, LoadingInv
<1>7. LoadingInv'
  BY <1>1, <1>5, <1>6 DEF LoadingInv, Sessions
<1>8. q.stage = "sent" /\ q.message = m /\ m.kind = "login"
  OBVIOUS
<1>9. TabCall(q, "login", signal, issued', Spoiled')
  BY <1>1, <1>8 DEF TabCall
<1>10. calls' = [calls EXCEPT ![c] = q] /\ issued \subseteq issued' /\ (Spoiled => Spoiled')
  BY <1>1, SpoiledSame DEF Goto
<1>11. \A d \in Calls : TabCall(calls'[d], awaited'[d], signal, issued', Spoiled')
  BY <1>1, <1>4, <1>9, <1>10, TabKeeps
<1>. QED
  BY <1>1, <1>3, <1>4, <1>7, <1>11, <1>10 DEF SessionInv, ActsAsShown, LostOnlyByExpiry

\* What a page offers to the session it shows, the guard of the route allows in
\* its role.
LEMMA OffersAllowed ==
    ASSUME NEW route \in Routes, Offers(route), signal.role \in Roles
    PROVE  signal.role \in Guard(route)
<1>. DEFINE role == signal.role
<1>1. route \in AllRoutes
  BY RoutesAssumption
<1>2. \A minimum \in Roles : hasMinimumRole(minimum) => role \in RequireMinimumRole(minimum)
  BY DEF hasMinimumRole, RequireMinimumRole
<1>3. "operator" \in Roles /\ "reviewer" \in Roles
  BY DEF Roles, roleRank
<1>4. CASE route[1] = "system"
  <2>1. Guard(route) = SystemGuard(route[2])
    BY <1>4 DEF Guard
  <2>2. route[2] \in {"audits", "audit-summary", "history"} => route[2] = "audits"
    BY DEF Offers
  <2>3. route[2] = "audits" => hasMinimumRole("reviewer")
    BY DEF Offers
  <2>. QED
    BY <1>2, <1>3, <2>1, <2>2, <2>3 DEF SystemGuard
<1>5. CASE route[1] # "system"
  <2>1. /\ route[1] \in {"generators", "carriers", "manifests", "checks"}
        /\ route[2] \in {"list", "get", "create", "update", "transition", "remove"}
    BY <1>1, <1>5 DEF AllRoutes
  <2>2. Guard(route) = ResourceGuard(TransitionMinimum[route[1]], route[2])
    BY <1>5 DEF Guard
  <2>3. TransitionMinimum[route[1]] = transitionRole[route[1]] /\ transitionRole[route[1]] \in Roles
    BY <2>1, <1>3 DEF TransitionMinimum, transitionRole
  <2>4. CASE route[2] = "list"
    BY <2>2, <2>4 DEF ResourceGuard
  <2>5. CASE route[2] = "create"
    <3>1. hasMinimumRole("operator")
      BY <2>5 DEF Offers
    <3>. QED
      BY <1>2, <1>3, <2>2, <2>5, <3>1 DEF ResourceGuard
  <2>6. CASE route[2] = "transition"
    <3>1. hasMinimumRole(transitionRole[route[1]])
      BY <2>6 DEF Offers
    <3>. QED
      BY <1>2, <2>2, <2>3, <2>6, <3>1 DEF ResourceGuard
  <2>7. route[2] \in {"list", "create", "transition"}
    BY <2>1 DEF Offers
  <2>. QED
    BY <2>4, <2>5, <2>6, <2>7
<1>. QED
  BY <1>4, <1>5

LEMMA ClickTab ==
    ASSUME SessionInv, NEW c \in Calls, NEW route \in Routes, Click(c, route)
    PROVE  SessionInv'
<1>. DEFINE m == [kind |-> "api", route |-> route, token |-> storage]
            q == [stage |-> "sent", message |-> m]
<1>1. /\ signal # NoToken /\ Offers(route) /\ calls[c] = Idle /\ Goto(c, q) /\ Call(c, m)
      /\ awaited' = [awaited EXCEPT ![c] = "control"]
      /\ UNCHANGED <<signal, storage, loading, reloads, issued, now>>
  BY DEF Click, Call, Await, Goto, Api
<1>2. m \in Message
  <2>1. storage \in Token \cup {NoToken}
    BY DEF SessionInv, ActsAsShown, AccessInv, AccessTypeOK
  <2>. QED
    BY <2>1 DEF Message
<1>3. AccessInv'
  BY <1>1, <1>2, TabFacts, CallKeeps
<1>4. awaited \in [Calls -> Purposes] /\ "control" \in Purposes /\ awaited' \in [Calls -> Purposes]
  BY <1>1 DEF SessionInv, Purposes
<1>5. awaited[c] = "nothing"
  BY <1>1, IdleCall
<1>6. \A d \in Calls : awaited'[d] \in Sessions <=> awaited[d] \in Sessions
  BY <1>1, <1>4, <1>5 DEF Sessions
<1>7. LoadingInv'
  BY <1>1, <1>6 DEF SessionInv, LoadingInv
<1>8. q.stage = "sent" /\ q.message = m /\ m.kind = "api" /\ m.token = storage /\ m.route = route
  OBVIOUS
<1>9. storage = NoToken => Spoiled
  BY <1>1 DEF SessionInv, LostOnlyByExpiry
<1>10. storage = NoToken \/ storage.role \notin Roles \/ storage.role \in Guard(route)
  BY <1>1, OffersAllowed DEF SessionInv, ActsAsShown
<1>11. calls' = [calls EXCEPT ![c] = q] /\ issued \subseteq issued' /\ (Spoiled => Spoiled')
  BY <1>1, SpoiledSame DEF Goto
<1>12. RequestOK(m, Spoiled')
  BY <1>8, <1>9, <1>10, <1>11 DEF RequestOK
<1>13. TabCall(q, "control", signal, issued', Spoiled')
  BY <1>1, <1>8, <1>12 DEF TabCall
<1>14. \A d \in Calls : TabCall(calls'[d], awaited'[d], signal, issued', Spoiled')
  BY <1>1, <1>4, <1>11, <1>13, TabKeeps
<1>. QED
  BY <1>1, <1>3, <1>4, <1>7, <1>11, <1>14 DEF SessionInv, ActsAsShown, LostOnlyByExpiry

LEMMA LogoutTab ==
    ASSUME SessionInv, Logout
    PROVE  SessionInv'
<1>1. /\ ~loading /\ signal' = NoToken /\ storage' = NoToken
      /\ UNCHANGED <<loading, awaited, reloads>> /\ UNCHANGED accessVars
  BY DEF Logout, Shown, accessVars
<1>2. AccessInv'
  BY <1>1, AccessStuttering DEF SessionInv
<1>3. LoadingInv'
  BY <1>1 DEF SessionInv, LoadingInv
<1>4. UNCHANGED <<calls, issued, now>> /\ (Spoiled => Spoiled')
  BY <1>1, SpoiledSame DEF accessVars
<1>5. ASSUME NEW d \in Calls PROVE TabCall(calls'[d], awaited'[d], signal', issued', Spoiled')
  <2>1. TabCall(calls[d], awaited[d], signal, issued, Spoiled)
    BY DEF SessionInv
  <2>2. TabCall(calls[d], awaited[d], signal, issued', Spoiled')
    BY <1>4, <2>1, TabCallStays
  <2>3. awaited[d] # "login" /\ awaited[d] # "restore"
    BY <1>1 DEF SessionInv, LoadingInv, Sessions
  <2>4. TabCall(calls[d], awaited[d], NoToken, issued', Spoiled')
    BY <2>2, <2>3 DEF TabCall
  <2>. QED
    BY <1>1, <1>4, <2>4
<1>. QED
  BY <1>1, <1>2, <1>3, <1>5 DEF SessionInv, ActsAsShown, LostOnlyByExpiry

LEMMA ReloadTab ==
    ASSUME SessionInv, Reload
    PROVE  SessionInv'
<1>. DEFINE m == [kind |-> "api", route |-> SessionRoute, token |-> storage]
            q == [stage |-> "sent", message |-> m]
<1>1. PICK c \in Calls :
        /\ calls' = [d \in Calls |-> IF d = c /\ storage # NoToken THEN q ELSE Idle]
        /\ awaited' = [d \in Calls |-> IF d = c /\ storage # NoToken THEN "restore" ELSE "nothing"]
  BY DEF Reload, Api
<1>2. /\ reloads < MaxReloads /\ reloads' = reloads + 1
      /\ signal' = storage /\ storage' = storage /\ loading' = (storage # NoToken)
      /\ UNCHANGED <<now, account, issued, held>>
  BY DEF Reload
<1>3. storage \in issued \cup {NoToken} /\ issued \subseteq Token
  BY DEF SessionInv, ActsAsShown, AccessInv, AccessTypeOK
<1>4. q \in Place /\ Idle \in Place
  <2>1. m \in Message
    BY <1>3, SessionAssumption DEF Message
  <2>. QED
    BY <2>1 DEF Place
<1>5. q.stage = "sent" /\ q.message = m /\ m.kind = "api" /\ m.token = storage
      /\ m.route = SessionRoute /\ Idle.stage = "idle"
  BY DEF Idle
<1>6. AccessInv'
  <2>1. calls' \in [Calls -> Place]
    BY <1>1, <1>4
  <2>2. AccessTypeOK'
    BY <1>2, <2>1 DEF SessionInv, AccessInv, AccessTypeOK
  <2>3. CallOK(q, issued, held, now) /\ CallOK(Idle, issued, held, now)
    BY <1>3, <1>5 DEF CallOK
  <2>4. \A d \in Calls : CallOK(calls'[d], issued', held', now')
    BY <1>1, <1>2, <2>3
  <2>. QED
    BY <1>2, <2>2, <2>4 DEF SessionInv, AccessInv, HeldUntil
<1>7. LoadingInv'
  <2>1. \A d \in Calls : awaited'[d] \in Sessions <=> d = c /\ storage # NoToken
    BY <1>1 DEF Sessions
  <2>. QED
    BY <1>2, <2>1 DEF LoadingInv
<1>8. awaited' \in [Calls -> Purposes] /\ reloads' \in 0..MaxReloads
  BY <1>1, <1>2, SessionAssumption DEF SessionInv, Purposes
<1>9. ASSUME storage # NoToken PROVE TabCall(q, "restore", storage, issued', Spoiled')
  <2>1. SessionRoute[1] = "system" /\ SessionRoute[2] = "session"
    BY DEF SessionRoute
  <2>2. Guard(SessionRoute) = Roles
    BY <2>1 DEF Guard, SystemGuard
  <2>3. RequestOK(m, Spoiled')
    BY <1>5, <1>9, <2>2 DEF RequestOK
  <2>. QED
    BY <1>5, <1>9, <2>3 DEF TabCall
<1>10. TabCall(Idle, "nothing", storage, issued', Spoiled')
  BY <1>5 DEF TabCall
<1>11. \A d \in Calls : TabCall(calls'[d], awaited'[d], signal', issued', Spoiled')
  BY <1>1, <1>2, <1>9, <1>10
<1>. QED
  BY <1>2, <1>3, <1>6, <1>7, <1>8, <1>11 DEF SessionInv, ActsAsShown, LostOnlyByExpiry
-----------------------------------------------------------------------------
(* The answers                                                             *)

\* The tab takes the answer to call c, and s is the session it shows then.
LEMMA ReceiveTab ==
    ASSUME SessionInv, NEW c \in Calls, Hang(c), Await(c, "nothing"), UNCHANGED reloads,
           NEW s, signal' = s, s \in issued \cup {NoToken},
           storage' \in {NoToken, s},
           s # NoToken /\ storage' = NoToken => Spoiled,
           \/ s = signal /\ loading' = loading /\ awaited[c] \notin Sessions
           \/ loading' = FALSE /\ awaited[c] \in Sessions
    PROVE  SessionInv'
<1>1. /\ calls' = [calls EXCEPT ![c] = Idle] /\ awaited' = [awaited EXCEPT ![c] = "nothing"]
      /\ UNCHANGED <<now, issued>>
  BY DEF Hang, Goto, Await
<1>2. AccessInv'
  BY TabFacts, HangKeeps
<1>3. awaited \in [Calls -> Purposes] /\ "nothing" \in Purposes /\ awaited' \in [Calls -> Purposes]
  BY <1>1 DEF SessionInv, Purposes
<1>4. \A d \in Calls : awaited'[d] = IF d = c THEN "nothing" ELSE awaited[d]
  BY <1>1, <1>3
<1>5. LoadingInv'
  <2>1. \A d \in Calls : awaited'[d] \in Sessions <=> d # c /\ awaited[d] \in Sessions
    BY <1>4 DEF Sessions
  <2>2. CASE loading' = loading /\ awaited[c] \notin Sessions
    BY <2>1, <2>2 DEF SessionInv, LoadingInv
  <2>3. CASE loading' = FALSE /\ awaited[c] \in Sessions
    <3>1. \A d \in Calls : awaited'[d] \notin Sessions
      BY <2>1, <2>3 DEF SessionInv, LoadingInv
    <3>. QED
      BY <2>3, <3>1 DEF LoadingInv
  <2>. QED
    BY <2>2, <2>3
<1>6. TabCall(Idle, "nothing", s, issued', Spoiled')
  BY DEF TabCall, Idle
<1>7. s = signal \/ \A d \in Calls : d # c => awaited[d] \notin Sessions
  BY DEF SessionInv, LoadingInv
<1>8. issued \subseteq issued' /\ (Spoiled => Spoiled')
  BY <1>1, SpoiledSame
<1>9. \A d \in Calls : TabCall(calls'[d], awaited'[d], s, issued', Spoiled')
  BY <1>1, <1>3, <1>6, <1>7, <1>8, TabKeeps
<1>. QED
  BY <1>1, <1>2, <1>3, <1>5, <1>8, <1>9 DEF SessionInv, ActsAsShown, LostOnlyByExpiry

LEMMA AnswersTab ==
    ASSUME SessionInv, NEW c \in Calls, Receive(c)
    PROVE  SessionInv'
<1>1. /\ calls[c].stage = "answered" /\ Hang(c) /\ Await(c, "nothing") /\ UNCHANGED reloads
      /\ Restored(c) \/ LoggedIn(c) \/ Clicked(c)
  BY DEF Receive
<1>2. TabCall(calls[c], awaited[c], signal, issued, Spoiled)
  BY TabFacts
<1>3. signal \in issued \cup {NoToken} /\ storage \in {NoToken, signal}
  BY DEF SessionInv, ActsAsShown
<1>4. AfterRequest(c) \in {NoToken, storage}
  BY DEF AfterRequest
<1>5. CASE Restored(c)
  <2>1. awaited[c] = "restore" /\ loading' = FALSE /\ signal' = storage'
        /\ signal' \in {NoToken, calls[c].message.token}
    BY <1>5 DEF Restored, Keep
  <2>2. calls[c].message.kind = "api"
    BY <1>1, <1>2, <2>1, TabFacts, PlaceShapes, MessageShapes DEF TabCall
  <2>3. calls[c].message.token \in issued \cup {NoToken}
    BY <1>1, <2>2, TabFacts DEF CallOK
  <2>. QED
    BY <1>1, <2>1, <2>3, ReceiveTab DEF Sessions
<1>6. CASE LoggedIn(c)
  <2>1. awaited[c] = "login" /\ loading' = FALSE /\ signal = NoToken
    BY <1>2, <1>6 DEF LoggedIn, TabCall
  <2>2. CASE calls[c].status = "ok"
    <3>1. calls[c].token \in issued
      BY <1>1, <1>2, <2>1, <2>2 DEF TabCall
    <3>2. signal' = calls[c].token /\ storage' = calls[c].token
      BY <1>6, <2>2 DEF LoggedIn, Keep
    <3>. QED
      BY <1>1, <2>1, <3>1, <3>2, ReceiveTab DEF Sessions
  <2>3. CASE calls[c].status # "ok"
    <3>1. signal' = NoToken /\ storage' = NoToken
      BY <1>3, <1>4, <1>6, <2>1, <2>3 DEF LoggedIn
    <3>. QED
      BY <1>1, <2>1, <3>1, ReceiveTab DEF Sessions
  <2>. QED
    BY <2>2, <2>3
<1>7. CASE Clicked(c)
  <2>1. awaited[c] = "control" /\ UNCHANGED <<signal, loading>> /\ storage' = AfterRequest(c)
    BY <1>7 DEF Clicked
  <2>2. signal' # NoToken /\ storage' = NoToken => Spoiled
    <3>1. calls[c].status = "unauthorized" => Spoiled
      BY <1>1, <1>2, <2>1 DEF TabCall
    <3>2. calls[c].status # "unauthorized" => storage' = storage
      BY <2>1 DEF AfterRequest, Refused
    <3>. QED
      BY <2>1, <3>1, <3>2 DEF SessionInv, LostOnlyByExpiry
  <2>3. storage' \in {NoToken, signal'}
    BY <1>3, <1>4, <2>1
  <2>. QED
    BY <1>1, <1>3, <2>1, <2>2, <2>3, ReceiveTab DEF Sessions
<1>. QED
  BY <1>1, <1>5, <1>6, <1>7

LEMMA SessionStep == SessionInv /\ [SessionNext]_vars => SessionInv'
<1>. SUFFICES ASSUME SessionInv, [SessionNext]_vars PROVE SessionInv'
  OBVIOUS
<1>1. CASE User
  BY <1>1, LoginTab, ClickTab, LogoutTab, ReloadTab DEF User
<1>2. CASE \E c \in Calls : Serve(c) \/ Receive(c)
  BY <1>2, ServerTab, AnswersTab
<1>3. CASE World /\ UNCHANGED tab
  BY <1>3, WorldTab
<1>4. CASE UNCHANGED vars
  <2>1. AccessInv'
    BY <1>4, AccessStuttering DEF vars, accessVars, SessionInv
  <2>. QED
    BY <1>4, <2>1 DEF vars, SessionInv, LoadingInv, LostOnlyByExpiry, Spoiled, ActsAsShown
<1>. QED
  BY <1>1, <1>2, <1>3, <1>4 DEF SessionNext
-----------------------------------------------------------------------------
(* The theorems                                                            *)

LEMMA SessionInvariant == SessionSpec => []SessionInv
BY SessionInitially, SessionStep, PTL DEF SessionSpec

\* The types of the session and of the calls; the loading screen is there exactly
\* while a login or a restoration is awaited.
THEOREM TypeCorrect == SessionSpec => []TypeOK
BY SessionInvariant, SessionTypes, PTL

\* A call of the workbench is let through only in a role its account held, while
\* it was active, less than TTL before.
THEOREM SessionStaleAtMostTTL == SessionSpec => []StaleAtMostTTL
<1>1. SessionInv => StaleAtMostTTL
  BY AccessImplies DEF SessionInv
<1>. QED
  BY <1>1, SessionInvariant, PTL

\* No call that a page offers is refused for its role.
THEOREM OffersAreAllowed == SessionSpec => []OfferedIsAllowed
<1>1. SessionInv => OfferedIsAllowed
  BY DEF SessionInv, TabCall, OfferedIsAllowed
<1>. QED
  BY <1>1, SessionInvariant, PTL

\* Requests never carry the token of a session other than the one shown.
THEOREM TabActsAsShown == SessionSpec => []ActsAsShown
<1>1. SessionInv => ActsAsShown
  BY DEF SessionInv
<1>. QED
  BY <1>1, SessionInvariant, PTL

\* A session that is shown is lost only by a token that can be refused.
THEOREM SessionsLostByExpiry == SessionSpec => []LostOnlyByExpiry
<1>1. SessionInv => LostOnlyByExpiry
  BY DEF SessionInv
<1>. QED
  BY <1>1, SessionInvariant, PTL

\* After a logout only the answer to a new login shows a session.
THEOREM NoLateLogin == SessionSpec => LoggedOutStaysOut
<1>. DEFINE Step == signal = NoToken /\ signal' # NoToken
                    => \E c \in Calls : awaited[c] = "login" /\ awaited'[c] = "nothing"
<1>1. SessionInv /\ [SessionNext]_vars => [Step]_vars
  <2>. SUFFICES ASSUME SessionInv, SessionNext, signal = NoToken, signal' # NoToken
                PROVE  \E c \in Calls : awaited[c] = "login" /\ awaited'[c] = "nothing"
    BY DEF vars
  <2>1. ~(World /\ UNCHANGED tab) /\ ~(\E c \in Calls : Serve(c))
    BY DEF tab, Serve
  <2>2. ~User
    BY DEF User, Login, Click, Logout, Reload, SessionInv, ActsAsShown
  <2>3. PICK c \in Calls : Receive(c)
    BY <2>1, <2>2 DEF SessionNext
  <2>4. awaited[c] # "restore"
    BY DEF SessionInv, TabCall
  <2>5. awaited[c] = "login"
    BY <2>3, <2>4 DEF Receive, Restored, LoggedIn, Clicked
  <2>6. awaited'[c] = "nothing"
    BY <2>3 DEF Receive, Await, SessionInv
  <2>. QED
    BY <2>5, <2>6
<1>. QED
  BY <1>1, SessionInvariant, PTL DEF SessionSpec, LoggedOutStaysOut
=============================================================================
