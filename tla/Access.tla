------------------------------- MODULE Access -------------------------------
(***************************************************************************)
(* Who may call what: login, the tokens it signs, and the middleware that  *)
(* every route under /api passes.  A token says whom it was issued to and  *)
(* in which role, and is believed until it expires: the account is not     *)
(* read again.  Accounts change in the database only; no route does it.    *)
(*                                                                         *)
(* Tokens cannot be forged, so a client presents none or one that was      *)
(* issued.  Of the answer to a call its status is kept; "failed" is every  *)
(* status but 200, 401 and 403, and no answer at all.  An instant is long  *)
(* against a login (a token lives for hours).                              *)
(***************************************************************************)
EXTENDS Naturals

CONSTANTS
    Accounts,       \* usernames
    AccountStates,  \* the states an account can be in, as records
    Calls,          \* calls that can be under way at once
    Routes,         \* the routes that clients call, as pairs
    TTL,            \* how long a token is valid
    Horizon,        \* bound: the last instant of the clock
    NoToken         \* no Authorization header

roleRank == [viewer |-> 1, operator |-> 2, reviewer |-> 3, admin |-> 4]

Roles == DOMAIN roleRank

\* Any text can be in the role column; "unranked" is one that is no role.
RoleNames == Roles \cup {"unranked"}

RequireMinimumRole(minimum) == {role \in Roles : roleRank[role] >= roleRank[minimum]}

\* The roles that the guards of a route let through, resource by resource as the
\* handlers register them; a removal asks for an admin once more in its handler.
ResourceGuard(transitionMinimum, operation) ==
    CASE operation \in {"list", "get"} -> Roles
      [] operation \in {"create", "update"} -> RequireMinimumRole("operator")
      [] operation = "transition" -> RequireMinimumRole(transitionMinimum)
      [] operation = "remove" -> {"admin"}

TransitionMinimum ==
    [generators |-> "reviewer", carriers |-> "reviewer",
     manifests |-> "operator", checks |-> "reviewer"]

SystemGuard(operation) ==
    IF operation \in {"audits", "audit-summary", "history"}
    THEN RequireMinimumRole("reviewer")
    ELSE Roles

Guard(route) ==
    IF route[1] = "system" THEN SystemGuard(route[2])
    ELSE ResourceGuard(TransitionMinimum[route[1]], route[2])

AllRoutes ==
    {"generators", "carriers", "manifests", "checks"}
        \X {"list", "get", "create", "update", "transition", "remove"}
    \cup {"system"} \X {"overview", "session", "runtime", "audits", "audit-summary", "history"}

ASSUME RoutesAssumption == Routes \subseteq AllRoutes

ASSUME AccessAssumption ==
    /\ AccountStates \subseteq [role : RoleNames, active : BOOLEAN]
    /\ TTL \in Nat \ {0} /\ Horizon \in Nat \ {0}

VARIABLES
    now,            \* the clock
    account,        \* account[a]: role and active of account a
    issued,         \* history: the tokens signed so far
    calls,          \* calls[c]: how far call c has come
    held            \* history: held[a][role], when a was last active in role, 0 if never

accessVars == <<now, account, issued, calls, held>>

Token == [account : Accounts, role : RoleNames, exp : Nat]

\* What a client asks for.
Message ==
    [kind : {"login"}, account : Accounts]
    \cup [kind : {"api"}, route : Routes, token : Token \cup {NoToken}]

Idle == [stage |-> "idle"]

Statuses == {"ok", "unauthorized", "forbidden", "failed"}

AccessInit ==
    /\ now = 1
    /\ account \in [Accounts -> AccountStates]
    /\ issued = {}
    /\ calls = [c \in Calls |-> Idle]
    /\ held = [a \in Accounts |->
                  [role \in RoleNames |->
                      IF account[a] = [role |-> role, active |-> TRUE] THEN 1 ELSE 0]]

Goto(c, place) ==
    /\ calls' = [calls EXCEPT ![c] = place]
    /\ UNCHANGED <<now, account, held>>

Answer(c, status, token) ==
    Goto(c, [stage |-> "answered", message |-> calls[c].message,
             status |-> status, token |-> token])
-----------------------------------------------------------------------------
(* A call                                                                  *)

Call(c, message) ==
    /\ calls[c] = Idle
    /\ message.kind = "api" => message.token \in issued \cup {NoToken}
    /\ Goto(c, [stage |-> "sent", message |-> message])
    /\ UNCHANGED issued

Sent(c, kind) == calls[c].stage = "sent" /\ calls[c].message.kind = kind

FindAnyUser(a) == TRUE          \* mutant of FindUserByUsername

\* Only active accounts are found.
FindUserByUsername(a) == account[a].active

\* The account is read, and the password compared with its hash, which takes a while.
FindUser(c) ==
    /\ Sent(c, "login")
    /\ LET a == calls[c].message.account IN
       \/ FindUserByUsername(a)
          /\ Goto(c, [stage |-> "found", message |-> calls[c].message, role |-> account[a].role])
       \/ Answer(c, "unauthorized", NoToken)
    /\ UNCHANGED issued

\* The token is signed, in the role that was read.
Sign(c) ==
    /\ calls[c].stage = "found"
    /\ LET token == [account |-> calls[c].message.account, role |-> calls[c].role,
                     exp |-> now + TTL]
       IN issued' = issued \cup {token} /\ Answer(c, "ok", token)

ValidUnexpired(token) == token # NoToken /\ token.role \in Roles     \* mutant of Valid

\* Authenticate's verdict on the token of a request.
Valid(token) == token # NoToken /\ now < token.exp /\ token.role \in Roles

\* Authenticate and the role guards, which read nothing but the token.
Authorize(c) ==
    /\ Sent(c, "api")
    /\ LET m == calls[c].message IN
       IF ~Valid(m.token) THEN Answer(c, "unauthorized", NoToken)
       ELSE IF m.token.role \notin Guard(m.route) THEN Answer(c, "forbidden", NoToken)
       ELSE Goto(c, [stage |-> "authorized", message |-> m, at |-> now])
    /\ UNCHANGED issued

\* The handler does its work; 404, 409, 422 and 500 are all "failed".
Handle(c) ==
    /\ calls[c].stage = "authorized"
    /\ \E status \in {"ok", "failed"} : Answer(c, status, NoToken)
    /\ UNCHANGED issued

\* The limiter answers with 429, before the token is looked at; or the call or
\* its answer is lost.
Fail(c) ==
    /\ calls[c].stage \in {"sent", "authorized"}
    /\ Answer(c, "failed", NoToken)
    /\ UNCHANGED issued

\* The client takes the answer, or goes away before there is one.
Hang(c) == calls[c] # Idle /\ Goto(c, Idle) /\ UNCHANGED issued

ServerStep(c) == FindUser(c) \/ Sign(c) \/ Authorize(c) \/ Handle(c) \/ Fail(c)
-----------------------------------------------------------------------------
(* Accounts and time                                                       *)

\* Who is active in which role at the next instant, remembered.
Remember ==
    held' = [a \in Accounts |->
                [role \in RoleNames |->
                    IF account'[a] = [role |-> role, active |-> TRUE] THEN now'
                    ELSE held[a][role]]]

\* An account is changed in the database: promoted, demoted, or deactivated.
Administer(a) ==
    /\ \E s \in AccountStates : account' = [account EXCEPT ![a] = s]
    /\ UNCHANGED <<now, issued, calls>>
    /\ Remember

Tick ==
    /\ now < Horizon
    /\ \A c \in Calls : calls[c].stage # "found"
    /\ now' = now + 1
    /\ UNCHANGED <<account, issued, calls>>
    /\ Remember

AccessNext ==
    \/ \E c \in Calls : (\E message \in Message : Call(c, message)) \/ ServerStep(c) \/ Hang(c)
    \/ \E a \in Accounts : Administer(a)
    \/ Tick

AccessSpec == AccessInit /\ [][AccessNext]_accessVars
-----------------------------------------------------------------------------
(* The properties                                                          *)

Place ==
    {Idle}
    \cup [stage : {"sent"}, message : Message]
    \cup [stage : {"found"}, message : Message, role : RoleNames]
    \cup [stage : {"authorized"}, message : Message, at : 1..Horizon]
    \cup [stage : {"answered"}, message : Message, status : Statuses, token : Token \cup {NoToken}]

AccessTypeOK ==
    /\ now \in 1..Horizon
    /\ account \in [Accounts -> AccountStates]
    /\ issued \subseteq Token
    /\ calls \in [Calls -> Place]
    /\ held \in [Accounts -> [RoleNames -> 0..Horizon]]

\* Whatever becomes of an account, a call is let through only in a role that the
\* account held, and while it was active, less than TTL before: a demotion or a
\* deactivation takes effect after TTL at the latest, even if it happened
\* between the reading of the account and the signature of its token (Login,
\* Authenticate).
StaleAtMostTTL ==
    \A c \in Calls :
        calls[c].stage = "authorized" =>
            LET token == calls[c].message.token
            IN calls[c].at < held[token.account][token.role] + TTL
=============================================================================
