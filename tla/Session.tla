------------------------------- MODULE Session -------------------------------
(***************************************************************************)
(* The workbench in one tab of a browser, as a client of Access: the       *)
(* session it shows (the signal of AuthService), the session in the local  *)
(* storage, whose token every request carries, and the calls that are      *)
(* awaited while the user clicks on.  A session is its token: what else it *)
(* holds, the server reads from the same token.                            *)
(***************************************************************************)
EXTENDS Access

CONSTANT MaxReloads     \* bound: how often the user reloads the page

SessionRoute == <<"system", "session">>

ASSUME SessionAssumption == SessionRoute \in Routes /\ MaxReloads \in Nat

VARIABLES
    signal,         \* the session of AuthService, NoToken if there is none
    storage,        \* the session in the local storage, likewise
    loading,        \* AuthService.loading
    awaited,        \* awaited[c]: what the tab awaits call c for
    reloads         \* reloads so far

vars == <<now, account, issued, calls, held, signal, storage, loading, awaited, reloads>>

tab == <<signal, storage, loading, awaited, reloads>>

Purposes == {"nothing", "login", "restore", "control"}

SessionInit ==
    /\ AccessInit
    /\ signal = NoToken /\ storage = NoToken
    /\ loading = FALSE
    /\ awaited = [c \in Calls |-> "nothing"]
    /\ reloads = 0

Api(route) == [kind |-> "api", route |-> route, token |-> storage]

Await(c, purpose) == awaited' = [awaited EXCEPT ![c] = purpose]
-----------------------------------------------------------------------------
(* The user                                                                *)

\* While a session is being set up the application shows nothing else.
Shown == ~loading

\* The login page is for those who are not authenticated (loginGuard).
Login(c, a) ==
    /\ Shown /\ signal = NoToken
    /\ Call(c, [kind |-> "login", account |-> a])
    /\ Await(c, "login")
    /\ loading' = TRUE
    /\ UNCHANGED <<signal, storage, reloads>>

LogoutUnshown ==                \* mutant of Logout: the button is there all the time
    /\ signal # NoToken
    /\ signal' = NoToken /\ storage' = NoToken
    /\ UNCHANGED <<now, account, issued, calls, held, loading, awaited, reloads>>

LogoutOnScreen ==               \* mutant of Logout: the storage is forgotten
    /\ Shown /\ signal # NoToken
    /\ signal' = NoToken
    /\ UNCHANGED <<now, account, issued, calls, held, storage, loading, awaited, reloads>>

Logout ==
    /\ Shown /\ signal # NoToken
    /\ signal' = NoToken /\ storage' = NoToken
    /\ UNCHANGED <<now, account, issued, calls, held, loading, awaited, reloads>>

hasMinimumRole(minimum) ==
    signal.role \in Roles /\ roleRank[signal.role] >= roleRank[minimum]

\* Mutant of transitionRole: checks are decided by operators.
transitionRoleOfOperators ==
    [generators |-> "reviewer", carriers |-> "reviewer",
     manifests |-> "operator", checks |-> "operator"]

transitionRole ==
    [generators |-> "reviewer", carriers |-> "reviewer",
     manifests |-> "operator", checks |-> "reviewer"]

\* The calls that the pages offer to whom they think is logged in: lists to
\* everyone, the button to create, those to transition, and the audit page.
Offers(route) ==
    CASE route[2] = "list" -> TRUE
      [] route[2] = "create" -> hasMinimumRole("operator")
      [] route[2] = "transition" -> hasMinimumRole(transitionRole[route[1]])
      [] route[2] = "audits" -> hasMinimumRole("reviewer")
      [] OTHER -> FALSE

Click(c, route) ==
    /\ Shown /\ signal # NoToken
    /\ Offers(route)
    /\ Call(c, Api(route))
    /\ Await(c, "control")
    /\ UNCHANGED <<signal, storage, loading, reloads>>

\* The page is loaded anew: no answer to the old page counts any more, and the
\* session in the storage is shown, and restored if there is one.
Reload ==
    /\ reloads < MaxReloads
    /\ reloads' = reloads + 1
    /\ signal' = storage
    /\ loading' = (storage # NoToken)
    /\ \E c \in Calls :
           /\ calls' = [d \in Calls |->
                           IF d = c /\ storage # NoToken
                           THEN [stage |-> "sent", message |-> Api(SessionRoute)]
                           ELSE Idle]
           /\ awaited' = [d \in Calls |->
                             IF d = c /\ storage # NoToken THEN "restore" ELSE "nothing"]
    /\ UNCHANGED <<now, account, issued, held, storage>>
-----------------------------------------------------------------------------
(* The answers                                                             *)

Refused(c) == calls[c].status = "unauthorized"

\* Mutant of AfterRequest: every answer but a good one ends the session.
AfterAnyFailure(c) == IF calls[c].status # "ok" THEN NoToken ELSE storage

\* What request leaves in the storage: a 401 removes the session.
AfterRequest(c) == IF Refused(c) THEN NoToken ELSE storage

Keep(session) == signal' = session /\ storage' = session

\* Mutant of Restored: nothing is done about a failure.
RestoredIfOk(c) ==
    /\ awaited[c] = "restore"
    /\ IF calls[c].status = "ok"
       THEN Keep(calls[c].message.token) /\ loading' = FALSE
       ELSE storage' = AfterRequest(c) /\ UNCHANGED <<signal, loading>>

\* restore goes on with the session it read before the call.
Restored(c) ==
    /\ awaited[c] = "restore"
    /\ Keep(IF calls[c].status = "ok" THEN calls[c].message.token ELSE NoToken)
    /\ loading' = FALSE

LoggedIn(c) ==
    /\ awaited[c] = "login"
    /\ IF calls[c].status = "ok"
       THEN Keep(calls[c].token)
       ELSE storage' = AfterRequest(c) /\ UNCHANGED signal
    /\ loading' = FALSE

Clicked(c) ==
    /\ awaited[c] = "control"
    /\ storage' = AfterRequest(c)
    /\ UNCHANGED <<signal, loading>>

\* The answer to call c arrives in the tab.
Receive(c) ==
    /\ calls[c].stage = "answered"
    /\ Hang(c)
    /\ Restored(c) \/ LoggedIn(c) \/ Clicked(c)
    /\ Await(c, "nothing")
    /\ UNCHANGED reloads
-----------------------------------------------------------------------------
User ==
    \/ \E c \in Calls, a \in Accounts : Login(c, a)
    \/ \E c \in Calls, route \in Routes : Click(c, route)
    \/ Logout \/ Reload

Serve(c) == ServerStep(c) /\ UNCHANGED tab

World == (\E a \in Accounts : Administer(a)) \/ Tick

SessionNext ==
    \/ User
    \/ \E c \in Calls : Serve(c) \/ Receive(c)
    \/ World /\ UNCHANGED tab

\* Every call is answered, by the server or by the proxy that gives up on it, and
\* the tab handles every answer.
SessionFairness == \A c \in Calls : WF_vars(Serve(c)) /\ WF_vars(Receive(c))

SessionSpec == SessionInit /\ [][SessionNext]_vars /\ SessionFairness
-----------------------------------------------------------------------------
(* The properties                                                          *)

TypeOK ==
    /\ AccessTypeOK
    /\ signal \in Token \cup {NoToken}
    /\ storage \in Token \cup {NoToken}
    /\ loading \in BOOLEAN
    /\ awaited \in [Calls -> Purposes]
    /\ reloads \in 0..MaxReloads
    /\ loading = (\E c \in Calls : awaited[c] \in {"login", "restore"})

\* README.md:41: what the pages offer agrees with the guards of the routes: no
\* call that a page offers is ever refused for its role, whatever became of the
\* account in the meantime, for the page and the server believe one token.
OfferedIsAllowed ==
    \A c \in Calls : calls[c].stage = "answered" => calls[c].status # "forbidden"

\* The tab never acts as somebody else than it shows: requests carry the token of
\* the session on the screen, or none, however logins, logouts and the answers
\* to earlier requests follow each other.
ActsAsShown == storage \in {NoToken, signal}

\* A token that Authenticate refuses has been issued.
Spoiled == \E token \in issued : token.exp <= now \/ token.role \notin Roles

\* A tab that shows a session it has lost, so that every click is refused, can
\* come only of a token that expired, or was issued in a role that is none; the
\* answer to a request of an earlier session may do it (request does not ask
\* whose token was refused).
LostOnlyByExpiry == signal # NoToken /\ storage = NoToken => Spoiled

\* After a logout no late answer brings the session back: only the answer to a
\* login shows a session where there was none.
LoggedOutStaysOut ==
    [][signal = NoToken /\ signal' # NoToken
       => \E c \in Calls : awaited[c] = "login" /\ awaited'[c] = "nothing"]_vars

\* The screen that hides the application while a session is set up goes away,
\* whatever becomes of the call (restore and login end with loading off).
LoadingEnds == loading ~> ~loading
=============================================================================
