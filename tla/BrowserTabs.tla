---------------------------- MODULE BrowserTabs ----------------------------
(***************************************************************************)
(* The tabs of one browser signed in to LinkFlow.  They share the cookie   *)
(* with the refresh token, which the API sets and clears, and the access   *)
(* token in localStorage; each has its page, its queries and its channel   *)
(* to the other tabs.  The middleware of the web application sends a tab   *)
(* with a cookie away from the public pages and one without a cookie away  *)
(* from the dashboard.                                                     *)
(*                                                                         *)
(* A tab has one call in flight at a time: what several calls of a tab do  *)
(* to each other, and calls that get no answer, are in TokenRefresh.       *)
(***************************************************************************)
EXTENDS Naturals, Sequences

CONSTANTS
    Tabs,      \* the open tabs
    MaxRows,   \* bound: refresh tokens issued to this browser
    MaxOpens,  \* bound: pages loaded by hand
    MaxPopups, \* bound: times the Google window is opened
    MaxEnds    \* bound: times the sessions are ended from elsewhere

ASSUME TabsAssumption ==
    /\ MaxRows \in Nat \ {0}
    /\ MaxOpens \in Nat
    /\ MaxPopups \in Nat
    /\ MaxEnds \in Nat

VARIABLES
    cookie,  \* the row of refresh_tokens the cookie names, 0 without a cookie
    token,   \* the access token in localStorage, "none" once it has expired
    row,     \* refresh_tokens: what has become of each row
    tab,     \* what each tab shows and waits for
    inbox,   \* the messages of the channel a tab has not handled yet
    popup,   \* the Google window is open
    opens, popups, ends

shared == <<cookie, token>>
counters == <<opens, popups, ends>>
vars == <<cookie, token, row, tab, inbox, popup, opens, popups, ends>>

Rows == 1 .. MaxRows

-----------------------------------------------------------------------------
(* The authentication endpoints: what a route asks of a request, whether    *)
(* the controller wants the cookie, and what it does to it.                *)

SignInRoutes ==
    [registerUser |-> "body", loginUser |-> "body", refreshToken |-> "none",
     logoutUser |-> "none", loginWithGoogle |-> "none", googleCallback |-> "none",
     exchange |-> "none"]

MailRoutes ==
    [verifyEmail |-> "none", resendVerificationEmail |-> "none", forgotPassword |-> "body",
     validateResetPassword |-> "none", resetPassword |-> "body"]

SessionRoutes ==
    [findAllSessions |-> "token", logoutSession |-> "token", logoutAllOtherSessions |-> "token"]

Handler(asks, wants, does) == [asks |-> asks, wants |-> wants, does |-> does]

registerUser == Handler(SignInRoutes.registerUser, "nothing", "keeps")
loginUser == Handler(SignInRoutes.loginUser, "nothing", "sets")
refreshToken == Handler(SignInRoutes.refreshToken, "cookie", "sets")
logoutUser == Handler(SignInRoutes.logoutUser, "cookie", "clears")
loginWithGoogle == Handler(SignInRoutes.loginWithGoogle, "nothing", "keeps")
googleCallback == Handler(SignInRoutes.googleCallback, "nothing", "sets")
exchange == Handler(SignInRoutes.exchange, "cookie", "keeps")
verifyEmail == Handler(MailRoutes.verifyEmail, "nothing", "sets")
resendVerificationEmail == Handler(MailRoutes.resendVerificationEmail, "nothing", "keeps")
forgotPassword == Handler(MailRoutes.forgotPassword, "nothing", "keeps")
validateResetPassword == Handler(MailRoutes.validateResetPassword, "nothing", "keeps")
resetPassword == Handler(MailRoutes.resetPassword, "nothing", "keeps")
findAllSessions == Handler(SessionRoutes.findAllSessions, "nothing", "keeps")
logoutSession == Handler(SessionRoutes.logoutSession, "nothing", "keeps")
logoutAllOtherSessions == Handler(SessionRoutes.logoutAllOtherSessions, "nothing", "keeps")

\* The calls a tab waits for, by the name the web application gives them.
Controller ==
    [login |-> loginUser, verify |-> verifyEmail, refresh |-> refreshToken,
     exchange |-> exchange, logout |-> logoutUser, giveUp |-> logoutUser]

SetsCookie(handler, issued) ==
    CASE handler.does = "sets"   -> issued
      [] handler.does = "clears" -> 0
      [] handler.does = "keeps"  -> cookie

\* A request to an endpoint that asks for a token is answered if it shows one.
Passes(handler) == handler.asks = "token" => token = "valid"

-----------------------------------------------------------------------------
(* Pages.  The landing page is to the middleware what /login is.           *)

PublicRoutes ==
    {"login", "register", "register/success", "forgot-password",
     "forgot-password/success", "reset-password", "reset-password/success", "verify-email"}

Pages == PublicRoutes \cup {"dashboard"}

\* Where the middleware lets a request for a page end.
Middleware(page) ==
    CASE page \in PublicRoutes /\ cookie # 0 -> "dashboard"
      [] page = "dashboard" /\ cookie = 0    -> "login"
      [] OTHER                               -> page

\* The links a page offers.
LoginPage                 == {"register", "forgot-password"}
RegisterPage              == {"login"}
RegisterSuccessPage       == {"login"}
ForgotPasswordPage        == {"login"}
ForgotPasswordSuccessPage == {"login"}
ResetPasswordPage         == {"login", "forgot-password"}
ResetPasswordSuccessPage  == {"login"}

Link(page) ==
    CASE page = "login"                   -> LoginPage
      [] page = "register"                -> RegisterPage
      [] page = "register/success"        -> RegisterSuccessPage
      [] page = "forgot-password"         -> ForgotPasswordPage
      [] page = "forgot-password/success" -> ForgotPasswordSuccessPage
      [] page = "reset-password"          -> ResetPasswordPage
      [] page = "reset-password/success"  -> ResetPasswordSuccessPage
      [] OTHER                            -> {}

-----------------------------------------------------------------------------
(* A tab and its calls                                                     *)

Messages == {"LOGOUT", "GOOGLE_LOGIN_SUCCESS", "GOOGLE_LOGIN_CANCELLED"}

Phases == {"idle", "sent", "ok", "refused", "failed", "retry"}

\* What waits for a refresh: a query, its second try, or an exchange.
Reasons == {"query", "again", "exchange", "none"}

Tab == [page : Pages, nav : Pages \cup {"none"}, due : BOOLEAN,
        op : DOMAIN Controller \cup {"none"}, phase : Phases,
        sent : 0 .. MaxRows, got : 0 .. MaxRows, for : Reasons]

\* A tab whose page has just been loaded: its queries are to be made.
Loaded(page) ==
    [page |-> page, nav |-> "none", due |-> page = "dashboard",
     op |-> "none", phase |-> "idle", sent |-> 0, got |-> 0, for |-> "none"]

AtRest(t) == tab[t].phase = "idle"

\* The tab s, idle again.
Ended(s) == [s EXCEPT !.op = "none", !.phase = "idle", !.sent = 0, !.got = 0, !.for = "none"]

\* The tab s, having sent a call: it carries the cookie of this moment.
Calling(s, op, for) ==
    [s EXCEPT !.op = op, !.phase = "sent", !.sent = cookie, !.got = 0, !.for = for]

\* router.replace: a later one takes the place of one under way.
Replace(s, page) == [s EXCEPT !.nav = page]

Becomes(t, s) == tab' = [tab EXCEPT ![t] = s]

\* The answer to the call of a tab reaches the browser.
AnswerReaches(t, op, phase) ==
    /\ tab[t].op = op
    /\ tab[t].phase = phase
    /\ cookie' = IF phase = "ok" THEN SetsCookie(Controller[op], tab[t].got) ELSE cookie

\* A message to the channel reaches every open tab.
Post(message) == inbox' = [t \in Tabs |-> Append(inbox[t], message)]

Unused == {r \in Rows : row[r] = "none"}
NextRow == CHOOSE r \in Unused : TRUE

Status(r) == IF r = 0 THEN "none" ELSE row[r]

-----------------------------------------------------------------------------
(* The API                                                                 *)

Reply(t, phase, issued) ==
    tab' = [tab EXCEPT ![t].phase = phase, ![t].got = issued]

\* The handlers that want the cookie look for it first.
ServeWithoutCookie(t) ==
    /\ Controller[tab[t].op].wants = "cookie"
    /\ tab[t].sent = 0
    /\ Reply(t, "refused", 0)
    /\ UNCHANGED row

\* login and verifyEmail: a session begins, or the input is refused.
ServeSignIn(t) ==
    /\ tab[t].op \in {"login", "verify"}
    /\ \/ /\ Unused # {}
          /\ row' = [row EXCEPT ![NextRow] = "live"]
          /\ Reply(t, "ok", NextRow)
       \/ Reply(t, "refused", 0) /\ UNCHANGED row

\* refresh rotates the row of the cookie.  Past the bound on rows the call fails.
ServeRefresh(t) ==
    /\ tab[t].op = "refresh"
    /\ tab[t].sent # 0
    /\ \/ /\ Status(tab[t].sent) # "live"
          /\ Reply(t, "refused", 0)
          /\ UNCHANGED row
       \/ /\ Status(tab[t].sent) = "live"
          /\ Unused # {}
          /\ row' = [row EXCEPT ![tab[t].sent] = "revoked", ![NextRow] = "live"]
          /\ Reply(t, "ok", NextRow)
       \/ /\ Status(tab[t].sent) = "live"
          /\ Unused = {}
          /\ Reply(t, "failed", 0)
          /\ UNCHANGED row

\* exchange verifies the refresh token and does not look its row up.
ServeExchange(t) ==
    /\ tab[t].op = "exchange"
    /\ tab[t].sent # 0
    /\ Reply(t, "ok", 0)
    /\ UNCHANGED row

\* logout refuses a token that has no row, and clears no cookie then.
ServeLogout(t) ==
    /\ tab[t].op \in {"logout", "giveUp"}
    /\ tab[t].sent # 0
    /\ \/ /\ Status(tab[t].sent) \in {"live", "revoked"}
          /\ row' = [row EXCEPT ![tab[t].sent] = "revoked"]
          /\ Reply(t, "ok", 0)
       \/ /\ Status(tab[t].sent) = "gone"
          /\ Reply(t, "refused", 0)
          /\ UNCHANGED row

Serve(t) ==
    /\ tab[t].phase = "sent"
    /\ Passes(Controller[tab[t].op])
    /\ \/ ServeWithoutCookie(t) \/ ServeSignIn(t)
       \/ ServeRefresh(t) \/ ServeExchange(t) \/ ServeLogout(t)
    /\ UNCHANGED <<shared, inbox, popup, counters>>

-----------------------------------------------------------------------------
(* Signing in                                                              *)

\* LoginForm sends the credentials, VerifyEmailClient the token of the mail.
Login(t) ==
    /\ tab[t].page = "login"
    /\ AtRest(t)
    /\ Becomes(t, Calling(tab[t], "login", "none"))
    /\ UNCHANGED <<shared, row, inbox, popup, counters>>

VerifyEmail(t) ==
    /\ tab[t].page = "verify-email"
    /\ tab[t].nav = "none"
    /\ AtRest(t)
    /\ Becomes(t, Calling(tab[t], "verify", "none"))
    /\ UNCHANGED <<shared, row, inbox, popup, counters>>

SignedIn(t) ==
    /\ \E op \in {"login", "verify"} : AnswerReaches(t, op, "ok")
    /\ token' = "valid"
    /\ Becomes(t, Replace(Ended(tab[t]), "dashboard"))
    /\ UNCHANGED <<row, inbox, popup, counters>>

\* The form stays and shows the error; the page of the mail gives up.
SignInRefused(t) ==
    /\ \/ /\ AnswerReaches(t, "login", "refused")
          /\ Becomes(t, Ended(tab[t]))
       \/ /\ AnswerReaches(t, "verify", "refused")
          /\ Becomes(t, Replace(Ended(tab[t]), "login"))
    /\ UNCHANGED <<token, row, inbox, popup, counters>>

\* Both forms offer Google, which asks the user in a window of its own.
LoginWithGoogle(t) ==
    /\ tab[t].page \in {"login", "register"}
    /\ popups < MaxPopups
    /\ cookie' = SetsCookie(loginWithGoogle, 0)
    /\ popup' = TRUE
    /\ popups' = popups + 1
    /\ UNCHANGED <<token, row, tab, inbox, opens, ends>>

\* The callback sets the cookie and loads the page that tells every tab.
GoogleSuccess ==
    /\ popup
    /\ Unused # {}
    /\ row' = [row EXCEPT ![NextRow] = "live"]
    /\ cookie' = SetsCookie(googleCallback, NextRow)
    /\ Post("GOOGLE_LOGIN_SUCCESS")
    /\ popup' = FALSE
    /\ UNCHANGED <<token, tab, counters>>

GoogleCancelled ==
    /\ popup
    /\ Post("GOOGLE_LOGIN_CANCELLED")
    /\ popup' = FALSE
    /\ UNCHANGED <<shared, row, tab, counters>>

-----------------------------------------------------------------------------
(* The forms that change no cookie: the answer moves the tab on.           *)

SubmitForm(t, page, success, handler) ==
    /\ tab[t].page = page
    /\ AtRest(t)
    /\ Passes(handler)
    /\ cookie' = SetsCookie(handler, 0)
    /\ Becomes(t, Replace(tab[t], success))
    /\ UNCHANGED <<token, inbox, popup, counters>>

RegisterForm(t) ==
    SubmitForm(t, "register", "register/success", registerUser) /\ UNCHANGED row

ForgotPasswordForm(t) ==
    /\ SubmitForm(t, "forgot-password", "forgot-password/success", forgotPassword)
    /\ UNCHANGED row

\* A form that leaves the tab where it is.
SubmitInPlace(t, page, handler) ==
    /\ tab[t].page = page
    /\ AtRest(t)
    /\ Passes(handler)
    /\ cookie' = SetsCookie(handler, 0)
    /\ UNCHANGED <<token, row, tab, inbox, popup, counters>>

\* The mail can be asked for again on the page that says it was sent.
ResendVerification(t) == SubmitInPlace(t, "register/success", resendVerificationEmail)

\* The page of a reset asks whether its token is valid before it shows the form.
ValidateResetToken(t) == SubmitInPlace(t, "reset-password", validateResetPassword)

\* The sessions of an account whose password is reset are deleted.
SessionsDeleted == row' = [r \in Rows |-> IF row[r] = "none" THEN "none" ELSE "gone"]

\* Those of one that is banned are revoked.
SessionsRevoked == row' = [r \in Rows |-> IF row[r] = "live" THEN "revoked" ELSE row[r]]

ResetPasswordForm(t) ==
    /\ SubmitForm(t, "reset-password", "reset-password/success", resetPassword)
    /\ SessionsDeleted

-----------------------------------------------------------------------------
(* Refreshing, on behalf of a query of the dashboard                       *)

\* A query is answered, or refused for its token and then refreshed for; that of
\* the sessions stands for all.
Query(t) ==
    /\ tab[t].page = "dashboard"
    /\ tab[t].due
    /\ AtRest(t)
    /\ LET made == [tab[t] EXCEPT !.due = FALSE]
       IN  Becomes(t, IF Passes(findAllSessions) THEN made ELSE Calling(made, "refresh", "query"))
    /\ UNCHANGED <<shared, row, inbox, popup, counters>>

\* The user opens another part of the dashboard.
Browse(t) ==
    /\ tab[t].page = "dashboard"
    /\ Becomes(t, [tab[t] EXCEPT !.due = TRUE])
    /\ UNCHANGED <<shared, row, inbox, popup, counters>>

\* What has waited is sent again with the new token.
Refreshed(t) ==
    /\ AnswerReaches(t, "refresh", "ok")
    /\ token' = "valid"
    /\ Becomes(t, IF tab[t].for = "exchange"
                  THEN [Calling(tab[t], "exchange", "none") EXCEPT !.sent = tab[t].got]
                  ELSE Ended(tab[t]))
    /\ UNCHANGED <<row, inbox, popup, counters>>

\* The tab leaves for the login page, and only then ends the session.
RefreshRefused(t) ==
    /\ AnswerReaches(t, "refresh", "refused")
    /\ Becomes(t, Replace(Calling(tab[t], "giveUp", tab[t].for), "login"))
    /\ UNCHANGED <<token, row, inbox, popup, counters>>

\* An error that is not a refusal ends the call and nothing else.
RefreshFailed(t) ==
    /\ AnswerReaches(t, "refresh", "failed")
    /\ Becomes(t, IF tab[t].for = "exchange" THEN Replace(Ended(tab[t]), "login")
                  ELSE Ended(tab[t]))
    /\ UNCHANGED <<token, row, inbox, popup, counters>>

\* Mutant of GaveUp: a query that failed is not tried again.
GaveUpForGood(t) ==
    /\ \E phase \in {"ok", "refused"} : AnswerReaches(t, "giveUp", phase)
    /\ token' = "none"
    /\ Becomes(t, IF tab[t].for = "exchange" THEN Replace(Ended(tab[t]), "login")
                  ELSE Ended(tab[t]))
    /\ UNCHANGED <<row, inbox, popup, counters>>

\* The token is forgotten whatever the API said.  A query has a second try, an
\* exchange leaves for the login page.
GaveUp(t) ==
    /\ \E phase \in {"ok", "refused"} : AnswerReaches(t, "giveUp", phase)
    /\ token' = "none"
    /\ Becomes(t, CASE tab[t].for = "query"    -> [Ended(tab[t]) EXCEPT !.phase = "retry"]
                    [] tab[t].for = "again"    -> Ended(tab[t])
                    [] tab[t].for = "exchange" -> Replace(Ended(tab[t]), "login"))
    /\ UNCHANGED <<row, inbox, popup, counters>>

\* The second try; it may be dropped once the page that asked is gone.
Retry(t) ==
    /\ tab[t].phase = "retry"
    /\ \/ Becomes(t, IF token = "valid" THEN Ended(tab[t])
                     ELSE Calling(tab[t], "refresh", "again"))
       \/ tab[t].page # "dashboard" /\ Becomes(t, Ended(tab[t]))
    /\ UNCHANGED <<shared, row, inbox, popup, counters>>

-----------------------------------------------------------------------------
(* Signing out                                                             *)

\* useLogout: the tab leaves first, then the API is asked.
StartLogout(t) ==
    /\ tab[t].page = "dashboard"
    /\ AtRest(t)
    /\ Becomes(t, Replace(Calling(tab[t], "logout", "none"), "login"))
    /\ UNCHANGED <<shared, inbox, popup, counters>>

\* The menu of the sidebar.
SidebarLogout(t) == StartLogout(t) /\ UNCHANGED row

\* The password or the status of the account is written, its sessions are not
\* touched; then the tab is signed out.
ChangePassword(t) == token = "valid" /\ StartLogout(t) /\ UNCHANGED row

DeleteAccount(t) == token = "valid" /\ StartLogout(t) /\ UNCHANGED row

\* The session the access token names is signed out from the list of sessions.
SignOutSession(t) ==
    /\ Passes(logoutSession)
    /\ StartLogout(t)
    /\ \E r \in Rows : row[r] = "live" /\ row' = [row EXCEPT ![r] = "revoked"]

\* All others are: this one follows.
SignOutAllOtherSessions(t) ==
    /\ Passes(logoutAllOtherSessions)
    /\ StartLogout(t)
    /\ \E r \in Rows :
          row' = [q \in Rows |-> IF q # r /\ row[q] = "live" THEN "revoked" ELSE row[q]]

LoggedOut(t) ==
    /\ AnswerReaches(t, "logout", "ok")
    /\ token' = "none"
    /\ Becomes(t, Ended(tab[t]))
    /\ Post("LOGOUT")
    /\ UNCHANGED <<row, popup, counters>>

\* Nobody is told, and the cookie stays, of a logout the API refuses.
LogoutRefused(t) ==
    /\ AnswerReaches(t, "logout", "refused")
    /\ token' = "none"
    /\ Becomes(t, Ended(tab[t]))
    /\ UNCHANGED <<row, inbox, popup, counters>>

-----------------------------------------------------------------------------
(* The channel, the router and the user                                    *)

\* Mutant of Hear: the message that somebody has signed out falls through.
HearLogins(t) ==
    /\ inbox[t] # <<>>
    /\ inbox' = [inbox EXCEPT ![t] = Tail(@)]
    /\ \/ Head(inbox[t]) = "LOGOUT" /\ UNCHANGED tab
       \/ /\ Head(inbox[t]) = "GOOGLE_LOGIN_CANCELLED"
          /\ Becomes(t, Replace(tab[t], "login"))
       \/ /\ Head(inbox[t]) = "GOOGLE_LOGIN_SUCCESS"
          /\ AtRest(t)
          /\ Becomes(t, Calling(tab[t], "exchange", "none"))
    /\ UNCHANGED <<shared, row, popup, counters>>

\* AuthProvider
Hear(t) ==
    /\ inbox[t] # <<>>
    /\ inbox' = [inbox EXCEPT ![t] = Tail(@)]
    /\ \/ /\ Head(inbox[t]) \in {"LOGOUT", "GOOGLE_LOGIN_CANCELLED"}
          /\ Becomes(t, Replace(tab[t], "login"))
       \/ /\ Head(inbox[t]) = "GOOGLE_LOGIN_SUCCESS"
          /\ AtRest(t)
          /\ Becomes(t, Calling(tab[t], "exchange", "none"))
    /\ UNCHANGED <<shared, row, popup, counters>>

\* Mutant of Exchanged: the token is stored, the page stays.
ExchangedInPlace(t) ==
    /\ AnswerReaches(t, "exchange", "ok")
    /\ token' = "valid"
    /\ Becomes(t, Ended(tab[t]))
    /\ UNCHANGED <<row, inbox, popup, counters>>

Exchanged(t) ==
    /\ AnswerReaches(t, "exchange", "ok")
    /\ token' = "valid"
    /\ Becomes(t, Replace(Ended(tab[t]), "dashboard"))
    /\ UNCHANGED <<row, inbox, popup, counters>>

\* The interceptor refreshes for an exchange as it does for any call.
ExchangeRefused(t) ==
    /\ AnswerReaches(t, "exchange", "refused")
    /\ Becomes(t, Calling(tab[t], "refresh", "exchange"))
    /\ UNCHANGED <<token, row, inbox, popup, counters>>

\* A navigation ends where the middleware sends it, with the cookie of then.
Arrive(t) ==
    /\ tab[t].nav # "none"
    /\ LET page == Middleware(tab[t].nav)
       IN  Becomes(t, [tab[t] EXCEPT
             !.nav = "none", !.page = page,
             !.due = page = "dashboard" /\ (tab[t].page # "dashboard" \/ @)])
    /\ UNCHANGED <<shared, row, inbox, popup, counters>>

Follow(t) ==
    /\ tab[t].nav = "none"
    /\ \E page \in Link(tab[t].page) : Becomes(t, Replace(tab[t], page))
    /\ UNCHANGED <<shared, row, inbox, popup, counters>>

\* An address typed in, or a page loaded again: what the tab waited for is lost,
\* an answer on its way with its cookie included.
Open(t) ==
    /\ opens < MaxOpens
    /\ \E page \in Pages : Becomes(t, Loaded(Middleware(page)))
    /\ inbox' = [inbox EXCEPT ![t] = <<>>]
    /\ opens' = opens + 1
    /\ UNCHANGED <<shared, row, popup, popups, ends>>

TokenExpires ==
    /\ token = "valid"
    /\ token' = "none"
    /\ UNCHANGED <<cookie, row, tab, inbox, popup, counters>>

\* Elsewhere the account is banned, or its password reset.
EndedElsewhere ==
    /\ ends < MaxEnds
    /\ SessionsRevoked \/ SessionsDeleted
    /\ ends' = ends + 1
    /\ UNCHANGED <<shared, tab, inbox, popup, opens, popups>>

-----------------------------------------------------------------------------
Init ==
    /\ cookie \in {0, 1}
    /\ token \in IF cookie = 0 THEN {"none"} ELSE {"none", "valid"}
    /\ row = [r \in Rows |-> IF r = cookie THEN "live" ELSE "none"]
    /\ tab = [t \in Tabs |-> Loaded(Middleware("dashboard"))]
    /\ inbox = [t \in Tabs |-> <<>>]
    /\ popup = FALSE
    /\ opens = 0
    /\ popups = 0
    /\ ends = 0

\* What the browser and the API do of themselves.
Receives(t) ==
    \/ SignedIn(t) \/ SignInRefused(t)
    \/ Refreshed(t) \/ RefreshRefused(t) \/ RefreshFailed(t) \/ GaveUp(t)
    \/ LoggedOut(t) \/ LogoutRefused(t)
    \/ Exchanged(t) \/ ExchangeRefused(t)

User(t) ==
    \/ Login(t) \/ VerifyEmail(t) \/ LoginWithGoogle(t)
    \/ RegisterForm(t) \/ ResendVerification(t) \/ ForgotPasswordForm(t)
    \/ ValidateResetToken(t) \/ ResetPasswordForm(t)
    \/ SidebarLogout(t) \/ ChangePassword(t) \/ DeleteAccount(t)
    \/ SignOutSession(t) \/ SignOutAllOtherSessions(t)
    \/ Browse(t) \/ Follow(t) \/ Open(t)

Next ==
    \/ \E t \in Tabs :
          \/ Serve(t) \/ Receives(t) \/ Query(t) \/ Retry(t) \/ Hear(t) \/ Arrive(t)
          \/ User(t)
    \/ GoogleSuccess \/ GoogleCancelled \/ TokenExpires \/ EndedElsewhere

\* Calls are answered, second tries made and pages reached.  Queries and messages
\* do not wait in the browser, as they do here, for the tab's other calls to end:
\* those cannot keep them waiting for ever.  A call is served, received or tried
\* again, only one of these at a time.
Fairness ==
    \A t \in Tabs :
        /\ WF_vars(Serve(t) \/ Receives(t) \/ Retry(t))
        /\ SF_vars(Query(t))
        /\ SF_vars(Hear(t))
        /\ WF_vars(Arrive(t))

Spec == Init /\ [][Next]_vars /\ Fairness

-----------------------------------------------------------------------------
(* Properties                                                              *)

\* The browser and its tabs are in the states above; a tab that waits for an
\* answer has sent a call, and the cookie names a row that was issued.
TabTypeOK ==
    /\ cookie \in 0 .. MaxRows
    /\ cookie # 0 => row[cookie] # "none"
    /\ token \in {"none", "valid"}
    /\ row \in [Rows -> {"none", "live", "revoked", "gone"}]
    /\ tab \in [Tabs -> Tab]
    /\ \A t \in Tabs : tab[t].phase \in {"idle", "retry"} <=> tab[t].op = "none"
    /\ inbox \in [Tabs -> Seq(Messages)]
    /\ popup \in BOOLEAN
    /\ opens \in 0 .. MaxOpens
    /\ popups \in 0 .. MaxPopups
    /\ ends \in 0 .. MaxEnds

\* A tab of the dashboard that asks for something after its session was revoked
\* ends at the login page, although the middleware sends its first attempt back:
\* unless the user has signed in again meanwhile, or the row itself is deleted.
EndedReachesLogin ==
    \A t \in Tabs :
        /\ tab[t].page = "dashboard" /\ tab[t].due
        /\ token # "valid" /\ Status(cookie) = "revoked"
        ~> \/ tab[t].page # "dashboard"
           \/ token = "valid"
           \/ Status(cookie) \in {"live", "gone"}

Expects(t, message) == \E i \in DOMAIN inbox[t] : inbox[t][i] = message

\* A logout that succeeds takes every tab away from the dashboard, even one that
\* comes back from Google or refreshes at that time, unless a cookie is set again:
\* somebody signs in, or a refresh ends late.
LogoutReachesEveryTab ==
    \A t \in Tabs :
        Expects(t, "LOGOUT") ~> tab[t].page # "dashboard" \/ cookie # 0

\* A sign-in with Google takes every tab to the dashboard, unless somebody signs
\* out meanwhile.
GoogleReachesEveryTab ==
    \A t \in Tabs :
        Expects(t, "GOOGLE_LOGIN_SUCCESS") ~> tab[t].page = "dashboard" \/ cookie = 0

\* What the page says after a password was reset, "you will need to sign in again":
\* a tab that asks for something once the sessions are deleted ends at the login
\* page, unless the user has already signed in.
SignInAgain ==
    \A t \in Tabs :
        /\ tab[t].page = "dashboard" /\ tab[t].due
        /\ token # "valid" /\ Status(cookie) = "gone"
        ~> tab[t].page # "dashboard" \/ token = "valid" \/ Status(cookie) = "live"
=============================================================================
