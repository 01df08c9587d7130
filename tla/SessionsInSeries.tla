-------------------------- MODULE SessionsInSeries --------------------------
(***************************************************************************)
(* Sessions with two history variables.  They tell the behaviours apart in *)
(* which requests never overlap, and in which nobody logs in to a          *)
(* suspended account through Google: there, more holds.                    *)
(***************************************************************************)
EXTENDS Sessions

VARIABLES
    overlapped,  \* two requests have been in flight at once
    viaGoogle    \* a Google login has found the account suspended or deleted

seriesVars == <<sessionVars, overlapped, viaGoogle>>

InFlight == {r \in SessionRequests : ~ At(r, "idle")}

SeriesInit == SessionInit /\ overlapped = FALSE /\ viaGoogle = FALSE

Passes == \/ \E s \in SessionIds : SessionExpires(s)
          \/ \E t \in ResetIds : ResetTokenExpires(t)

\* A request begins, or one of a single step runs, while another is in flight.
Overlaps ==
    \/ \E r, q \in SessionRequests : r # q /\ {r, q} \subseteq InFlight'
    \/ InFlight # {} /\ UNCHANGED pending /\ ~ Passes

SeriesNext ==
    /\ SessionNext
    /\ overlapped' = (overlapped \/ Overlaps)
    /\ viaGoogle' = (viaGoogle \/ (status # "ACTIVE" /\ \E r \in SessionRequests :
                                        GoogleLoginRead(r)))

SeriesSpec == SeriesInit /\ [][SeriesNext]_seriesVars

-----------------------------------------------------------------------------
(* Properties of requests that do not overlap                              *)

\* Without overlap, a password reset leaves only sessions of logins that came
\* after it, and a suspended account has none that can be refreshed unless its
\* status was passed over by a Google login.
SerialSessionsEnd ==
    ~ overlapped => ResetEndsSessions /\ (~ viaGoogle => BannedIsLoggedOut)

\* A session that has been neither revoked nor deleted is open.
SessionIs(s) == IF ~ Inserted(s) THEN "none"
                ELSE IF session[s] \in {"live", "expired"} THEN "open" ELSE "closed"

\* So is a token, and a reset that has deleted its token spends it when it commits.
BeingSpent(t) == \E r \in SessionRequests : At(r, "reset:commit") /\ pending[r].token = t
TokenIs(t)    == IF reset[t] = "unused" THEN "none"
                 ELSE IF HasReset(t) \/ BeingSpent(t) THEN "open" ELSE "closed"

\* What the endpoints promise of these rows to requests that do not overlap.
Contract ==
    INSTANCE SessionContract WITH
        Sessions <- SessionIds,
        Tokens   <- ResetIds,
        sessions <- [s \in SessionIds |-> SessionIs(s)],
        login    <- [s \in SessionIds |-> origin[s].root],
        tokens   <- [t \in ResetIds |-> TokenIs(t)],
        password <- resets

\* Without overlap, and until Google passes the status over, every handler does what
\* its endpoint promises in one step.  No session is refreshed once it is revoked.
SerialSessionContract ==
    /\ Contract!ContractInit
    /\ [][~ overlapped' /\ ~ viaGoogle' => Contract!ContractNext]_(Contract!contractVars)
=============================================================================
