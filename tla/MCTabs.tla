------------------------------- MODULE MCTabs -------------------------------
(* Instances of BrowserTabs for TLC. *)
EXTENDS BrowserTabs, TLC

CONSTANTS t1, t2

\* A tab on one of the pages around the login page, or on its way to one.
Strolls(t) ==
    \/ tab[t].page \notin {"login", "dashboard"}
    \/ tab[t].nav \notin {"login", "dashboard", "none"}

Quiet(t) == tab[t].phase = "idle" /\ tab[t].nav = "none" /\ inbox[t] = <<>>

\* What keeps the instance small: the user signs in and out in t1, and looks at t2.
\* The forms and links that touch nothing the tabs share, the list of sessions and
\* the address bar are used, and a sign-in begun, while t2 waits for nothing;
\* another part of the dashboard is opened in a tab that does not, and t1 asks for
\* its data then.  The rest of what the API and the browser do of themselves is
\* never held back.
Small ==
    \/ \E t \in Tabs : Serve(t) \/ Receives(t) \/ Retry(t) \/ Hear(t) \/ Arrive(t)
    \/ /\ Strolls(t1)' /\ tab'[t1] # tab[t1]
          => Quiet(t2)' /\ tab'[t1].op \in {"none", "verify"} /\ inbox'[t1] = <<>>
       /\ ~ Strolls(t2)'
       /\ tab'[t2].op \notin {"login", "logout", "verify"}
       /\ tab'[t1].op \in {"login", "logout"} /\ tab[t1].op = "none" => Quiet(t1)
       /\ tab'[t1].op = "login" /\ tab[t1].op = "none" => Quiet(t2)
       /\ tab'[t1].for = "query" /\ tab[t1].for = "none" => Quiet(t2)
       /\ \/ row' # row /\ tab'[t1].op = "logout" /\ AtRest(t1)
          \/ opens' # opens
          \/ token # "none" /\ token' = "none" /\ tab' = tab
          \/ \E t \in Tabs : tab'[t] # tab[t] /\ tab'[t] = [tab[t] EXCEPT !.due = TRUE]
          => \A t \in Tabs : Quiet(t)
       /\ opens' + popups' + ends' <= 1

MCSpec == Init /\ [][Next /\ Small]_vars /\ Fairness
=============================================================================
