----------------------------- MODULE Dashboard -----------------------------
(***************************************************************************)
(* A tab of the dashboard, web/js: the address in window.location.hash,    *)
(* the router that follows it, the token in localStorage, and the requests *)
(* under way, whose answers come in any order and may find the user signed *)
(* out, signed in again, or on another page.                               *)
(*                                                                         *)
(* Of the views there is what they ask the API for with the token; what    *)
(* they show is left out, and so are the requests that need no user.       *)
(***************************************************************************)
EXTENDS Naturals

CONSTANTS
    Tokens,     \* access tokens
    None,
    MaxClicks   \* bound on what the user does

ASSUME DashboardAssumption == None \notin Tokens /\ MaxClicks \in Nat

VARIABLES
    hash,       \* window.location.hash
    events,     \* hashchange events that are to be handled
    page,       \* the view that is mounted
    dialog,     \* a dialog of the marketplace may be open: it stays when the page changes
    token,      \* agenton_token in localStorage
    greeted,    \* nav-user has been loaded
    calls,      \* number of requests under way, by what they are for and their token
    issued,     \* tokens that the server has issued
    accepted,   \* those that it still accepts
    clicks      \* what the user may still do

vars == <<hash, events, page, dialog, token, greeted, calls, issued, accepted, clicks>>

\* Marketplace and the other views that Router.register names.
Public  == {"login", "register"}
Private == {"marketplace", "instances", "wallet", "platforms"}
Routes  == Public \cup Private
Hashes  == Routes \cup {"elsewhere"}

\* The API's functions by what the caller does next: renting takes three calls,
\* registering two, and after an action the view asks again.
Then == [order |-> "pay", pay |-> "rent", action |-> "view", register |-> "login"]

Open  == {"register", "login"}
Kinds == Open \cup {"order", "pay", "rent", "action", "view", "me"}

\* window.location.hash = h: an event if that is a change.
Assign(h, handled) ==
    /\ hash' = h
    /\ events' = (events - handled) + IF h = hash THEN 0 ELSE 1

Clicks == clicks > 0 /\ clicks' = clicks - 1

\* fetch, n times: with the token there is, if any.
Fetches(kind, n) == [calls EXCEPT ![<<kind, token>>] = @ + n]

-----------------------------------------------------------------------------
\* The user.

\* A link, the back button or the address bar.
Navigate(h) ==
    /\ Clicks
    /\ Assign(h, 0)
    /\ UNCHANGED <<page, dialog, token, greeted, calls, issued, accepted>>

\* The page is loaded again, also on the way back from Stripe, X or Discord.
\* Router.init mounts a page without an event.
Reload(h) ==
    /\ Clicks
    /\ hash' = h
    /\ events' = 1
    /\ page' = "blank"
    /\ dialog' = FALSE
    /\ greeted' = FALSE
    /\ calls' = [c \in Kinds \X (Tokens \cup {None}) |-> 0]
    /\ UNCHANGED <<token, issued, accepted>>

SubmitForm(kind) ==
    /\ page \in Public
    /\ kind = page
    /\ Clicks
    /\ calls' = Fetches(kind, 1)
    /\ UNCHANGED <<hash, events, page, dialog, token, greeted, issued, accepted>>

\* logout-btn.
SignOut ==
    /\ page \in Private
    /\ Clicks
    /\ token' = None
    /\ Assign("login", 0)
    /\ UNCHANGED <<page, dialog, greeted, calls, issued, accepted>>

\* rent-btn, publish-submit and the buttons for everything else.
Press(kind) ==
    /\ page \in Private \/ dialog
    /\ kind \in {"order", "action"}
    /\ Clicks
    /\ calls' = Fetches(kind, 1)
    /\ UNCHANGED <<hash, events, page, dialog, token, greeted, issued, accepted>>

-----------------------------------------------------------------------------
\* The router.

\* What a view asks for with the token as it is mounted.
Asks(view) == [view |-> IF view = "wallet" THEN 2 ELSE IF view \in {"instances", "platforms"} THEN 1 ELSE 0,
               me |-> IF view \in Private /\ ~ greeted THEN 1 ELSE 0]

Redirect(h) == Assign(h, 1) /\ UNCHANGED <<page, dialog, calls>>

Mount ==
    /\ page' = hash
    /\ dialog' = (dialog \/ hash = "marketplace")
    /\ hash' = hash
    /\ events' = events - 1
    /\ calls' = [calls EXCEPT ![<<"view", token>>] = @ + Asks(hash).view, ![<<"me", token>>] = @ + Asks(hash).me]

\* resolve() up to its await, for a hashchange event or at the start.
Resolve ==
    /\ events > 0
    /\ IF hash \notin Routes THEN Redirect(IF token # None THEN "marketplace" ELSE "login")
       ELSE IF hash \in Private /\ token = None THEN Redirect("login")
       ELSE IF hash \in Public /\ token # None THEN Redirect("marketplace")
       ELSE Mount
    /\ UNCHANGED <<token, greeted, issued, accepted, clicks>>

-----------------------------------------------------------------------------
\* Answers.

Answered(kind, t) == calls[<<kind, t>>] > 0 /\ calls' = [calls EXCEPT ![<<kind, t>>] = @ - 1]

\* Mutant: the token stays.
UnauthorizedKeepsToken(kind, t) ==
    /\ kind \notin Open
    /\ t \notin accepted
    /\ Answered(kind, t)
    /\ Assign("login", 0)
    /\ UNCHANGED <<page, dialog, token, greeted, issued, accepted, clicks>>

\* Mutant: the page stays.
UnauthorizedStays(kind, t) ==
    /\ kind \notin Open
    /\ t \notin accepted
    /\ Answered(kind, t)
    /\ token' = None
    /\ UNCHANGED <<hash, events, page, dialog, greeted, issued, accepted, clicks>>

\* 401 takes the token away, whichever there is by now.
Unauthorized(kind, t) ==
    /\ kind \notin Open
    /\ t \notin accepted
    /\ Answered(kind, t)
    /\ token' = None
    /\ Assign("login", 0)
    /\ UNCHANGED <<page, dialog, greeted, issued, accepted, clicks>>

\* The next call takes the token of that moment.  Who has rented an agent goes to
\* My Instances.
Succeeds(kind, t) ==
    /\ kind # "login"
    /\ kind \in Open \/ t \in accepted
    /\ calls[<<kind, t>>] > 0
    /\ greeted' = (greeted \/ kind = "me")
    /\ \/ /\ kind \in DOMAIN Then
          /\ calls' = [[calls EXCEPT ![<<kind, t>>] = @ - 1] EXCEPT ![<<Then[kind], token>>] = @ + 1]
          /\ UNCHANGED <<hash, events>>
       \/ /\ kind \in {"action", "view", "me", "rent"}
          /\ Answered(kind, t)
          /\ IF kind = "rent" THEN Assign("instances", 0) ELSE UNCHANGED <<hash, events>>
    /\ UNCHANGED <<page, dialog, token, issued, accepted, clicks>>

\* login(): a wrong password is no reason to clear the token.
SignedIn(t, new) ==
    /\ new \notin issued
    /\ Answered("login", t)
    /\ token' = new
    /\ issued' = issued \cup {new}
    /\ accepted' = accepted \cup {new}
    /\ Assign("marketplace", 0)
    /\ UNCHANGED <<page, dialog, greeted, clicks>>

\* Any other error, or no answer at all: a toast.
Fails(kind, t) ==
    /\ Answered(kind, t)
    /\ UNCHANGED <<hash, events, page, dialog, token, greeted, issued, accepted, clicks>>

\* Tokens expire, and are void when the user is deactivated.
Expire(t) ==
    /\ t \in accepted
    /\ accepted' = accepted \ {t}
    /\ UNCHANGED <<hash, events, page, dialog, token, greeted, calls, issued, clicks>>

-----------------------------------------------------------------------------

Init ==
    /\ hash \in Hashes
    /\ events = 1
    /\ page = "blank"
    /\ dialog = FALSE
    /\ token \in Tokens \cup {None}
    /\ greeted = FALSE
    /\ calls = [c \in Kinds \X (Tokens \cup {None}) |-> 0]
    /\ issued = {token} \ {None}
    /\ accepted \in SUBSET issued
    /\ clicks = MaxClicks

User == \/ (\E h \in Hashes : Navigate(h) \/ Reload(h))
        \/ SignOut
        \/ \E kind \in Kinds : SubmitForm(kind) \/ Press(kind)

Answer ==
    \E t \in Tokens \cup {None} :
        \/ \E kind \in Kinds : Unauthorized(kind, t) \/ Succeeds(kind, t) \/ Fails(kind, t)
        \/ \E new \in Tokens : SignedIn(t, new)

Next == User \/ Resolve \/ Answer \/ \E t \in Tokens : Expire(t)

Spec == Init /\ [][Next]_vars

\* Events are handled, and requests come to an end.  Nothing is asked of the user.
Fairness == WF_vars(Resolve) /\ WF_vars(Answer)

FairSpec == Spec /\ Fairness

-----------------------------------------------------------------------------
\* Properties.

\* The type invariant.
TypeOK ==
    /\ hash \in Hashes
    /\ events \in Nat
    /\ page \in Routes \cup {"blank"}
    /\ dialog \in BOOLEAN
    /\ token \in Tokens \cup {None}
    /\ greeted \in BOOLEAN
    /\ calls \in [Kinds \X (Tokens \cup {None}) -> Nat]
    /\ issued \subseteq Tokens
    /\ accepted \subseteq issued
    /\ clicks \in 0 .. MaxClicks

\* The tab is at rest on the page of its address, which is one for users with a
\* token if there is one, and one for signing in if there is none.
Fits == page = hash /\ (page \in Public <=> token = None)

\* resolve, request, setToken: whatever answers come in whatever order, there is
\* an event under way or the page fits.
FitsAtRest == events = 0 => Fits

\* The inductive invariant (DashboardProofs).
DashboardInv == TypeOK /\ FitsAtRest

\* resolve and the 401 of request send the user to and fro, and yet come to an
\* end: a tab that is left alone is at rest some time, and stays so.
ComesToRest == <>[] (events = 0 /\ Fits)

=============================================================================
