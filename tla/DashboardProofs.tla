--------------------------- MODULE DashboardProofs --------------------------
(* The invariant of Dashboard, for any number of tokens and requests.       *)
EXTENDS Dashboard, TLAPS

Calls == [Kinds \X (Tokens \cup {None}) -> Nat]

LEMMA TypedCalls == TypeOK => calls \in Calls
BY DEF TypeOK, Calls

\* Requests that begin and end.
LEMMA CallsBegin ==
  ASSUME NEW c \in Calls, NEW kind \in Kinds, NEW t \in Tokens \cup {None}, NEW n \in Nat
  PROVE  [c EXCEPT ![<<kind, t>>] = @ + n] \in Calls
BY DEF Calls

LEMMA CallsEnd ==
  ASSUME NEW c \in Calls, NEW kind \in Kinds, NEW t \in Tokens \cup {None}, c[<<kind, t>>] > 0
  PROVE  [c EXCEPT ![<<kind, t>>] = @ - 1] \in Calls
BY DEF Calls

\* A new address without a handled event: the events stay a number, and are some
\* if the address is another.
LEMMA Assigned ==
  ASSUME TypeOK, NEW h \in Hashes, Assign(h, 0)
  PROVE  /\ hash' = h /\ events' \in Nat
         /\ events' = 0 => events = 0 /\ hash' = hash
BY DEF TypeOK, Assign

\* Steps that leave address, page and token alone.
LEMMA FitsKept ==
  ASSUME FitsAtRest, UNCHANGED <<hash, events, page, token>>
  PROVE  FitsAtRest'
BY DEF FitsAtRest, Fits

-----------------------------------------------------------------------------
\* The user.

LEMMA UserKeeps ==
  ASSUME DashboardInv, User
  PROVE  DashboardInv'
<1>a. TypeOK /\ FitsAtRest BY DEF DashboardInv
<1>b. calls \in Calls /\ token \in Tokens \cup {None} BY <1>a, TypedCalls DEF TypeOK
<1>c. Clicks => clicks' \in 0 .. MaxClicks BY <1>a, DashboardAssumption DEF Clicks, TypeOK
<1>1. ASSUME NEW h \in Hashes, Navigate(h) PROVE DashboardInv'
  <2>1. hash' = h /\ events' \in Nat /\ (events' = 0 => events = 0 /\ hash' = hash)
    BY <1>1, <1>a, Assigned DEF Navigate
  <2>2. TypeOK' BY <1>1, <1>a, <1>c, <2>1 DEF Navigate, TypeOK
  <2>3. FitsAtRest' BY <1>1, <1>a, <2>1 DEF Navigate, FitsAtRest, Fits
  <2> QED BY <2>2, <2>3 DEF DashboardInv
<1>2. ASSUME NEW h \in Hashes, Reload(h) PROVE DashboardInv'
  <2>1. TypeOK' BY <1>2, <1>a, <1>c DEF Reload, TypeOK
  <2>2. FitsAtRest' BY <1>2 DEF Reload, FitsAtRest
  <2> QED BY <2>1, <2>2 DEF DashboardInv
<1>3. CASE SignOut
  <2>1. "login" \in Hashes BY DEF Hashes, Routes, Public
  <2>2. hash' = "login" /\ events' \in Nat /\ (events' = 0 => events = 0 /\ hash' = hash)
    BY <1>3, <1>a, <2>1, Assigned DEF SignOut
  <2>3. TypeOK' BY <1>3, <1>a, <1>c, <2>1, <2>2 DEF SignOut, TypeOK
  <2>4. FitsAtRest' BY <1>3, <1>a, <2>2 DEF SignOut, FitsAtRest, Fits, Public, Private
  <2> QED BY <2>3, <2>4 DEF DashboardInv
<1>4. ASSUME NEW kind \in Kinds, SubmitForm(kind) \/ Press(kind) PROVE DashboardInv'
  <2>1. /\ calls' = [calls EXCEPT ![<<kind, token>>] = @ + 1] /\ clicks' \in 0 .. MaxClicks
        /\ UNCHANGED <<hash, events, page, dialog, token, greeted, issued, accepted>>
    BY <1>4, <1>c DEF SubmitForm, Press, Fetches
  <2>2. calls' \in Calls BY <1>b, <2>1, CallsBegin
  <2>3. TypeOK' BY <1>a, <2>1, <2>2 DEF TypeOK, Calls
  <2> QED BY <1>a, <2>1, <2>3, FitsKept DEF DashboardInv
<1> QED BY <1>1, <1>2, <1>3, <1>4 DEF User

-----------------------------------------------------------------------------
\* The router.

LEMMA ResolveKeeps ==
  ASSUME DashboardInv, Resolve
  PROVE  DashboardInv'
<1>a. TypeOK /\ FitsAtRest BY DEF DashboardInv
<1>b. calls \in Calls /\ token \in Tokens \cup {None} /\ events \in Nat /\ events > 0 /\ hash \in Hashes
  BY <1>a, TypedCalls DEF TypeOK, Resolve
<1>c. UNCHANGED <<token, greeted, issued, accepted, clicks>> BY DEF Resolve
<1>1. ASSUME NEW h \in Hashes, h # hash, Redirect(h) PROVE DashboardInv'
  <2>1. hash' = h /\ events' = events /\ page' = page /\ dialog' = dialog /\ calls' = calls
    BY <1>1, <1>b DEF Redirect, Assign
  <2>2. TypeOK' BY <1>a, <1>c, <2>1 DEF TypeOK
  <2>3. FitsAtRest' BY <1>b, <2>1 DEF FitsAtRest
  <2> QED BY <2>2, <2>3 DEF DashboardInv
<1>2. CASE hash \notin Routes
  BY <1>1, <1>2 DEF Resolve, Hashes, Routes, Public, Private
<1>3. CASE hash \in Private /\ token = None
  BY <1>1, <1>3 DEF Resolve, Hashes, Routes, Public, Private
<1>4. CASE hash \in Public /\ token # None
  BY <1>1, <1>4 DEF Resolve, Hashes, Routes, Public, Private
<1>5. CASE hash \in Routes /\ (hash \in Public <=> token = None)
  <2>1. Mount BY <1>5 DEF Resolve, Routes, Public, Private
  <2>2. hash' = hash /\ page' = hash /\ events' = events - 1 BY <2>1 DEF Mount
  <2>3. Asks(hash).view \in Nat /\ Asks(hash).me \in Nat BY DEF Asks
  <2>4. calls' \in Calls
    <3> DEFINE c == [calls EXCEPT ![<<"view", token>>] = @ + Asks(hash).view]
    <3>1. "view" \in Kinds /\ "me" \in Kinds BY DEF Kinds
    <3>2. c \in Calls BY <1>b, <2>3, <3>1, CallsBegin
    <3>3. calls' = [c EXCEPT ![<<"me", token>>] = @ + Asks(hash).me]
      BY <2>1, <1>b, <3>1 DEF Mount, Calls
    <3> HIDE DEF c
    <3> QED BY <1>b, <2>3, <3>1, <3>2, <3>3, CallsBegin
  <2>5. dialog' \in BOOLEAN BY <2>1, <1>a DEF Mount, TypeOK
  <2>6. TypeOK' BY <1>a, <1>b, <1>c, <1>5, <2>2, <2>4, <2>5 DEF TypeOK, Calls
  <2>7. FitsAtRest' BY <1>5, <1>c, <2>2 DEF FitsAtRest, Fits
  <2> QED BY <2>6, <2>7 DEF DashboardInv
<1> QED BY <1>2, <1>3, <1>4, <1>5 DEF Resolve, Routes

-----------------------------------------------------------------------------
\* Answers.

LEMMA AnswerKeeps ==
  ASSUME DashboardInv, Answer
  PROVE  DashboardInv'
<1>a. TypeOK /\ FitsAtRest BY DEF DashboardInv
<1>b. calls \in Calls /\ token \in Tokens \cup {None} BY <1>a, TypedCalls DEF TypeOK
<1>c. ASSUME NEW kind \in Kinds, NEW t \in Tokens \cup {None}, Answered(kind, t) PROVE calls' \in Calls
  BY <1>b, <1>c, CallsEnd DEF Answered
<1>d. "login" \in Hashes /\ "marketplace" \in Hashes /\ "instances" \in Hashes
  BY DEF Hashes, Routes, Public, Private
<1>1. ASSUME NEW kind \in Kinds, NEW t \in Tokens \cup {None}, Unauthorized(kind, t) PROVE DashboardInv'
  <2>1. hash' = "login" /\ events' \in Nat /\ (events' = 0 => events = 0 /\ hash' = hash)
    BY <1>1, <1>a, <1>d, Assigned DEF Unauthorized
  <2>2. calls' \in Calls BY <1>1, <1>c DEF Unauthorized
  <2>3. TypeOK' BY <1>1, <1>a, <1>d, <2>1, <2>2 DEF Unauthorized, TypeOK, Calls
  <2>4. FitsAtRest' BY <1>1, <1>a, <2>1 DEF Unauthorized, FitsAtRest, Fits, Public
  <2> QED BY <2>3, <2>4 DEF DashboardInv
<1>2. ASSUME NEW kind \in Kinds, NEW t \in Tokens \cup {None}, Succeeds(kind, t) PROVE DashboardInv'
  <2>a. UNCHANGED <<page, dialog, token, issued, accepted, clicks>> /\ greeted' = (greeted \/ kind = "me")
        /\ calls[<<kind, t>>] > 0
    BY <1>2 DEF Succeeds
  <2>1. CASE /\ kind \in DOMAIN Then
             /\ calls' = [[calls EXCEPT ![<<kind, t>>] = @ - 1] EXCEPT ![<<Then[kind], token>>] = @ + 1]
             /\ UNCHANGED <<hash, events>>
    <3>1. Then[kind] \in Kinds BY <2>1 DEF Then, Kinds, Open
    <3> DEFINE c == [calls EXCEPT ![<<kind, t>>] = @ - 1]
    <3>2. c \in Calls BY <1>b, <2>a, CallsEnd
    <3>3. calls' = [c EXCEPT ![<<Then[kind], token>>] = @ + 1] BY <2>1
    <3> HIDE DEF c
    <3>4. calls' \in Calls BY <1>b, <3>1, <3>2, <3>3, CallsBegin
    <3>5. TypeOK' BY <1>a, <2>1, <2>a, <3>4 DEF TypeOK, Calls
    <3> QED BY <1>a, <2>1, <2>a, <3>5, FitsKept DEF DashboardInv
  <2>2. CASE /\ kind = "rent" /\ Answered(kind, t) /\ Assign("instances", 0)
    <3>1. hash' = "instances" /\ events' \in Nat /\ (events' = 0 => events = 0 /\ hash' = hash)
      BY <2>2, <1>a, <1>d, Assigned
    <3>2. calls' \in Calls BY <2>2, <1>c
    <3>3. TypeOK' BY <1>a, <1>d, <2>a, <3>1, <3>2 DEF TypeOK, Calls
    <3>4. FitsAtRest' BY <1>a, <2>a, <3>1 DEF FitsAtRest, Fits
    <3> QED BY <3>3, <3>4 DEF DashboardInv
  <2>3. CASE Answered(kind, t) /\ UNCHANGED <<hash, events>>
    <3>1. calls' \in Calls BY <2>3, <1>c
    <3>2. TypeOK' BY <1>a, <2>3, <2>a, <3>1 DEF TypeOK, Calls
    <3> QED BY <1>a, <2>3, <2>a, <3>2, FitsKept DEF DashboardInv
  <2> QED BY <1>2, <2>1, <2>2, <2>3 DEF Succeeds
<1>3. ASSUME NEW kind \in Kinds, NEW t \in Tokens \cup {None}, Fails(kind, t) PROVE DashboardInv'
  <2>1. calls' \in Calls BY <1>3, <1>c DEF Fails
  <2>2. TypeOK' BY <1>3, <1>a, <2>1 DEF Fails, TypeOK, Calls
  <2> QED BY <1>3, <1>a, <2>2, FitsKept DEF Fails, DashboardInv
<1>4. ASSUME NEW t \in Tokens \cup {None}, NEW new \in Tokens, SignedIn(t, new) PROVE DashboardInv'
  <2>1. hash' = "marketplace" /\ events' \in Nat /\ (events' = 0 => events = 0 /\ hash' = hash)
    BY <1>4, <1>a, <1>d, Assigned DEF SignedIn
  <2>2. "login" \in Kinds BY DEF Kinds, Open
  <2>3. calls' \in Calls BY <1>4, <1>c, <2>2 DEF SignedIn
  <2>4. TypeOK' BY <1>4, <1>a, <1>d, <2>1, <2>3 DEF SignedIn, TypeOK, Calls
  <2>5. new # None BY DashboardAssumption
  <2>6. FitsAtRest' BY <1>4, <1>a, <2>1, <2>5 DEF SignedIn, FitsAtRest, Fits, Public
  <2> QED BY <2>4, <2>6 DEF DashboardInv
<1> QED BY <1>1, <1>2, <1>3, <1>4 DEF Answer

-----------------------------------------------------------------------------
\* The theorems.

LEMMA InitHolds == Init => DashboardInv
<1> SUFFICES ASSUME Init PROVE DashboardInv OBVIOUS
<1>1. TypeOK
  <2>1. events \in Nat /\ page \in Routes \cup {"blank"} /\ dialog \in BOOLEAN /\ greeted \in BOOLEAN BY DEF Init
  <2>2. calls \in [Kinds \X (Tokens \cup {None}) -> Nat]
    <3> DEFINE Keys == Kinds \X (Tokens \cup {None})
    <3>1. calls = [c \in Keys |-> 0] BY DEF Init
    <3> HIDE DEF Keys
    <3>2. calls \in [Keys -> Nat] BY <3>1
    <3> QED BY <3>2 DEF Keys
  <2>3. token \in Tokens \cup {None} /\ issued \subseteq Tokens /\ accepted \subseteq issued BY DEF Init
  <2>4. clicks \in 0 .. MaxClicks BY DashboardAssumption DEF Init
  <2> QED BY <2>1, <2>2, <2>3, <2>4 DEF Init, TypeOK
<1>2. FitsAtRest BY DEF Init, FitsAtRest
<1> QED BY <1>1, <1>2 DEF DashboardInv

LEMMA StepHolds == DashboardInv /\ [Next]_vars => DashboardInv'
<1> SUFFICES ASSUME DashboardInv, [Next]_vars PROVE DashboardInv' OBVIOUS
<1>1. CASE User BY <1>1, UserKeeps
<1>2. CASE Resolve BY <1>2, ResolveKeeps
<1>3. CASE Answer BY <1>3, AnswerKeeps
<1>4. ASSUME NEW t \in Tokens, Expire(t) PROVE DashboardInv'
  BY <1>4, FitsKept DEF Expire, DashboardInv, TypeOK
<1>5. CASE UNCHANGED vars BY <1>5, FitsKept DEF vars, DashboardInv, TypeOK
<1> QED BY <1>1, <1>2, <1>3, <1>4, <1>5 DEF Next

\* resolve, request: a tab with no event under way is on the page of its address,
\* and that is one for signing in exactly when there is no token.
THEOREM DashboardInvariant == Spec => []DashboardInv
BY InitHolds, StepHolds, PTL DEF Spec

\* An address that is mounted with the token there is.
Suits(h) == h \in Routes /\ (h \in Public <=> token = None)

\* The calls of resolve() that are to come: two for an event, less if there is no
\* need to redirect.
Turns == 2 * events + IF Suits(hash) THEN 0 ELSE 1

\* resolve: redirects do not go round in a circle.  A call mounts the page of the
\* address, or its redirect goes where no other redirect follows unless the token
\* changes, and so an event costs at most two calls, however many are waiting.
THEOREM RedirectTheorem ==
  Spec => [][Resolve => /\ IF Suits(hash) THEN page' = hash ELSE Suits(hash')
                        /\ Turns \in Nat /\ Turns' \in Nat /\ Turns' < Turns]_vars
<1>1. ASSUME DashboardInv, Resolve
      PROVE  /\ IF Suits(hash) THEN page' = hash ELSE Suits(hash')
             /\ Turns \in Nat /\ Turns' \in Nat /\ Turns' < Turns
  <2>a. events \in Nat /\ events > 0 /\ token' = token BY <1>1 DEF DashboardInv, TypeOK, Resolve
  <2>1. CASE Suits(hash)
    <3>1. Mount BY <1>1, <2>1 DEF Resolve, Suits, Routes, Public, Private
    <3>2. hash' = hash /\ page' = hash /\ events' = events - 1 BY <3>1 DEF Mount
    <3> QED BY <2>1, <2>a, <3>2 DEF Turns, Suits
  <2>2. CASE ~ Suits(hash)
    <3>1. PICK h \in {"marketplace", "login"} : Redirect(h) /\ Suits(h) /\ h # hash
      BY <1>1, <2>2 DEF Resolve, Suits, Routes, Public, Private
    <3>2. hash' = h /\ events' = events BY <2>a, <3>1 DEF Redirect, Assign
    <3>3. Suits(hash') /\ Suits(hash)' BY <2>a, <3>1, <3>2 DEF Suits
    <3> QED BY <2>2, <2>a, <3>2, <3>3 DEF Turns
  <2> QED BY <2>1, <2>2
<1>2. DashboardInv => (Resolve => /\ IF Suits(hash) THEN page' = hash ELSE Suits(hash')
                                  /\ Turns \in Nat /\ Turns' \in Nat /\ Turns' < Turns)
  BY <1>1
<1> QED BY <1>2, DashboardInvariant, PTL

=============================================================================
