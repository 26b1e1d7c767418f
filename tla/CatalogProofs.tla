--------------------------- MODULE CatalogProofs ---------------------------
(* The invariant of Catalog, for any number of requests, slugs and pages. *)
EXTENDS Catalog, TLAPS

\* The parts of the invariant, by the variables they are about.
Asked  == RequestInv /\ CreatedOwns /\ RegistryInv
Seeded == SeedInv /\ SeedAllOrNothing
Paged  == PageInv /\ PagesComplete

LEMMA Parts == CatalogInv <=> TypeOK /\ Asked /\ Seeded /\ PlaceInv /\ Paged
BY DEF CatalogInv, Asked, Seeded, Paged

LEMMA PartsNext == CatalogInv' <=> TypeOK' /\ Asked' /\ Seeded' /\ PlaceInv' /\ Paged'
BY DEF CatalogInv, Asked, Seeded, Paged

-----------------------------------------------------------------------------
\* What a step leaves alone keeps the part of the invariant that is about it.

LEMMA SeededKept ==
  ASSUME Seeded, UNCHANGED <<tableVars, seedVars>>
  PROVE  Seeded'
BY DEF Seeded, SeedInv, SeedAllOrNothing, tableVars, seedVars

LEMMA PlacesKept ==
  ASSUME PlaceInv, UNCHANGED <<tableVars, seedVars>>
  PROVE  PlaceInv'
BY DEF PlaceInv, tableVars, seedVars

LEMMA PagedKept ==
  ASSUME Paged, UNCHANGED <<tableVars, browseVars>>
  PROVE  Paged'
BY DEF Paged, PageInv, PagesComplete, Reach, tableVars, browseVars

LEMMA AskedKept ==
  ASSUME Asked, UNCHANGED <<appVars, req, owner>>
  PROVE  Asked'
BY DEF Asked, RequestInv, CreatedOwns, RegistryInv, appVars

-----------------------------------------------------------------------------
\* Requests.

\* The record x is one that an unanswered request may come to have.
Fit(x) ==
    /\ x \in RequestRecords
    /\ x.pc # "new"
    /\ x.pc \in {"check", "set", "load", "lookup"} => x.op \in {"publish", "execute"}
    /\ x.op = "publish" => x.key \in Slugs
    /\ x.pc \in {"select", "insert"} => x.key \in Emails \/ (x.key \in Slugs /\ x.type \in Types)
    /\ x.answer # "created"
    /\ x.answer # "none" <=> x.pc = "done"

\* A request moves on to a fitting record, and the table stays as it is.
LEMMA MovesOn ==
  ASSUME TypeOK, RequestInv, CreatedOwns, NEW r \in Requests, req[r].pc # "done",
         NEW x, Fit(x), req' = [req EXCEPT ![r] = x], owner' = owner
  PROVE  /\ req' \in [Requests -> RequestRecords]
         /\ req'[r] = x
         /\ \A q \in Requests : q # r => req'[q] = req[q]
         /\ RequestInv' /\ CreatedOwns'
<1>1. req'[r] = x /\ \A q \in Requests : q # r => req'[q] = req[q] BY DEF TypeOK
<1>2. req' \in [Requests -> RequestRecords] BY DEF TypeOK, Fit
<1>3. req[r].answer # "created" BY DEF RequestInv
<1>4. \A k \in Keys : owner[k] # r BY <1>3 DEF RequestInv
<1>5. RequestInv' BY <1>1, <1>4 DEF RequestInv, Fit
<1>6. CreatedOwns'
  <2> SUFFICES ASSUME NEW q \in Requests
               PROVE  /\ req'[q].answer = "created" => owner[req'[q].key] = q
                      /\ \A s \in Slugs : owner[s] = q => req'[q].key = s /\ req'[q].type \in Types
    BY DEF CreatedOwns
  <2>1. CASE q = r BY <1>1, <1>4, <2>1 DEF Fit, Keys
  <2>2. CASE q # r BY <1>1, <2>2 DEF CreatedOwns
  <2> QED BY <2>1, <2>2
<1> QED BY <1>1, <1>2, <1>5, <1>6

LEMMA GoesTo ==
  ASSUME TypeOK, NEW r \in Requests, NEW pc, Goto(r, pc)
  PROVE  req' = [req EXCEPT ![r] = [op |-> req[r].op, pc |-> pc, key |-> req[r].key,
                                    type |-> req[r].type, answer |-> req[r].answer]]
<1>1. req[r] \in RequestRecords BY DEF TypeOK
<1>2. [req[r] EXCEPT !.pc = pc] = [op |-> req[r].op, pc |-> pc, key |-> req[r].key,
                                   type |-> req[r].type, answer |-> req[r].answer]
  BY <1>1 DEF RequestRecords
<1> QED BY <1>2 DEF Goto

LEMMA Answers ==
  ASSUME TypeOK, NEW r \in Requests, NEW answer, Answer(r, answer)
  PROVE  req' = [req EXCEPT ![r] = [op |-> "none", pc |-> "done", key |-> Nobody,
                                    type |-> Nobody, answer |-> answer]]
BY DEF Answer, Answered

\* An answer other than created is fitting.
LEMMA FitAnswer ==
  ASSUME NEW answer \in {"unknown", "found", "taken", "error", "lost"}
  PROVE  Fit([op |-> "none", pc |-> "done", key |-> Nobody, type |-> Nobody, answer |-> answer])
BY DEF Fit, RequestRecords

\* The registry keeps its worker when another request moves on.
LEMMA RegistryKept ==
  ASSUME RegistryInv, NEW r \in Requests, req[r].pc # "load", UNCHANGED appVars,
         \A q \in Requests : q # r => req'[q] = req[q],
         req'[r].pc \in {"load", "lookup"} => bootstrapped
  PROVE  RegistryInv'
<1>1. bootstrapped' = bootstrapped /\ registry' = registry BY DEF appVars
<1> QED BY <1>1 DEF RegistryInv

LEMMA ArriveKeeps ==
  ASSUME TypeOK, Asked, NEW r \in Requests, Arrive(r)
  PROVE  TypeOK' /\ Asked'
<1>1. PICK op \in {"publish", "register", "execute"}, pc \in {"check", "select"},
           key \in Keys, type \in Types \cup TypesAsked \cup {Nobody} :
         /\ Send(r, op, pc, key, type)
         /\ op = "publish" => key \in Slugs
         /\ pc = "check" => op # "register"
         /\ pc = "select" => key \in Emails
  BY DEF Arrive, Publish, Register, Execute, Keys
<1> DEFINE x == [op |-> op, pc |-> pc, key |-> key, type |-> type, answer |-> "none"]
<1>2. Fit(x) BY <1>1 DEF Fit, RequestRecords
<1>3. req' = [req EXCEPT ![r] = x] /\ req[r].pc = "new" /\ UNCHANGED <<appVars, tableVars, seedVars, browseVars>>
  BY <1>1 DEF Send, NotSent
<1>4. owner' = owner BY <1>3 DEF tableVars
<1> HIDE DEF x
<1>5. /\ req' \in [Requests -> RequestRecords] /\ req'[r] = x
      /\ \A q \in Requests : q # r => req'[q] = req[q]
      /\ RequestInv' /\ CreatedOwns'
  BY <1>2, <1>3, <1>4, MovesOn DEF Asked
<1>6. RegistryInv' BY <1>3, <1>5, RegistryKept DEF Asked, x
<1>7. TypeOK' BY <1>3, <1>5 DEF TypeOK, appVars, tableVars, seedVars, browseVars
<1> QED BY <1>5, <1>6, <1>7 DEF Asked

\* The steps of a request that leave the table alone.
LEMMA AdvanceKeeps ==
  ASSUME TypeOK, Asked, NEW r \in Requests, Advance(r), ~ InsertRow(r)
  PROVE  TypeOK' /\ Asked' /\ UNCHANGED <<tableVars, seedVars, browseVars>>
<1>a. /\ req[r] \in RequestRecords
      /\ req[r].pc \in {"check", "set", "load", "lookup"} => req[r].op \in {"publish", "execute"}
      /\ req[r].op = "publish" => req[r].key \in Slugs
      /\ req[r].pc \in {"select", "insert"} =>
            req[r].key \in Emails \/ (req[r].key \in Slugs /\ req[r].type \in Types)
      /\ req[r].answer # "none" <=> req[r].pc = "done"
  BY DEF TypeOK, Asked, RequestInv
<1>b. ASSUME NEW x, Fit(x), req' = [req EXCEPT ![r] = x], req[r].pc \notin {"done", "load"},
             UNCHANGED <<appVars, tableVars, seedVars, browseVars>>,
             x.pc \in {"load", "lookup"} => bootstrapped
      PROVE  TypeOK' /\ Asked' /\ UNCHANGED <<tableVars, seedVars, browseVars>>
  <2>1. owner' = owner BY <1>b DEF tableVars
  <2>2. /\ req' \in [Requests -> RequestRecords] /\ req'[r] = x
        /\ \A q \in Requests : q # r => req'[q] = req[q]
        /\ RequestInv' /\ CreatedOwns'
    BY <1>b, <2>1, MovesOn DEF Asked
  <2>3. RegistryInv' BY <1>b, <2>2, RegistryKept DEF Asked
  <2>4. TypeOK' BY <1>b, <2>2 DEF TypeOK, appVars, tableVars, seedVars, browseVars
  <2> QED BY <1>b, <2>2, <2>3, <2>4 DEF Asked
<1> DEFINE To(pc) == [op |-> req[r].op, pc |-> pc, key |-> req[r].key,
                      type |-> req[r].type, answer |-> req[r].answer]
           With(answer) == [op |-> "none", pc |-> "done", key |-> Nobody, type |-> Nobody, answer |-> answer]
<1>1. CASE CheckBootstrapped(r)
  <2> DEFINE pc == IF bootstrapped THEN "lookup" ELSE "set"
  <2>1. req[r].pc = "check" /\ Goto(r, pc) /\ UNCHANGED <<appVars, tableVars, seedVars, browseVars>>
    BY <1>1 DEF CheckBootstrapped
  <2>2. req' = [req EXCEPT ![r] = To(pc)] BY <2>1, GoesTo
  <2>3. Fit(To(pc)) BY <1>a, <2>1 DEF Fit, RequestRecords
  <2>4. To(pc).pc \in {"load", "lookup"} => bootstrapped OBVIOUS
  <2> HIDE DEF To
  <2> QED BY <1>b, <2>1, <2>2, <2>3, <2>4
<1>2. CASE SetBootstrapped(r)
  <2>1. /\ req[r].pc = "set" /\ Goto(r, "load") /\ bootstrapped' = TRUE /\ registry' = registry
        /\ UNCHANGED <<tableVars, seedVars, browseVars>>
    BY <1>2 DEF SetBootstrapped
  <2>2. req' = [req EXCEPT ![r] = To("load")] BY <2>1, GoesTo
  <2>3. Fit(To("load")) BY <1>a, <2>1 DEF Fit, RequestRecords
  <2>4. owner' = owner BY <2>1 DEF tableVars
  <2>5. /\ req' \in [Requests -> RequestRecords] /\ req'[r] = To("load")
        /\ RequestInv' /\ CreatedOwns'
    <3> HIDE DEF To
    <3> QED BY <2>1, <2>2, <2>3, <2>4, MovesOn DEF Asked
  <2>6. RegistryInv' BY <2>1, <2>5 DEF RegistryInv
  <2>7. TypeOK' BY <2>1, <2>5 DEF TypeOK, tableVars, seedVars, browseVars
  <2> QED BY <2>1, <2>5, <2>6, <2>7 DEF Asked
<1>3. CASE \E t \in Types : RegisterConnector(r, t)
  <2>1. PICK t \in Types : RegisterConnector(r, t) BY <1>3
  <2>2. /\ req[r].pc = "load" /\ registry' = registry \cup {t} /\ bootstrapped' = bootstrapped
        /\ req' = req /\ UNCHANGED <<tableVars, seedVars, browseVars>>
    BY <2>1 DEF RegisterConnector
  <2>3. TypeOK' BY <2>2 DEF TypeOK, tableVars, seedVars, browseVars
  <2>4. RegistryInv' BY <2>2 DEF Asked, RegistryInv
  <2>5. RequestInv' /\ CreatedOwns' BY <2>2 DEF Asked, RequestInv, CreatedOwns, tableVars
  <2> QED BY <2>2, <2>3, <2>4, <2>5 DEF Asked
<1>4. CASE RegisterAll(r)
  <2>1. /\ req[r].pc = "load" /\ registry = Types /\ Goto(r, "lookup")
        /\ UNCHANGED <<appVars, tableVars, seedVars, browseVars>>
    BY <1>4 DEF RegisterAll
  <2>2. req' = [req EXCEPT ![r] = To("lookup")] BY <2>1, GoesTo
  <2>3. Fit(To("lookup")) BY <1>a, <2>1 DEF Fit, RequestRecords
  <2>4. owner' = owner /\ bootstrapped' = bootstrapped /\ registry' = registry
    BY <2>1 DEF tableVars, appVars
  <2>5. /\ req' \in [Requests -> RequestRecords] /\ RequestInv' /\ CreatedOwns'
    <3> HIDE DEF To
    <3> QED BY <2>1, <2>2, <2>3, <2>4, MovesOn DEF Asked
  <2>6. bootstrapped BY <2>1 DEF Asked, RegistryInv
  <2>7. RegistryInv' BY <2>1, <2>4, <2>6 DEF RegistryInv
  <2>8. TypeOK' BY <2>1, <2>4, <2>5 DEF TypeOK, tableVars, seedVars, browseVars
  <2> QED BY <2>1, <2>5, <2>7, <2>8 DEF Asked
<1>5. CASE Lookup(r)
  <2>1. /\ req[r].pc = "lookup" /\ UNCHANGED <<appVars, tableVars, seedVars, browseVars>>
        /\ \/ req[r].op = "publish" /\ req[r].type \in registry /\ Goto(r, "select")
           \/ \E answer \in {"unknown", "found"} : Answer(r, answer)
    BY <1>5 DEF Lookup
  <2>2. CASE req[r].op = "publish" /\ req[r].type \in registry /\ Goto(r, "select")
    <3>1. req' = [req EXCEPT ![r] = To("select")] BY <2>2, GoesTo
    <3>2. req[r].type \in Types BY <2>2 DEF TypeOK
    <3>3. Fit(To("select")) BY <1>a, <2>1, <2>2, <3>2 DEF Fit, RequestRecords
    <3>4. To("select").pc = "select" OBVIOUS
    <3> HIDE DEF To
    <3> QED BY <1>b, <2>1, <3>1, <3>3, <3>4
  <2>3. CASE \E answer \in {"unknown", "found"} : Answer(r, answer)
    <3>1. PICK answer \in {"unknown", "found"} : Answer(r, answer) BY <2>3
    <3>2. req' = [req EXCEPT ![r] = With(answer)] BY <3>1, Answers
    <3>3. Fit(With(answer)) /\ With(answer).pc = "done" BY FitAnswer
    <3> HIDE DEF With
    <3> QED BY <1>b, <2>1, <3>2, <3>3
  <2> QED BY <2>1, <2>2, <2>3
<1>6. CASE SelectKey(r)
  <2>1. /\ req[r].pc = "select" /\ UNCHANGED <<appVars, tableVars, seedVars, browseVars>>
        /\ Answer(r, "taken") \/ Goto(r, "insert")
    BY <1>6 DEF SelectKey
  <2>2. CASE Answer(r, "taken")
    <3>1. req' = [req EXCEPT ![r] = With("taken")] BY <2>2, Answers
    <3>2. Fit(With("taken")) /\ With("taken").pc = "done" BY FitAnswer
    <3> HIDE DEF With
    <3> QED BY <1>b, <2>1, <3>1, <3>2
  <2>3. CASE Goto(r, "insert")
    <3>1. req' = [req EXCEPT ![r] = To("insert")] BY <2>3, GoesTo
    <3>2. Fit(To("insert")) BY <1>a, <2>1 DEF Fit, RequestRecords
    <3>3. To("insert").pc = "insert" OBVIOUS
    <3> HIDE DEF To
    <3> QED BY <1>b, <2>1, <3>1, <3>2, <3>3
  <2> QED BY <2>1, <2>2, <2>3
<1>7. CASE InsertFails(r)
  <2>1. /\ req[r].pc = "insert" /\ UNCHANGED <<appVars, tableVars, seedVars, browseVars>>
        /\ Answer(r, "error")
    BY <1>7 DEF InsertFails
  <2>2. req' = [req EXCEPT ![r] = With("error")] BY <2>1, Answers
  <2>3. Fit(With("error")) /\ With("error").pc = "done" BY FitAnswer
  <2> HIDE DEF With
  <2> QED BY <1>b, <2>1, <2>2, <2>3
<1> QED BY <1>1, <1>2, <1>3, <1>4, <1>5, <1>6, <1>7 DEF Advance

-----------------------------------------------------------------------------
\* A row is inserted.

LEMMA InsertChanges ==
  ASSUME CatalogInv, NEW r \in Requests, InsertRow(r)
  PROVE  /\ req[r].pc = "insert" /\ req[r].key \in Keys /\ ~ seed.locked
         /\ owner[req[r].key] = Nobody
         /\ owner' \in [Keys -> Requests \cup {Nobody, Seed}]
         /\ owner'[req[r].key] = r
         /\ \A k \in Keys : k # req[r].key => owner'[k] = owner[k]
         /\ req' \in [Requests -> RequestRecords]
         /\ req'[r] = [op |-> req[r].op, pc |-> "done", key |-> req[r].key,
                       type |-> req[r].type, answer |-> "created"]
         /\ \A q \in Requests : q # r => req'[q] = req[q]
         /\ UNCHANGED <<appVars, seedVars, browseVars>>
<1>a. TypeOK /\ RequestInv BY DEF CatalogInv
<1>b. req[r] \in RequestRecords BY <1>a DEF TypeOK
<1>1. req[r].pc = "insert" /\ req[r].key \in Keys BY <1>a DEF InsertRow, RequestInv, Keys
<1>2. /\ req'[r] = [op |-> req[r].op, pc |-> "done", key |-> req[r].key,
                     type |-> req[r].type, answer |-> "created"]
      /\ \A q \in Requests : q # r => req'[q] = req[q]
  BY <1>a, <1>b DEF InsertRow, Created, TypeOK, RequestRecords
<1>3. req'[r] \in RequestRecords BY <1>b, <1>2 DEF RequestRecords
<1>4. req' \in [Requests -> RequestRecords] BY <1>a, <1>3 DEF InsertRow, Created, TypeOK
<1>5. owner' = [owner EXCEPT ![req[r].key] = r] BY DEF InsertRow
<1>6. owner' \in [Keys -> Requests \cup {Nobody, Seed}] BY <1>a, <1>1, <1>5 DEF TypeOK
<1>7. owner'[req[r].key] = r /\ \A k \in Keys : k # req[r].key => owner'[k] = owner[k]
  BY <1>a, <1>1, <1>5 DEF TypeOK
<1> QED BY <1>1, <1>2, <1>4, <1>6, <1>7 DEF InsertRow

LEMMA InsertPlaces ==
  ASSUME CatalogInv, NEW r \in Requests, InsertRow(r)
  PROVE  /\ place' \in [Slugs -> Nat] /\ total' \in Nat /\ total <= total'
         /\ \A s \in Slugs : s # req[r].key => place'[s] = place[s]
         /\ req[r].key \in Slugs =>
               place[req[r].key] = 0 /\ place'[req[r].key] = total' /\ total' = total + 1
         /\ req[r].key \notin Slugs => total' = total
<1>a. TypeOK /\ PlaceInv BY DEF CatalogInv
<1>1. CASE req[r].key \in Slugs
  <2>1. place' = [place EXCEPT ![req[r].key] = total + 1] /\ total' = total + 1 BY <1>1 DEF InsertRow
  <2>2. place[req[r].key] = 0
    <3>1. owner[req[r].key] = Nobody BY DEF InsertRow
    <3>2. place[req[r].key] \in Nat BY <1>1, <1>a DEF TypeOK
    <3> QED BY <1>1, <1>a, <3>1, <3>2 DEF PlaceInv
  <2> QED BY <1>1, <1>a, <2>1, <2>2 DEF TypeOK
<1>2. CASE req[r].key \notin Slugs
  BY <1>2, <1>a DEF InsertRow, TypeOK
<1> QED BY <1>1, <1>2

LEMMA InsertKeeps ==
  ASSUME CatalogInv, NEW r \in Requests, InsertRow(r)
  PROVE  CatalogInv'
<1>a. TypeOK /\ RequestInv /\ CreatedOwns /\ RegistryInv /\ SeedInv /\ SeedAllOrNothing
      /\ PlaceInv /\ PageInv /\ PagesComplete
  BY DEF CatalogInv
<1>b. /\ req[r].pc = "insert" /\ req[r].key \in Keys /\ ~ seed.locked
      /\ owner[req[r].key] = Nobody
      /\ owner' \in [Keys -> Requests \cup {Nobody, Seed}]
      /\ owner'[req[r].key] = r
      /\ \A k \in Keys : k # req[r].key => owner'[k] = owner[k]
      /\ req' \in [Requests -> RequestRecords]
      /\ req'[r] = [op |-> req[r].op, pc |-> "done", key |-> req[r].key,
                    type |-> req[r].type, answer |-> "created"]
      /\ \A q \in Requests : q # r => req'[q] = req[q]
      /\ UNCHANGED <<appVars, seedVars, browseVars>>
  BY InsertChanges
<1>c. /\ place' \in [Slugs -> Nat] /\ total' \in Nat /\ total <= total'
      /\ \A s \in Slugs : s # req[r].key => place'[s] = place[s]
      /\ req[r].key \in Slugs =>
            place[req[r].key] = 0 /\ place'[req[r].key] = total' /\ total' = total + 1
      /\ req[r].key \notin Slugs => total' = total
  BY InsertPlaces
<1>d. r # Nobody /\ r # Seed BY CatalogAssumption
<1>e. \A k \in Keys : owner[k] # r
  BY <1>a, <1>b DEF RequestInv
<1>1. TypeOK' BY <1>a, <1>b, <1>c DEF TypeOK, appVars, seedVars, browseVars
<1>2. RequestInv'
  <2> SUFFICES ASSUME NEW q \in Requests
               PROVE  /\ req'[q].pc = "new" => req'[q] = NotSent
                      /\ req'[q].pc \in {"check", "set", "load", "lookup"} => req'[q].op \in {"publish", "execute"}
                      /\ req'[q].op = "publish" => req'[q].key \in Slugs
                      /\ req'[q].pc \in {"select", "insert"} =>
                            req'[q].key \in Emails \/ (req'[q].key \in Slugs /\ req'[q].type \in Types)
                      /\ req'[q].answer = "created" <=> \E k \in Keys : owner'[k] = q
                      /\ req'[q].answer = "created" => req'[q].key \in Keys
                      /\ req'[q].answer # "none" <=> req'[q].pc = "done"
    BY DEF RequestInv
  <2>1. CASE q = r BY <1>a, <1>b, <2>1 DEF RequestInv
  <2>2. CASE q # r
    <3>1. req'[q] = req[q] BY <1>b, <2>2
    <3>2. (\E k \in Keys : owner'[k] = q) <=> \E k \in Keys : owner[k] = q
      <4>1. q # Nobody BY CatalogAssumption
      <4> QED BY <1>b, <2>2, <4>1
    <3> QED BY <1>a, <3>1, <3>2 DEF RequestInv
  <2> QED BY <2>1, <2>2
<1>3. CreatedOwns'
  <2> SUFFICES ASSUME NEW q \in Requests
               PROVE  /\ req'[q].answer = "created" => owner'[req'[q].key] = q
                      /\ \A s \in Slugs : owner'[s] = q => req'[q].key = s /\ req'[q].type \in Types
    BY DEF CreatedOwns
  <2>1. CASE q = r
    <3>1. owner'[req'[q].key] = q BY <1>b, <2>1
    <3>2. ASSUME NEW s \in Slugs, owner'[s] = q PROVE req'[q].key = s /\ req'[q].type \in Types
      <4>1. s \in Keys BY DEF Keys
      <4>2. s = req[r].key BY <1>b, <1>e, <2>1, <3>2, <4>1
      <4>3. s \notin Emails BY CatalogAssumption
      <4>4. req[r].type \in Types BY <1>a, <1>b, <4>2, <4>3 DEF RequestInv
      <4> QED BY <1>b, <2>1, <4>2, <4>4
    <3> QED BY <3>1, <3>2
  <2>2. CASE q # r
    <3>1. req'[q] = req[q] /\ q # Nobody BY <1>b, <2>2, CatalogAssumption
    <3>2. req[q].answer = "created" => owner'[req[q].key] = q
      <4>1. CASE req[q].answer = "created"
        <5>1. owner[req[q].key] = q BY <1>a, <4>1 DEF CreatedOwns
        <5>2. req[q].key # req[r].key BY <1>b, <3>1, <5>1
        <5>3. req[q].key \in Keys BY <1>a, <4>1 DEF RequestInv
        <5> QED BY <1>b, <5>1, <5>2, <5>3
      <4> QED BY <4>1
    <3>3. \A s \in Slugs : owner'[s] = q => owner[s] = q BY <1>b, <2>2 DEF Keys
    <3> QED BY <1>a, <3>1, <3>2, <3>3 DEF CreatedOwns
  <2> QED BY <2>1, <2>2
<1>4. RegistryInv' BY <1>a, <1>b DEF RegistryInv, appVars
<1>f. \A s \in Slugs : owner[s] # Nobody => owner'[s] # Nobody BY <1>b, <1>d DEF Keys
<1>5. SeedInv'
  <2>1. seed' = seed /\ draft' = draft BY <1>b DEF seedVars
  <2>2. seed.last \in Demo \cup {Nobody} BY <1>a DEF TypeOK
  <2>3. \A s \in Slugs : draft[s] > 0 => s = seed.last BY <1>a, <1>b DEF SeedInv
  <2>4. \A s \in Demo : owner[s] # Nobody => owner'[s] # Nobody BY <1>f, CatalogAssumption
  <2> QED BY <1>a, <1>b, <2>1, <2>2, <2>3, <2>4 DEF SeedInv
<1>6. SeedAllOrNothing'
  <2>1. \A s \in Slugs : owner'[s] = Seed => owner[s] = Seed BY <1>b, <1>d DEF Keys
  <2>2. \A s \in Demo : owner[s] # Nobody => owner'[s] # Nobody BY <1>f, CatalogAssumption
  <2>3. seed' = seed BY <1>b DEF seedVars
  <2> QED BY <1>a, <2>1, <2>2, <2>3 DEF SeedAllOrNothing
<1>7. PlaceInv'
  <2>a. seed' = seed /\ draft' = draft BY <1>b DEF seedVars
  <2>b. place \in [Slugs -> Nat] /\ draft \in [Slugs -> Nat] /\ total \in Nat /\ seed.added \in Nat
    BY <1>a DEF TypeOK
  <2>1. \A s \in Slugs : place'[s] > 0 <=> owner'[s] # Nobody
    <3> SUFFICES ASSUME NEW s \in Slugs PROVE place'[s] > 0 <=> owner'[s] # Nobody OBVIOUS
    <3>1. CASE s = req[r].key BY <1>b, <1>c, <1>d, <2>b, <3>1
    <3>2. CASE s # req[r].key BY <1>a, <1>b, <1>c, <3>2 DEF PlaceInv, Keys
    <3> QED BY <3>1, <3>2
  <2>2. \A s \in Slugs : place'[s] <= total' /\ draft'[s] <= seed'.added
    <3> SUFFICES ASSUME NEW s \in Slugs PROVE place'[s] <= total' /\ draft'[s] <= seed'.added OBVIOUS
    <3>1. CASE s = req[r].key BY <1>a, <1>c, <2>a, <2>b, <3>1 DEF PlaceInv
    <3>2. CASE s # req[r].key BY <1>a, <1>c, <2>a, <2>b, <3>2 DEF PlaceInv
    <3> QED BY <3>1, <3>2
  <2>3. \A i \in 1 .. total' : \E s \in Slugs : place'[s] = i
    <3> SUFFICES ASSUME NEW i \in 1 .. total' PROVE \E s \in Slugs : place'[s] = i OBVIOUS
    <3>1. CASE i \in 1 .. total
      <4>1. PICK s \in Slugs : place[s] = i BY <1>a, <3>1 DEF PlaceInv
      <4>2. s # req[r].key BY <1>c, <3>1, <4>1
      <4> QED BY <1>c, <4>1, <4>2
    <3>2. CASE i \notin 1 .. total BY <1>c, <2>b, <3>2
    <3> QED BY <3>1, <3>2
  <2>4. \A i \in 1 .. seed'.added : \E s \in Slugs : draft'[s] = i BY <1>a, <2>a DEF PlaceInv
  <2> QED BY <2>1, <2>2, <2>3, <2>4 DEF PlaceInv
<1>g. browse' = browse /\ shown' = shown /\ Reach' = Reach BY <1>b DEF browseVars, Reach
<1>h. browse.start \in Nat /\ total \in Nat /\ place \in [Slugs -> Nat] /\ shown \in [Slugs -> Nat]
  BY <1>a DEF TypeOK
\* Where the new row comes, no client that pages expects one.
<1>i. \A s \in Slugs : /\ place[s] > 0 => place'[s] = place[s]
                       /\ place'[s] <= browse.start => place'[s] = place[s]
  <2> SUFFICES ASSUME NEW s \in Slugs
               PROVE  /\ place[s] > 0 => place'[s] = place[s]
                      /\ place'[s] <= browse.start => place'[s] = place[s]
    OBVIOUS
  <2>1. CASE s = req[r].key BY <1>a, <1>c, <1>h, <2>1 DEF PageInv
  <2>2. CASE s # req[r].key BY <1>c, <2>2
  <2> QED BY <2>1, <2>2
<1>8. PageInv'
  <2>1. browse.start <= total' BY <1>a, <1>c, <1>h DEF PageInv
  <2> QED BY <1>a, <1>g, <1>i, <2>1 DEF PageInv
<1>9. PagesComplete' BY <1>a, <1>g, <1>i DEF PagesComplete
<1> QED BY <1>1, <1>2, <1>3, <1>4, <1>5, <1>6, <1>7, <1>8, <1>9 DEF CatalogInv

-----------------------------------------------------------------------------
\* The seed script.

SeedRecords == [pc : {"idle", "run", "done"}, todo : SUBSET Demo, last : Demo \cup {Nobody},
                added : Nat, locked : BOOLEAN]

LEMMA SeedTyped == TypeOK => seed \in SeedRecords
BY DEF TypeOK, SeedRecords

LEMMA SeedStepTyped ==
  ASSUME seed \in SeedRecords, NEW a \in SUBSET Demo, NEW b \in BOOLEAN,
         NEW c \in Demo \cup {Nobody}, NEW d \in Nat
  PROVE  [seed EXCEPT !.todo = a, !.locked = b, !.last = c, !.added = d] \in SeedRecords
BY DEF SeedRecords

LEMMA SeedBeginKeeps ==
  ASSUME TypeOK, SeedInv, SeedAllOrNothing, PlaceInv, SeedBegin
  PROVE  TypeOK' /\ Seeded' /\ PlaceInv'
<1>1. /\ seed' = [pc |-> "run", todo |-> Demo, last |-> Nobody, added |-> 0, locked |-> FALSE]
      /\ draft' = [s \in Slugs |-> 0]
      /\ UNCHANGED <<appVars, req, tableVars, browseVars>>
      /\ seed.pc # "run"
  BY DEF SeedBegin, NotSeeding
<1>2. TypeOK' BY <1>1 DEF TypeOK, appVars, tableVars, browseVars
<1>3. SeedInv' BY <1>1 DEF SeedInv
<1>4. SeedAllOrNothing' BY <1>1 DEF SeedAllOrNothing, tableVars
<1>5. PlaceInv'
  <2>1. \A s \in Slugs : draft'[s] <= seed'.added BY <1>1
  <2>2. \A i \in 1 .. seed'.added : \E s \in Slugs : draft'[s] = i BY <1>1
  <2> QED BY <1>1, <2>1, <2>2 DEF PlaceInv, tableVars
<1> QED BY <1>2, <1>3, <1>4, <1>5 DEF Seeded

LEMMA SeedFailsKeeps ==
  ASSUME TypeOK, SeedInv, SeedAllOrNothing, PlaceInv, SeedFails
  PROVE  TypeOK' /\ Seeded' /\ PlaceInv'
<1>1. /\ seed' = [pc |-> "idle", todo |-> {}, last |-> Nobody, added |-> 0, locked |-> FALSE]
      /\ draft' = [s \in Slugs |-> 0]
      /\ UNCHANGED <<appVars, req, tableVars, browseVars>>
  BY DEF SeedFails, NotSeeding
<1>2. TypeOK' BY <1>1 DEF TypeOK, appVars, tableVars, browseVars
<1>3. SeedInv' BY <1>1 DEF SeedInv
<1>4. SeedAllOrNothing' BY <1>1 DEF SeedAllOrNothing, tableVars
<1>5. PlaceInv'
  <2>1. \A s \in Slugs : draft'[s] <= seed'.added BY <1>1
  <2>2. \A i \in 1 .. seed'.added : \E s \in Slugs : draft'[s] = i BY <1>1
  <2> QED BY <1>1, <2>1, <2>2 DEF PlaceInv, tableVars
<1> QED BY <1>2, <1>3, <1>4, <1>5 DEF Seeded

LEMMA SeedSlugKeeps ==
  ASSUME TypeOK, SeedInv, SeedAllOrNothing, PlaceInv, NEW s \in Slugs, SeedSlug(s)
  PROVE  TypeOK' /\ Seeded' /\ PlaceInv'
<1>a. seed \in SeedRecords /\ draft \in [Slugs -> Nat] BY SeedTyped DEF TypeOK
<1>b. /\ seed.pc = "run" /\ s \in seed.todo /\ s \in Demo
      /\ seed.last # Nobody => owner[seed.last] = Nobody
      /\ UNCHANGED <<appVars, req, tableVars, browseVars>>
  BY <1>a DEF SeedSlug, Flushes, SeedRecords
<1>c. seed.added \in Nat /\ seed.todo \subseteq Demo /\ seed.last \in Demo \cup {Nobody} /\ seed.locked \in BOOLEAN
  BY <1>a DEF SeedRecords
<1>d. s # Nobody BY CatalogAssumption
<1>1. /\ seed'.pc = "run" /\ seed'.todo = seed.todo \ {s}
      /\ seed'.locked = (seed.locked \/ seed.last # Nobody)
      /\ seed'.last = IF owner[s] = Nobody THEN s ELSE Nobody
      /\ seed'.added = IF owner[s] = Nobody THEN seed.added + 1 ELSE seed.added
  BY <1>a, <1>b DEF SeedSlug, SeedRecords
<1>2. seed' \in SeedRecords
  <2>1. seed' = [seed EXCEPT !.todo = seed.todo \ {s}, !.locked = (seed.locked \/ seed.last # Nobody),
                             !.last = IF owner[s] = Nobody THEN s ELSE Nobody,
                             !.added = IF owner[s] = Nobody THEN seed.added + 1 ELSE seed.added]
    BY DEF SeedSlug
  <2>2. /\ seed.todo \ {s} \in SUBSET Demo /\ (seed.locked \/ seed.last # Nobody) \in BOOLEAN
        /\ (IF owner[s] = Nobody THEN s ELSE Nobody) \in Demo \cup {Nobody}
        /\ (IF owner[s] = Nobody THEN seed.added + 1 ELSE seed.added) \in Nat
    BY <1>b, <1>c
  <2> QED BY <1>a, <2>1, <2>2, SeedStepTyped
<1>3. /\ draft' \in [Slugs -> Nat]
      /\ draft'[s] = IF owner[s] = Nobody THEN seed.added + 1 ELSE 0
      /\ \A x \in Slugs : x # s => draft'[x] = draft[x]
  BY <1>a, <1>c DEF SeedSlug
<1>4. TypeOK' BY <1>b, <1>2, <1>3 DEF TypeOK, SeedRecords, appVars, tableVars, browseVars
<1>5. draft[s] = 0
  <2>1. ~ draft[s] > 0 BY <1>b DEF SeedInv
  <2> QED BY <1>a, <2>1
<1>6. owner' = owner /\ place' = place /\ total' = total BY <1>b DEF tableVars
<1>7. SeedInv'
  <2>1. \A x \in Slugs : draft'[x] > 0 => x \in Demo \ seed'.todo
    BY <1>1, <1>3, <1>b DEF SeedInv
  <2>2. \A x \in Slugs : draft'[x] > 0 /\ x # seed'.last => seed'.locked /\ owner'[x] = Nobody
    <3> SUFFICES ASSUME NEW x \in Slugs, draft'[x] > 0, x # seed'.last
                 PROVE  seed'.locked /\ owner'[x] = Nobody
      OBVIOUS
    <3>1. x # s BY <1>1, <1>3
    <3>2. draft[x] > 0 BY <1>3, <3>1
    <3>3. CASE x = seed.last
      <4>1. x # Nobody BY CatalogAssumption
      <4> QED BY <1>1, <1>6, <1>b, <3>3, <4>1
    <3>4. CASE x # seed.last BY <1>1, <1>6, <3>2, <3>4 DEF SeedInv
    <3> QED BY <3>3, <3>4
  <2>3. seed'.locked /\ seed'.last # Nobody => owner'[seed'.last] = Nobody BY <1>1, <1>6
  <2>4. \A x \in Demo : x \in seed'.todo \/ draft'[x] > 0 \/ owner'[x] # Nobody
    <3> SUFFICES ASSUME NEW x \in Demo PROVE x \in seed'.todo \/ draft'[x] > 0 \/ owner'[x] # Nobody
      OBVIOUS
    <3>1. x \in Slugs BY CatalogAssumption
    <3>2. CASE x = s BY <1>3, <1>6, <1>c, <3>2
    <3>3. CASE x # s BY <1>1, <1>3, <1>6, <1>b, <3>1, <3>3 DEF SeedInv
    <3> QED BY <3>2, <3>3
  <2> QED BY <1>1, <2>1, <2>2, <2>3, <2>4 DEF SeedInv
<1>8. SeedAllOrNothing' BY <1>1, <1>6, <1>b DEF SeedAllOrNothing
<1>9. PlaceInv'
  <2>1. \A x \in Slugs : draft'[x] <= seed'.added
    <3> SUFFICES ASSUME NEW x \in Slugs PROVE draft'[x] <= seed'.added OBVIOUS
    <3>1. draft[x] \in Nat /\ draft[x] <= seed.added BY <1>a DEF PlaceInv
    <3>2. CASE x = s BY <1>1, <1>3, <1>c, <3>2
    <3>3. CASE x # s BY <1>1, <1>3, <1>c, <3>1, <3>3
    <3> QED BY <3>2, <3>3
  <2>2. \A i \in 1 .. seed'.added : \E x \in Slugs : draft'[x] = i
    <3> SUFFICES ASSUME NEW i \in 1 .. seed'.added PROVE \E x \in Slugs : draft'[x] = i OBVIOUS
    <3>1. CASE i \in 1 .. seed.added
      <4>1. PICK x \in Slugs : draft[x] = i BY <3>1 DEF PlaceInv
      <4>2. x # s BY <1>5, <3>1, <4>1
      <4> QED BY <1>3, <4>1, <4>2
    <3>2. CASE i \notin 1 .. seed.added
      <4>1. owner[s] = Nobody /\ i = seed.added + 1 BY <1>1, <1>c, <3>2
      <4> QED BY <1>3, <4>1
    <3> QED BY <3>1, <3>2
  <2> QED BY <1>6, <2>1, <2>2 DEF PlaceInv
<1> QED BY <1>4, <1>7, <1>8, <1>9 DEF Seeded

\* What the commit writes: the rows of the draft come after all others.
LEMMA CommitChanges ==
  ASSUME TypeOK, SeedInv, PlaceInv, SeedCommit
  PROVE  /\ total' = total + seed.added /\ seed.added \in Nat /\ total \in Nat
         /\ seed' = [pc |-> "done", todo |-> {}, last |-> Nobody, added |-> 0, locked |-> FALSE]
         /\ draft' = [s \in Slugs |-> 0]
         /\ UNCHANGED <<appVars, req, browseVars>>
         /\ owner' \in [Keys -> Requests \cup {Nobody, Seed}] /\ place' \in [Slugs -> Nat]
         /\ \A s \in Slugs : draft[s] > 0 =>
               /\ owner[s] = Nobody /\ owner'[s] = Seed
               /\ place[s] = 0 /\ place'[s] = total + draft[s]
         /\ \A s \in Slugs : ~ draft[s] > 0 => owner'[s] = owner[s] /\ place'[s] = place[s]
         /\ \A k \in Keys : owner'[k] = owner[k] \/ (owner[k] = Nobody /\ owner'[k] = Seed)
<1>a. seed \in SeedRecords /\ draft \in [Slugs -> Nat] /\ owner \in [Keys -> Requests \cup {Nobody, Seed}]
      /\ place \in [Slugs -> Nat] /\ total \in Nat
  BY SeedTyped DEF TypeOK
<1>b. seed.added \in Nat BY <1>a DEF SeedRecords
<1>1. /\ owner' = [k \in Keys |-> IF k \in Slugs /\ draft[k] > 0 THEN Seed ELSE owner[k]]
      /\ place' = [s \in Slugs |-> IF draft[s] > 0 THEN total + draft[s] ELSE place[s]]
      /\ total' = total + seed.added
      /\ draft' = [s \in Slugs |-> 0]
      /\ UNCHANGED <<appVars, req, browseVars>>
  BY DEF SeedCommit, Commit
<1>2. seed' = [pc |-> "done", todo |-> {}, last |-> Nobody, added |-> 0, locked |-> FALSE]
  BY DEF SeedCommit, NotSeeding
<1>3. \A s \in Slugs : draft[s] > 0 => owner[s] = Nobody
  <2> SUFFICES ASSUME NEW s \in Slugs, draft[s] > 0 PROVE owner[s] = Nobody OBVIOUS
  <2>1. s # Nobody BY CatalogAssumption
  <2>2. CASE s = seed.last BY <2>1, <2>2 DEF SeedCommit, Flushes
  <2>3. CASE s # seed.last BY <2>3 DEF SeedInv
  <2> QED BY <2>2, <2>3
<1>4. \A s \in Slugs : draft[s] > 0 => place[s] = 0
  <2>1. \A s \in Slugs : draft[s] > 0 => ~ place[s] > 0 BY <1>3 DEF PlaceInv
  <2> QED BY <1>a, <2>1
<1>5. owner' \in [Keys -> Requests \cup {Nobody, Seed}] BY <1>a, <1>1
<1>6. place' \in [Slugs -> Nat] BY <1>a, <1>b, <1>1
<1>7. \A s \in Slugs : s \in Keys BY DEF Keys
<1>8. \A s \in Slugs : draft[s] > 0 => owner'[s] = Seed /\ place'[s] = total + draft[s] BY <1>1, <1>7
<1>9. \A s \in Slugs : ~ draft[s] > 0 => owner'[s] = owner[s] /\ place'[s] = place[s] BY <1>1, <1>7
<1>10. \A k \in Keys : owner'[k] = owner[k] \/ (owner[k] = Nobody /\ owner'[k] = Seed) BY <1>1, <1>3
<1> QED BY <1>a, <1>b, <1>1, <1>2, <1>3, <1>4, <1>5, <1>6, <1>8, <1>9, <1>10

LEMMA SeedCommitKeeps ==
  ASSUME CatalogInv, SeedCommit
  PROVE  CatalogInv'
<1>a. TypeOK /\ RequestInv /\ CreatedOwns /\ RegistryInv /\ SeedInv /\ SeedAllOrNothing
      /\ PlaceInv /\ PageInv /\ PagesComplete
  BY DEF CatalogInv
<1>b. /\ total' = total + seed.added /\ seed.added \in Nat /\ total \in Nat
      /\ seed' = [pc |-> "done", todo |-> {}, last |-> Nobody, added |-> 0, locked |-> FALSE]
      /\ draft' = [s \in Slugs |-> 0]
      /\ UNCHANGED <<appVars, req, browseVars>>
      /\ owner' \in [Keys -> Requests \cup {Nobody, Seed}] /\ place' \in [Slugs -> Nat]
  BY <1>a, CommitChanges
<1>c. \A s \in Slugs : draft[s] > 0 =>
               /\ owner[s] = Nobody /\ owner'[s] = Seed
               /\ place[s] = 0 /\ place'[s] = total + draft[s]
  BY <1>a, CommitChanges
<1>d. /\ \A s \in Slugs : ~ draft[s] > 0 => owner'[s] = owner[s] /\ place'[s] = place[s]
      /\ \A k \in Keys : owner'[k] = owner[k] \/ (owner[k] = Nobody /\ owner'[k] = Seed)
  BY <1>a, CommitChanges
<1>e. draft \in [Slugs -> Nat] /\ place \in [Slugs -> Nat] BY <1>a DEF TypeOK
<1>f. \A q \in Requests : q # Seed /\ q # Nobody BY CatalogAssumption
<1>g. Seed # Nobody BY CatalogAssumption
<1>1. TypeOK' BY <1>a, <1>b DEF TypeOK, appVars, browseVars
<1>2. RequestInv'
  <2>1. \A q \in Requests, k \in Keys : owner'[k] = q <=> owner[k] = q BY <1>d, <1>f
  <2> QED BY <1>a, <1>b, <2>1 DEF RequestInv
<1>3. CreatedOwns'
  <2>1. \A q \in Requests, k \in Keys : owner'[k] = q <=> owner[k] = q BY <1>d, <1>f
  <2>2. \A q \in Requests : req[q].answer = "created" => req[q].key \in Keys BY <1>a DEF RequestInv
  <2> QED BY <1>a, <1>b, <2>1, <2>2 DEF CreatedOwns, Keys
<1>4. RegistryInv' BY <1>a, <1>b DEF RegistryInv, appVars
<1>5. SeedInv' BY <1>b DEF SeedInv
<1>6. SeedAllOrNothing'
  <2>1. \A s \in Demo : s \in Slugs /\ (draft[s] > 0 \/ owner[s] # Nobody)
    BY <1>a, CatalogAssumption DEF SeedInv, SeedCommit, Flushes
  <2>2. \A s \in Demo : owner'[s] # Nobody BY <1>c, <1>d, <1>g, <2>1
  <2> QED BY <2>2 DEF SeedAllOrNothing
<1>7. PlaceInv'
  <2>1. \A s \in Slugs : place'[s] > 0 <=> owner'[s] # Nobody
    <3> SUFFICES ASSUME NEW s \in Slugs PROVE place'[s] > 0 <=> owner'[s] # Nobody OBVIOUS
    <3>1. CASE draft[s] > 0 BY <1>b, <1>c, <1>e, <1>g, <3>1
    <3>2. CASE ~ draft[s] > 0 BY <1>a, <1>d, <3>2 DEF PlaceInv
    <3> QED BY <3>1, <3>2
  <2>2. \A s \in Slugs : place'[s] <= total' /\ draft'[s] <= seed'.added
    <3> SUFFICES ASSUME NEW s \in Slugs PROVE place'[s] <= total' /\ draft'[s] <= seed'.added OBVIOUS
    <3>1. draft[s] <= seed.added /\ place[s] <= total BY <1>a DEF PlaceInv
    <3>2. draft'[s] <= seed'.added BY <1>b
    <3>3. CASE draft[s] > 0 BY <1>b, <1>c, <1>e, <3>1, <3>2, <3>3
    <3>4. CASE ~ draft[s] > 0 BY <1>b, <1>d, <1>e, <3>1, <3>2, <3>4
    <3> QED BY <3>3, <3>4
  <2>3. \A i \in 1 .. total' : \E s \in Slugs : place'[s] = i
    <3> SUFFICES ASSUME NEW i \in 1 .. total' PROVE \E s \in Slugs : place'[s] = i OBVIOUS
    <3>1. CASE i \in 1 .. total
      <4>1. PICK s \in Slugs : place[s] = i BY <1>a, <3>1 DEF PlaceInv
      <4>2. ~ draft[s] > 0 BY <1>c, <3>1, <4>1
      <4> QED BY <1>d, <4>1, <4>2
    <3>2. CASE i \notin 1 .. total
      <4>1. i - total \in 1 .. seed.added BY <1>b, <3>2
      <4>2. PICK s \in Slugs : draft[s] = i - total BY <1>a, <4>1 DEF PlaceInv
      <4>3. draft[s] > 0 /\ total + draft[s] = i BY <1>b, <4>1, <4>2
      <4> QED BY <1>c, <4>3
    <3> QED BY <3>1, <3>2
  <2>4. \A i \in 1 .. seed'.added : \E s \in Slugs : draft'[s] = i BY <1>b
  <2> QED BY <2>1, <2>2, <2>3, <2>4 DEF PlaceInv
<1>h. browse' = browse /\ shown' = shown /\ Reach' = Reach BY <1>b DEF browseVars, Reach
<1>i. browse.start \in Nat /\ shown \in [Slugs -> Nat] BY <1>a DEF TypeOK
<1>j. \A s \in Slugs : /\ place[s] > 0 => place'[s] = place[s]
                       /\ place'[s] <= browse.start => place'[s] = place[s]
  <2> SUFFICES ASSUME NEW s \in Slugs
               PROVE  /\ place[s] > 0 => place'[s] = place[s]
                      /\ place'[s] <= browse.start => place'[s] = place[s]
    OBVIOUS
  <2>1. CASE draft[s] > 0 BY <1>a, <1>b, <1>c, <1>e, <1>i, <2>1 DEF PageInv
  <2>2. CASE ~ draft[s] > 0 BY <1>d, <2>2
  <2> QED BY <2>1, <2>2
<1>8. PageInv'
  <2>1. browse.start <= total' BY <1>a, <1>b, <1>i DEF PageInv
  <2> QED BY <1>a, <1>h, <1>j, <2>1 DEF PageInv
<1>9. PagesComplete' BY <1>a, <1>h, <1>j DEF PagesComplete
<1> QED BY <1>1, <1>2, <1>3, <1>4, <1>5, <1>6, <1>7, <1>8, <1>9 DEF CatalogInv

-----------------------------------------------------------------------------
\* The client that pages.

LEMMA LimitPositive ==
  ASSUME NEW size \in Int
  PROVE  Limit(size) \in Nat \ {0}
BY CatalogAssumption DEF Limit, Smaller

LEMMA OffsetSteps ==
  ASSUME NEW size \in Int, NEW page \in Nat \ {0}
  PROVE  /\ Offset(page, size) \in Nat
         /\ Offset(1, size) = 0
         /\ Offset(page + 1, size) = Offset(page, size) + Limit(size)
<1>1. Limit(size) \in Nat BY LimitPositive
<1> DEFINE L == Limit(size)
<1>2. L \in Nat BY <1>1
<1>3. \A n \in Nat : n * L \in Nat /\ (n + 1) * L = n * L + L /\ 0 * L = 0
  <2> HIDE DEF L
  <2> QED BY <1>2
<1>4. page - 1 \in Nat /\ (page + 1) - 1 = (page - 1) + 1 OBVIOUS
<1>5. Offset(page, size) = (page - 1) * L /\ Offset(page + 1, size) = ((page + 1) - 1) * L
      /\ Offset(1, size) = (1 - 1) * L
  BY DEF Offset
<1> HIDE DEF L
<1>6. (1 - 1) * L = 0 BY <1>2
<1>7. Offset(page + 1, size) = (page - 1) * L + L BY <1>3, <1>4, <1>5
<1>8. Offset(page, size) \in Nat BY <1>3, <1>4, <1>5
<1> QED BY <1>5, <1>6, <1>7, <1>8 DEF L

LEMMA BrowseBeginKeeps ==
  ASSUME CatalogInv, NEW size \in Sizes, BrowseBegin(size)
  PROVE  TypeOK' /\ Paged'
<1>a. TypeOK BY DEF CatalogInv
<1>b. size \in Int BY CatalogAssumption
<1>1. /\ browse' = [pc |-> "run", size |-> size, page |-> 1, start |-> total]
      /\ shown' = [s \in Slugs |-> 0]
      /\ UNCHANGED <<appVars, req, tableVars, seedVars>>
  BY DEF BrowseBegin
<1>2. TypeOK' BY <1>a, <1>b, <1>1 DEF TypeOK, appVars, tableVars, seedVars
<1>3. Reach' = 0
  <2>1. Reach' = Offset(1, size) BY <1>1 DEF Reach, Offset, Limit, Smaller
  <2>2. Offset(1, size) = 0 BY <1>b, OffsetSteps
  <2> QED BY <2>1, <2>2
<1>4. PageInv' BY <1>1, <1>3, <1>a DEF PageInv, TypeOK, tableVars
<1>5. PagesComplete' BY <1>1 DEF PagesComplete
<1> QED BY <1>2, <1>4, <1>5 DEF Paged

LEMMA BrowseAgentsKeeps ==
  ASSUME CatalogInv, BrowseAgents
  PROVE  TypeOK' /\ Paged'
<1>a. TypeOK /\ PlaceInv /\ PageInv /\ PagesComplete BY DEF CatalogInv
<1>b. /\ browse \in [pc : {"idle", "run", "done"}, size : Int, page : Nat \ {0}, start : Nat]
      /\ shown \in [Slugs -> Nat] /\ place \in [Slugs -> Nat] /\ total \in Nat
  BY <1>a DEF TypeOK
<1>c. browse.size \in Int /\ browse.page \in Nat \ {0} /\ browse.start \in Nat BY <1>b
<1> DEFINE L == Limit(browse.size)
           P == PageOf(browse.page, browse.size)
<1>d. L \in Nat /\ L > 0 /\ Reach \in Nat
      /\ Offset(browse.page + 1, browse.size) = Reach + L
  <2>1. L \in Nat \ {0} BY <1>c, LimitPositive
  <2>2. /\ Offset(browse.page, browse.size) \in Nat
        /\ Offset(browse.page + 1, browse.size) = Offset(browse.page, browse.size) + Limit(browse.size)
    BY <1>c, OffsetSteps
  <2>3. Reach \in Nat /\ Offset(browse.page + 1, browse.size) = Reach + L BY <2>2 DEF Reach
  <2> HIDE DEF L
  <2> QED BY <2>1, <2>3
<1>e. P = {s \in Slugs : place[s] > Reach /\ place[s] <= Reach + L} BY DEF PageOf, Reach
<1>f. /\ browse.pc = "run"
      /\ shown' = [s \in Slugs |-> IF s \in P THEN shown[s] + 1 ELSE shown[s]]
      /\ UNCHANGED <<appVars, req, tableVars, seedVars>>
  BY DEF BrowseAgents
<1>g. place' = place /\ total' = total BY <1>f DEF tableVars
<1>h. P # {} => browse' = [browse EXCEPT !.page = @ + 1] BY DEF BrowseAgents
<1>i. P = {} => browse' = [pc |-> "done", size |-> 1, page |-> 1, start |-> browse.start]
  BY DEF BrowseAgents, NotPaging
<1> HIDE DEF L, P
<1>j. shown' \in [Slugs -> Nat] BY <1>b, <1>f
<1>k. \A s \in Slugs : shown[s] > 0 => place[s] > 0 /\ place[s] <= Reach
  BY <1>a, <1>f DEF PageInv
<1>l. \A s \in Slugs : shown'[s] <= 1
  <2> SUFFICES ASSUME NEW s \in Slugs PROVE shown'[s] <= 1 OBVIOUS
  <2>1. shown[s] \in Nat /\ shown[s] <= 1 /\ place[s] \in Nat BY <1>a, <1>b DEF PagesComplete
  <2>2. CASE s \in P
    <3>1. place[s] > Reach BY <1>e, <2>2
    <3>2. ~ shown[s] > 0 BY <1>k, <1>d, <2>1, <3>1
    <3> QED BY <1>f, <2>1, <2>2, <3>2
  <2>3. CASE s \notin P BY <1>f, <2>1, <2>3
  <2> QED BY <2>2, <2>3
<1>1. CASE P # {}
  <2>1. /\ browse' \in [pc : {"idle", "run", "done"}, size : Int, page : Nat \ {0}, start : Nat]
        /\ browse'.pc = "run" /\ browse'.size = browse.size /\ browse'.start = browse.start
        /\ browse'.page = browse.page + 1
    BY <1>b, <1>f, <1>h, <1>1
  <2>2. TypeOK' BY <1>a, <1>f, <1>j, <2>1 DEF TypeOK, appVars, tableVars, seedVars
  <2>3. Reach' = Reach + L
    <3>1. Reach' = Offset(browse.page + 1, browse.size) BY <2>1 DEF Reach, Offset, Limit, Smaller
    <3> QED BY <1>d, <3>1
  <2>4. PageInv'
    <3> SUFFICES ASSUME NEW s \in Slugs
                 PROVE  /\ shown'[s] > 0 => place'[s] > 0 /\ place'[s] <= Reach'
                        /\ place'[s] > 0 /\ place'[s] <= browse'.start /\ place'[s] <= Reach'
                              => shown'[s] = 1
      BY <1>a, <1>g, <2>1 DEF PageInv
    <3>a. place[s] \in Nat /\ shown[s] \in Nat BY <1>b
    <3>1. CASE s \in P
      <4>1. place[s] > Reach /\ place[s] <= Reach + L BY <1>e, <3>1
      <4>2. ~ shown[s] > 0 BY <1>k, <1>d, <3>a, <4>1
      <4>3. shown'[s] = 1 BY <1>f, <3>1, <3>a, <4>2
      <4> QED BY <1>d, <1>g, <2>3, <3>a, <4>1, <4>3
    <3>2. CASE s \notin P
      <4>1. shown'[s] = shown[s] BY <1>f, <3>2
      <4>2. place[s] <= Reach \/ place[s] > Reach + L BY <1>d, <1>e, <3>2, <3>a
      <4>3. place[s] > 0 /\ place[s] <= browse.start /\ place[s] <= Reach => shown[s] = 1
        BY <1>a, <1>f DEF PageInv
      <4>4. shown[s] > 0 => place[s] > 0 /\ place[s] <= Reach BY <1>k
      <4> QED BY <1>c, <1>d, <1>g, <2>1, <2>3, <3>a, <4>1, <4>2, <4>3, <4>4
    <3> QED BY <3>1, <3>2
  <2>5. PagesComplete' BY <1>l, <2>1 DEF PagesComplete
  <2> QED BY <2>2, <2>4, <2>5 DEF Paged
<1>2. CASE P = {}
  <2>1. TypeOK' BY <1>a, <1>c, <1>f, <1>i, <1>j, <1>2 DEF TypeOK, appVars, tableVars, seedVars
  <2>2. total <= Reach
    <3> SUFFICES ASSUME total > Reach PROVE FALSE BY <1>b, <1>d
    <3>1. Reach + 1 \in 1 .. total BY <1>b, <1>d
    <3>2. PICK s \in Slugs : place[s] = Reach + 1 BY <1>a, <3>1 DEF PlaceInv
    <3>3. s \in P BY <1>d, <1>e, <3>2
    <3> QED BY <1>2, <3>3
  <2>3. \A s \in Slugs : shown'[s] = shown[s] BY <1>f, <1>2
  <2>4. PageInv' BY <1>a, <1>g, <1>i, <1>2 DEF PageInv
  <2>5. PagesComplete'
    <3> SUFFICES ASSUME NEW s \in Slugs, place[s] > 0, place[s] <= browse.start
                 PROVE  shown[s] = 1
      BY <1>g, <1>i, <1>l, <1>2, <2>3 DEF PagesComplete
    <3>1. place[s] <= Reach BY <1>a, <1>b, <1>c, <1>d, <2>2 DEF PageInv
    <3> QED BY <1>a, <1>f, <3>1 DEF PageInv
  <2> QED BY <2>1, <2>4, <2>5 DEF Paged
<1> QED BY <1>1, <1>2

-----------------------------------------------------------------------------
\* The server starts again.

LEMMA RestartKeeps ==
  ASSUME TypeOK, Asked, Restart
  PROVE  TypeOK' /\ Asked'
<1>a. RequestInv /\ CreatedOwns BY DEF Asked
<1>b. /\ bootstrapped' = FALSE /\ registry' = {} /\ owner' = owner
      /\ UNCHANGED <<tableVars, seedVars, browseVars>>
  BY DEF Restart, tableVars
<1>1. \A r \in Requests :
        \/ req[r].pc \in {"new", "done"} /\ req'[r] = req[r]
        \/ req[r].pc \notin {"new", "done"} /\ req'[r] = Answered("lost")
  BY DEF Restart
<1>2. Answered("lost") \in RequestRecords BY DEF Answered, RequestRecords
<1>3. req' \in [Requests -> RequestRecords]
  <2>1. \A r \in Requests : req[r] \in RequestRecords BY DEF TypeOK
  <2>2. req' = [r \in Requests |-> IF req[r].pc \in {"new", "done"} THEN req[r] ELSE Answered("lost")]
    BY DEF Restart
  <2> QED BY <1>2, <2>1, <2>2
<1>4. TypeOK' BY <1>b, <1>3 DEF TypeOK, tableVars, seedVars, browseVars
<1>5. RequestInv'
  <2> SUFFICES ASSUME NEW r \in Requests
               PROVE  /\ req'[r].pc = "new" => req'[r] = NotSent
                      /\ req'[r].pc \in {"check", "set", "load", "lookup"} => req'[r].op \in {"publish", "execute"}
                      /\ req'[r].op = "publish" => req'[r].key \in Slugs
                      /\ req'[r].pc \in {"select", "insert"} =>
                            req'[r].key \in Emails \/ (req'[r].key \in Slugs /\ req'[r].type \in Types)
                      /\ req'[r].answer = "created" <=> \E k \in Keys : owner[k] = r
                      /\ req'[r].answer = "created" => req'[r].key \in Keys
                      /\ req'[r].answer # "none" <=> req'[r].pc = "done"
    BY <1>b DEF RequestInv
  <2>1. CASE req'[r] = req[r] BY <1>a, <2>1 DEF RequestInv
  <2>2. CASE req[r].pc \notin {"new", "done"} /\ req'[r] = Answered("lost")
    BY <1>a, <2>2 DEF RequestInv, Answered
  <2> QED BY <1>1, <2>1, <2>2
<1>6. CreatedOwns'
  <2> SUFFICES ASSUME NEW r \in Requests
               PROVE  /\ req'[r].answer = "created" => owner[req'[r].key] = r
                      /\ \A s \in Slugs : owner[s] = r => req'[r].key = s /\ req'[r].type \in Types
    BY <1>b DEF CreatedOwns
  <2>1. CASE req'[r] = req[r] BY <1>a, <2>1 DEF CreatedOwns
  <2>2. CASE req[r].pc \notin {"new", "done"} /\ req'[r] = Answered("lost")
    BY <1>a, <2>2 DEF RequestInv, Answered, Keys
  <2> QED BY <1>1, <2>1, <2>2
<1>7. RegistryInv'
  <2>1. \A r \in Requests : req'[r].pc \in {"new", "done"} BY <1>1 DEF Answered
  <2> QED BY <1>b, <2>1 DEF RegistryInv
<1> QED BY <1>4, <1>5, <1>6, <1>7 DEF Asked

-----------------------------------------------------------------------------
\* The theorems.

LEMMA InitHolds == Init => CatalogInv
<1> SUFFICES ASSUME Init PROVE CatalogInv OBVIOUS
<1>1. \A r \in Requests : req[r] = [op |-> "none", pc |-> "new", key |-> Nobody, type |-> Nobody, answer |-> "none"]
  BY DEF Init, NotSent
<1>2. \A k \in Keys : owner[k] = Nobody BY DEF Init
<1>a. \A r \in Requests, k \in Keys : owner[k] # r BY <1>2, CatalogAssumption
<1>3. TypeOK
  <2>1. NotSent \in RequestRecords BY DEF NotSent, RequestRecords
  <2>2. NotSeeding \in [pc : {"idle", "run", "done"}, todo : SUBSET Demo, last : Demo \cup {Nobody},
                        added : Nat, locked : BOOLEAN]
    BY DEF NotSeeding
  <2>3. NotPaging \in [pc : {"idle", "run", "done"}, size : Int, page : Nat \ {0}, start : Nat]
    BY DEF NotPaging
  <2> QED BY <2>1, <2>2, <2>3 DEF Init, TypeOK
<1>b. \A r \in Requests : /\ req[r] = NotSent /\ req[r].op = "none" /\ req[r].pc = "new"
                           /\ req[r].answer = "none"
  <2>1. \A r \in Requests : req[r] = NotSent BY DEF Init
  <2>2. NotSent.op = "none" /\ NotSent.pc = "new" /\ NotSent.answer = "none" BY DEF NotSent
  <2> QED BY <2>1, <2>2
<1>4. RequestInv BY <1>b, <1>a DEF RequestInv
<1>c. \A r \in Requests, s \in Slugs : owner[s] # r BY <1>a DEF Keys
<1>5. CreatedOwns BY <1>b, <1>c DEF CreatedOwns
<1>6. RegistryInv BY <1>1 DEF Init, RegistryInv
<1>7. SeedInv BY DEF Init, SeedInv, NotSeeding
<1>8. SeedAllOrNothing BY <1>2, CatalogAssumption DEF Init, SeedAllOrNothing, NotSeeding, Keys
<1>9. PlaceInv BY <1>2 DEF Init, PlaceInv, NotSeeding, Keys
<1>10. PageInv /\ PagesComplete BY DEF Init, PageInv, PagesComplete, NotPaging
<1> QED BY <1>3, <1>4, <1>5, <1>6, <1>7, <1>8, <1>9, <1>10 DEF CatalogInv

LEMMA StepHolds == CatalogInv /\ [Next]_vars => CatalogInv'
<1> SUFFICES ASSUME CatalogInv, [Next]_vars PROVE CatalogInv' OBVIOUS
<1>a. TypeOK /\ Asked /\ Seeded /\ PlaceInv /\ Paged BY Parts
<1>b. SeedInv /\ SeedAllOrNothing BY <1>a DEF Seeded
<1>1. ASSUME NEW r \in Requests, Arrive(r) PROVE CatalogInv'
  <2>1. TypeOK' /\ Asked' BY <1>a, <1>1, ArriveKeeps
  <2>2. UNCHANGED <<tableVars, seedVars, browseVars>>
    BY <1>1 DEF Arrive, Publish, Register, Execute, Send
  <2> QED BY <1>a, <2>1, <2>2, SeededKept, PlacesKept, PagedKept, PartsNext
<1>2. ASSUME NEW r \in Requests, Advance(r) PROVE CatalogInv'
  <2>1. CASE InsertRow(r) BY <2>1, InsertKeeps
  <2>2. CASE ~ InsertRow(r)
    <3>1. TypeOK' /\ Asked' /\ UNCHANGED <<tableVars, seedVars, browseVars>>
      BY <1>a, <1>2, <2>2, AdvanceKeeps
    <3> QED BY <1>a, <3>1, SeededKept, PlacesKept, PagedKept, PartsNext
  <2> QED BY <2>1, <2>2
<1>3. CASE SeedBegin \/ SeedFails
  <2>1. TypeOK' /\ Seeded' /\ PlaceInv' BY <1>3, <1>a, <1>b, SeedBeginKeeps, SeedFailsKeeps
  <2>2. UNCHANGED <<appVars, req, tableVars, browseVars>> BY <1>3 DEF SeedBegin, SeedFails
  <2>3. UNCHANGED <<appVars, req, owner>> BY <2>2 DEF tableVars
  <2> QED BY <1>a, <2>1, <2>2, <2>3, AskedKept, PagedKept, PartsNext
<1>4. ASSUME NEW s \in Slugs, SeedSlug(s) PROVE CatalogInv'
  <2>1. TypeOK' /\ Seeded' /\ PlaceInv' BY <1>4, <1>a, <1>b, SeedSlugKeeps
  <2>2. UNCHANGED <<appVars, req, tableVars, browseVars>> BY <1>4 DEF SeedSlug
  <2>3. UNCHANGED <<appVars, req, owner>> BY <2>2 DEF tableVars
  <2> QED BY <1>a, <2>1, <2>2, <2>3, AskedKept, PagedKept, PartsNext
<1>5. CASE SeedCommit BY <1>5, SeedCommitKeeps
<1>6. CASE Browser
  <2>1. TypeOK' /\ Paged' BY <1>6, BrowseBeginKeeps, BrowseAgentsKeeps DEF Browser
  <2>2. UNCHANGED <<appVars, req, tableVars, seedVars>>
    BY <1>6 DEF Browser, BrowseBegin, BrowseAgents
  <2>3. UNCHANGED <<appVars, req, owner>> BY <2>2 DEF tableVars
  <2> QED BY <1>a, <2>1, <2>2, <2>3, AskedKept, SeededKept, PlacesKept, PartsNext
<1>7. CASE Restart
  <2>1. TypeOK' /\ Asked' BY <1>7, <1>a, RestartKeeps
  <2>2. UNCHANGED <<tableVars, seedVars, browseVars>> BY <1>7 DEF Restart
  <2> QED BY <1>a, <2>1, <2>2, SeededKept, PlacesKept, PagedKept, PartsNext
<1>8. CASE UNCHANGED vars
  <2>1. UNCHANGED <<appVars, req, tableVars, seedVars, browseVars>> BY <1>8 DEF vars
  <2>2. UNCHANGED <<appVars, req, owner>> BY <2>1 DEF tableVars
  <2>3. TypeOK' BY <1>a, <2>1 DEF TypeOK, appVars, tableVars, seedVars, browseVars
  <2> QED BY <1>a, <2>1, <2>2, <2>3, AskedKept, SeededKept, PlacesKept, PagedKept, PartsNext
<1> QED BY <1>1, <1>2, <1>3, <1>4, <1>5, <1>6, <1>7, <1>8 DEF Next, SeedScript

\* Requests, the registry, the script and the client that pages stay in order
\* together: create_template, register_user, seed() and list_templates.
THEOREM CatalogInvariant == Spec => []CatalogInv
BY InitHolds, StepHolds, PTL DEF Spec

\* create_template, register_user: who is answered 201 owns the row.
THEOREM CreatedOwnsTheorem == Spec => []CreatedOwns
<1>1. CatalogInv => CreatedOwns BY DEF CatalogInv
<1> QED BY <1>1, CatalogInvariant, PTL

\* seed(): all sample agents or none.
THEOREM SeedAllOrNothingTheorem == Spec => []SeedAllOrNothing
<1>1. CatalogInv => SeedAllOrNothing BY DEF CatalogInv
<1> QED BY <1>1, CatalogInvariant, PTL

\* paginate: nothing is shown twice or left out, for any page size.
THEOREM PagesCompleteTheorem == Spec => []PagesComplete
<1>1. CatalogInv => PagesComplete BY DEF CatalogInv
<1> QED BY <1>1, CatalogInvariant, PTL

\* Who denies a task type that has a connector has looked it up.
LEMMA DeniedByLookup ==
  ASSUME TypeOK, Next, NEW r \in Requests, req'[r].answer = "unknown", req[r].answer = "none"
  PROVE  Lookup(r)
<1>1. ASSUME NEW q \in Requests, Arrive(q) PROVE Lookup(r)
  <2>1. PICK op, pc, key, type : Send(q, op, pc, key, type)
    BY <1>1 DEF Arrive, Publish, Register, Execute
  <2>2. req'[r] = req[r] \/ req'[r].answer = "none" BY <2>1 DEF Send, TypeOK
  <2> QED BY <2>2
<1>2. ASSUME NEW q \in Requests, Advance(q) PROVE Lookup(r)
  <2>1. CASE q # r
    <3>1. req'[r] = req[r]
      BY <1>2, <2>1 DEF Advance, CheckBootstrapped, SetBootstrapped, RegisterConnector, RegisterAll,
        Lookup, SelectKey, InsertRow, InsertFails, Goto, Answer, Created, TypeOK
    <3> QED BY <3>1
  <2>2. CASE q = r
    <3>1. ASSUME NEW pc, Goto(r, pc) PROVE req'[r].answer = "none"
      <4>1. req[r] \in RequestRecords BY DEF TypeOK
      <4> QED BY <3>1, <4>1 DEF Goto, TypeOK, RequestRecords
    <3>2. ASSUME NEW answer, Answer(r, answer) PROVE req'[r].answer = answer
      BY <3>2 DEF Answer, Answered, TypeOK
    <3>3. CASE CheckBootstrapped(r) \/ SetBootstrapped(r) \/ RegisterAll(r)
      BY <3>1, <3>3 DEF CheckBootstrapped, SetBootstrapped, RegisterAll
    <3>4. CASE \E t \in Types : RegisterConnector(r, t) BY <3>4 DEF RegisterConnector
    <3>5. CASE SelectKey(r) BY <3>1, <3>2, <3>5 DEF SelectKey
    <3>6. CASE InsertFails(r) BY <3>2, <3>6 DEF InsertFails
    <3>7. CASE InsertRow(r)
      <4>1. req[r] \in RequestRecords BY DEF TypeOK
      <4>2. req'[r].answer = "created" BY <3>7, <4>1 DEF InsertRow, Created, TypeOK, RequestRecords
      <4> QED BY <4>2
    <3> QED BY <1>2, <2>2, <3>3, <3>4, <3>5, <3>6, <3>7 DEF Advance
  <2> QED BY <2>1, <2>2
<1>3. CASE SeedScript BY <1>3 DEF SeedScript, SeedBegin, SeedSlug, SeedCommit, SeedFails
<1>4. CASE Browser BY <1>4 DEF Browser, BrowseBegin, BrowseAgents
<1>5. CASE Restart BY <1>5 DEF Restart, Answered
<1> QED BY <1>1, <1>2, <1>3, <1>4, <1>5 DEF Next

\* is_registered, get_connector: a task type that has a connector is denied only
\* while a worker fills the registry.
THEOREM DeniedTheorem == Spec => DeniedOnlyWhileLoading
<1> DEFINE Denied ==
      \A r \in Requests :
          req'[r].answer = "unknown" /\ req[r].answer = "none" /\ req[r].type \in Types
              => \E q \in Requests : req[q].pc = "load"
<1>1. CatalogInv /\ [Next]_vars => [Denied]_vars
  <2> SUFFICES ASSUME CatalogInv, Next, NEW r \in Requests,
                      req'[r].answer = "unknown", req[r].answer = "none", req[r].type \in Types
               PROVE  \E q \in Requests : req[q].pc = "load"
    OBVIOUS
  <2>1. TypeOK /\ RegistryInv BY DEF CatalogInv
  <2>2. Lookup(r) BY <2>1, DeniedByLookup
  <2>3. req[r].pc = "lookup" /\ req[r].type \notin registry
    <3>1. ASSUME Goto(r, "select") PROVE FALSE
      <4>1. req[r] \in RequestRecords BY <2>1 DEF TypeOK
      <4>2. req'[r].answer = "none" BY <2>1, <3>1, <4>1 DEF Goto, TypeOK, RequestRecords
      <4> QED BY <4>2
    <3>2. ASSUME Answer(r, "found") PROVE FALSE
      BY <2>1, <3>2 DEF Answer, Answered, TypeOK
    <3> QED BY <2>2, <3>1, <3>2 DEF Lookup
  <2> QED BY <2>1, <2>3 DEF RegistryInv
<1> HIDE DEF Denied
<1>2. Spec => [][Denied]_vars BY <1>1, CatalogInvariant, PTL DEF Spec
<1> QED BY <1>2 DEF Denied, DeniedOnlyWhileLoading

-----------------------------------------------------------------------------
(* What RequestsAnswered rests on besides fairness.                          *)

\* How far it is to the answer.
Place(pc) ==
    CASE pc = "check" -> 6 [] pc = "set" -> 5 [] pc = "load" -> 4 [] pc = "lookup" -> 3
      [] pc = "select" -> 2 [] pc = "insert" -> 1 [] OTHER -> 0

LEMMA AdvanceNearer ==
  ASSUME TypeOK, RequestInv, NEW r \in Requests, NEW q \in Requests, Advance(q)
  PROVE  req'[r] = req[r] \/ Place(req'[r].pc) < Place(req[r].pc)
<1>a. req[r] \in RequestRecords BY DEF TypeOK
<1>1. CASE q # r
  BY <1>1 DEF Advance, CheckBootstrapped, SetBootstrapped, RegisterConnector, RegisterAll,
     Lookup, SelectKey, InsertRow, InsertFails, Goto, Answer, Created, TypeOK
<1>2. CASE q = r
  <2>1. ASSUME NEW pc, Goto(r, pc) PROVE req'[r].pc = pc
    BY <2>1, <1>a DEF Goto, TypeOK, RequestRecords
  <2>2. ASSUME NEW answer, Answer(r, answer) PROVE req'[r].pc = "done"
    BY <2>2 DEF Answer, Answered, TypeOK
  <2>3. Created(r) => req'[r].pc = "done" BY <1>a DEF Created, TypeOK, RequestRecords
  <2>4. CASE CheckBootstrapped(r) \/ SetBootstrapped(r) \/ RegisterAll(r)
    BY <2>1, <2>4 DEF CheckBootstrapped, SetBootstrapped, RegisterAll, Place
  <2>5. CASE \E t \in Types : RegisterConnector(r, t) BY <2>5 DEF RegisterConnector
  <2>6. CASE Lookup(r) BY <2>1, <2>2, <2>6 DEF Lookup, Place
  <2>7. CASE SelectKey(r) BY <2>1, <2>2, <2>7 DEF SelectKey, Place
  <2>8. CASE InsertRow(r) BY <2>3, <2>8 DEF InsertRow, Place
  <2>9. CASE InsertFails(r) BY <2>2, <2>9 DEF InsertFails, Place
  <2> QED BY <1>2, <2>4, <2>5, <2>6, <2>7, <2>8, <2>9 DEF Advance
<1> QED BY <1>1, <1>2

\* Requests only go forward, from the registry to the table to their answer, and an
\* answer stands, whatever happens to the server and the table afterwards.  The one step
\* that leaves its request where it is fills the registry, which has an end.
THEOREM NearerTheorem ==
  Spec => [][\A r \in Requests : req[r].pc # "new" =>
                req'[r] = req[r] \/ Place(req'[r].pc) < Place(req[r].pc)]_vars
<1>1. ASSUME CatalogInv, [Next]_vars, NEW r \in Requests, req[r].pc # "new"
      PROVE  req'[r] = req[r] \/ Place(req'[r].pc) < Place(req[r].pc)
  <2>a. TypeOK /\ RequestInv /\ req[r] \in RequestRecords BY <1>1 DEF CatalogInv, TypeOK
  <2>1. ASSUME NEW q \in Requests, Arrive(q) PROVE req'[r] = req[r]
    <3>1. PICK op, pc, key, type : Send(q, op, pc, key, type)
      BY <2>1 DEF Arrive, Publish, Register, Execute
    <3>2. q # r BY <1>1, <3>1 DEF Send, NotSent
    <3> QED BY <2>a, <3>1, <3>2 DEF Send, TypeOK
  <2>2. ASSUME NEW q \in Requests, Advance(q)
        PROVE  req'[r] = req[r] \/ Place(req'[r].pc) < Place(req[r].pc)
    BY <2>2, <2>a, AdvanceNearer
  <2>3. CASE SeedScript BY <2>3 DEF SeedScript, SeedBegin, SeedSlug, SeedCommit, SeedFails
  <2>4. CASE Browser BY <2>4 DEF Browser, BrowseBegin, BrowseAgents
  <2>5. CASE Restart
    <3>1. req[r].pc = "done" => req'[r] = req[r] BY <2>5 DEF Restart
    <3>2. req[r].pc # "done" => req'[r].pc = "done" BY <1>1, <2>5 DEF Restart, Answered
    <3>3. req[r].pc # "done" => Place(req[r].pc) > 0 BY <1>1, <2>a DEF Place, RequestRecords
    <3>4. Place("done") = 0 BY DEF Place
    <3> QED BY <3>1, <3>2, <3>3, <3>4
  <2>6. CASE UNCHANGED vars BY <2>6 DEF vars
  <2> QED BY <1>1, <2>1, <2>2, <2>3, <2>4, <2>5, <2>6 DEF Next
<1>2. CatalogInv /\ [Next]_vars =>
        [\A r \in Requests : req[r].pc # "new" =>
                req'[r] = req[r] \/ Place(req'[r].pc) < Place(req[r].pc)]_vars
  BY <1>1
<1> QED BY <1>2, CatalogInvariant, PTL DEF Spec

=============================================================================
