------------------------------ MODULE Catalog ------------------------------
(***************************************************************************)
(* app/marketplace and app/auth as tables with a UNIQUE column that        *)
(* requests check and then insert into, the connector registry that the    *)
(* first request of a server process fills, scripts/seed_demo_data.py,     *)
(* which writes the same table from a process of its own, and a client     *)
(* that reads the marketplace page by page.                                *)
(*                                                                         *)
(* Requests run on threads, and interleave between any two statements.     *)
(* The database is SQLite, the default: one writer at a time, which holds  *)
(* the write lock from its first INSERT to its commit.                     *)
(***************************************************************************)
EXTENDS Integers

CONSTANTS
    Requests,       \* requests, each with a worker of its own
    Slugs,          \* slugs of agent templates
    Emails,         \* e-mail addresses of users
    Types,          \* task types that register_all registers
    TypesAsked,     \* task types that somebody publishes a template for
    Demo,           \* slugs of SAMPLE_AGENTS
    MaxSize,        \* the limit of paginate, 100
    Sizes,          \* page sizes that a client asks for; any integer is accepted
    Nobody, Seed

ASSUME CatalogAssumption ==
    /\ Slugs \cap Emails = {} /\ Nobody \notin Slugs \cup Emails
    /\ Demo \subseteq Slugs
    /\ MaxSize \in Nat \ {0}
    /\ Sizes \subseteq Int
    /\ Nobody \notin Requests /\ Seed \notin Requests /\ Nobody # Seed

VARIABLES
    bootstrapped,   \* _bootstrapped
    registry,       \* keys of _REGISTRY
    req,            \* the requests
    owner,          \* who inserted the row with this slug or e-mail address
    place,          \* position of a template in the table, 0 for none
    total,          \* number of templates
    seed,           \* the seed script
    draft,          \* positions of its rows among those it adds
    browse,         \* the client that pages: its page size, next page, and how many there were
    shown           \* how often it was shown a template

appVars    == <<bootstrapped, registry>>
tableVars  == <<owner, place, total>>
seedVars   == <<seed, draft>>
browseVars == <<browse, shown>>
vars == <<appVars, req, tableVars, seedVars, browseVars>>

Keys == Slugs \cup Emails

NotSent    == [op |-> "none", pc |-> "new", key |-> Nobody, type |-> Nobody, answer |-> "none"]
NotSeeding == [pc |-> "idle", todo |-> {}, last |-> Nobody, added |-> 0, locked |-> FALSE]
NotPaging  == [pc |-> "idle", size |-> 1, page |-> 1, start |-> 0]

Goto(r, pc) == req' = [req EXCEPT ![r].pc = pc]

Answered(answer) == [op |-> "none", pc |-> "done", key |-> Nobody, type |-> Nobody, answer |-> answer]

Answer(r, answer) == req' = [req EXCEPT ![r] = Answered(answer)]

\* 201: what was asked for is now in the table.
Created(r) == req' = [req EXCEPT ![r].pc = "done", ![r].answer = "created"]

-----------------------------------------------------------------------------
\* Requests arrive.

Send(r, op, pc, key, type) ==
    /\ req[r] = NotSent
    /\ req' = [req EXCEPT ![r] = [op |-> op, pc |-> pc, key |-> key, type |-> type, answer |-> "none"]]
    /\ UNCHANGED <<appVars, tableVars, seedVars, browseVars>>

\* POST /marketplace/agents asks the registry first, POST /auth/register goes
\* straight to its table.
Publish(r, s, t) == Send(r, "publish", "check", s, t)

Register(r, e) == Send(r, "register", "select", e, Nobody)

\* execute of an instance of template s looks its connector up.
Execute(r, s, t) ==
    /\ owner[s] # Nobody
    /\ t = IF owner[s] = Seed THEN t ELSE req[owner[s]].type
    /\ Send(r, "execute", "check", s, t)

-----------------------------------------------------------------------------
\* _ensure_bootstrapped and the lookup that follows.

\* A thread switch may come between the test of _bootstrapped and its setting.
CheckBootstrapped(r) ==
    /\ req[r].pc = "check"
    /\ Goto(r, IF bootstrapped THEN "lookup" ELSE "set")
    /\ UNCHANGED <<appVars, tableVars, seedVars, browseVars>>

SetBootstrapped(r) ==
    /\ req[r].pc = "set"
    /\ bootstrapped' = TRUE
    /\ Goto(r, "load")
    /\ UNCHANGED <<registry, tableVars, seedVars, browseVars>>

\* register_all: the imports, then one connector after the other.
RegisterConnector(r, t) ==
    /\ req[r].pc = "load"
    /\ t \notin registry
    /\ registry' = registry \cup {t}
    /\ UNCHANGED <<bootstrapped, req, tableVars, seedVars, browseVars>>

\* Mutant: register_all may leave a connector out.
RegisterSome(r) ==
    /\ req[r].pc = "load"
    /\ Goto(r, "lookup")
    /\ UNCHANGED <<appVars, tableVars, seedVars, browseVars>>

RegisterAll(r) ==
    /\ req[r].pc = "load"
    /\ registry = Types
    /\ Goto(r, "lookup")
    /\ UNCHANGED <<appVars, tableVars, seedVars, browseVars>>

\* is_registered: 409 if not.  get_connector: a KeyError, 500, if not.
Lookup(r) ==
    /\ req[r].pc = "lookup"
    /\ IF req[r].op = "publish"
       THEN IF req[r].type \in registry THEN Goto(r, "select") ELSE Answer(r, "unknown")
       ELSE Answer(r, IF req[r].type \in registry THEN "found" ELSE "unknown")
    /\ UNCHANGED <<appVars, tableVars, seedVars, browseVars>>

-----------------------------------------------------------------------------
\* Check, then insert.

SelectKey(r) ==
    /\ req[r].pc = "select"
    /\ IF owner[req[r].key] # Nobody THEN Answer(r, "taken") ELSE Goto(r, "insert")
    /\ UNCHANGED <<appVars, tableVars, seedVars, browseVars>>

\* Mutant: no UNIQUE constraint on the column.
InsertAnyway(r) ==
    /\ req[r].pc = "insert"
    /\ ~ seed.locked
    /\ owner' = [owner EXCEPT ![req[r].key] = r]
    /\ IF req[r].key \in Slugs
       THEN place' = [place EXCEPT ![req[r].key] = total + 1] /\ total' = total + 1
       ELSE UNCHANGED <<place, total>>
    /\ Created(r)
    /\ UNCHANGED <<appVars, seedVars, browseVars>>

\* INSERT and commit.
InsertRow(r) ==
    /\ req[r].pc = "insert"
    /\ ~ seed.locked
    /\ owner[req[r].key] = Nobody
    /\ owner' = [owner EXCEPT ![req[r].key] = r]
    /\ IF req[r].key \in Slugs
       THEN place' = [place EXCEPT ![req[r].key] = total + 1] /\ total' = total + 1
       ELSE UNCHANGED <<place, total>>
    /\ Created(r)
    /\ UNCHANGED <<appVars, seedVars, browseVars>>

\* Mutant: a writer that waits for the lock without limit.
InsertWaits(r) ==
    /\ req[r].pc = "insert"
    /\ ~ seed.locked
    /\ owner[req[r].key] # Nobody
    /\ Answer(r, "error")
    /\ UNCHANGED <<appVars, tableVars, seedVars, browseVars>>

\* The UNIQUE constraint, or a lock that is held for more than five seconds: 500.
InsertFails(r) ==
    /\ req[r].pc = "insert"
    /\ seed.locked \/ owner[req[r].key] # Nobody
    /\ Answer(r, "error")
    /\ UNCHANGED <<appVars, tableVars, seedVars, browseVars>>

-----------------------------------------------------------------------------
\* The seed script.

SeedBegin ==
    /\ seed.pc # "run"
    /\ seed' = [NotSeeding EXCEPT !.pc = "run", !.todo = Demo]
    /\ draft' = [s \in Slugs |-> 0]
    /\ UNCHANGED <<appVars, req, tableVars, browseVars>>

\* Before a SELECT the session flushes the row it has just been given.
Flushes == seed.pc = "run" /\ (seed.last # Nobody => owner[seed.last] = Nobody)

\* One round of the loop, in any order: an existing slug is skipped.
SeedSlug(s) ==
    /\ Flushes
    /\ s \in seed.todo
    /\ seed' = [seed EXCEPT
          !.todo = @ \ {s},
          !.locked = @ \/ seed.last # Nobody,
          !.last = IF owner[s] = Nobody THEN s ELSE Nobody,
          !.added = IF owner[s] = Nobody THEN @ + 1 ELSE @]
    /\ draft' = [draft EXCEPT ![s] = IF owner[s] = Nobody THEN seed.added + 1 ELSE 0]
    /\ UNCHANGED <<appVars, req, tableVars, browseVars>>

\* The rows of the draft become visible at once.
Commit ==
    /\ owner' = [k \in Keys |-> IF k \in Slugs /\ draft[k] > 0 THEN Seed ELSE owner[k]]
    /\ place' = [s \in Slugs |-> IF draft[s] > 0 THEN total + draft[s] ELSE place[s]]
    /\ total' = total + seed.added
    /\ draft' = [s \in Slugs |-> 0]

\* Mutant: the commit inside the loop.
SeedCommitEach ==
    /\ Flushes
    /\ seed' = IF seed.todo = {} THEN [NotSeeding EXCEPT !.pc = "done"]
                                 ELSE [NotSeeding EXCEPT !.pc = "run", !.todo = seed.todo]
    /\ Commit
    /\ UNCHANGED <<appVars, req, browseVars>>

SeedCommit ==
    /\ Flushes
    /\ seed.todo = {}
    /\ seed' = [NotSeeding EXCEPT !.pc = "done"]
    /\ Commit
    /\ UNCHANGED <<appVars, req, browseVars>>

\* The flush hits a slug published since it was looked for, or the script is
\* killed: everything is rolled back.
SeedFails ==
    /\ seed.pc = "run"
    /\ seed' = NotSeeding
    /\ draft' = [s \in Slugs |-> 0]
    /\ UNCHANGED <<appVars, req, tableVars, browseVars>>

-----------------------------------------------------------------------------
\* GET /marketplace/agents, page after page until one is empty.

Smaller(a, b) == IF a < b THEN a ELSE b

\* Mutant: page_size is taken as it comes.
LimitUnclamped(size) == size

Limit(size) == Smaller(IF size < 1 THEN 1 ELSE size, MaxSize)

\* paginate, for the page numbers from 1 on.
Offset(page, size) == (page - 1) * Limit(size)

PageOf(page, size) ==
    {s \in Slugs : place[s] > Offset(page, size) /\ place[s] <= Offset(page, size) + Limit(size)}

BrowseBegin(size) ==
    /\ browse.pc = "idle"
    /\ browse' = [pc |-> "run", size |-> size, page |-> 1, start |-> total]
    /\ shown' = [s \in Slugs |-> 0]
    /\ UNCHANGED <<appVars, req, tableVars, seedVars>>

BrowseAgents ==
    /\ browse.pc = "run"
    /\ browse' = IF PageOf(browse.page, browse.size) # {} THEN [browse EXCEPT !.page = @ + 1]
                 ELSE [NotPaging EXCEPT !.pc = "done", !.start = browse.start]
    /\ shown' = [s \in Slugs |-> IF s \in PageOf(browse.page, browse.size) THEN shown[s] + 1 ELSE shown[s]]
    /\ UNCHANGED <<appVars, req, tableVars, seedVars>>

-----------------------------------------------------------------------------

\* The server process starts again: the registry is empty, requests are lost.
Restart ==
    /\ bootstrapped' = FALSE
    /\ registry' = {}
    /\ req' = [r \in Requests |-> IF req[r].pc \in {"new", "done"} THEN req[r]
                                  ELSE Answered("lost")]
    /\ UNCHANGED <<tableVars, seedVars, browseVars>>

Init ==
    /\ bootstrapped = FALSE
    /\ registry = {}
    /\ req = [r \in Requests |-> NotSent]
    /\ owner = [k \in Keys |-> Nobody]
    /\ place = [s \in Slugs |-> 0]
    /\ total = 0
    /\ seed = NotSeeding
    /\ draft = [s \in Slugs |-> 0]
    /\ browse = NotPaging
    /\ shown = [s \in Slugs |-> 0]

Arrive(r) ==
    \/ \E s \in Slugs, t \in TypesAsked : Publish(r, s, t)
    \/ \E e \in Emails : Register(r, e)
    \/ \E s \in Slugs, t \in Types : Execute(r, s, t)

Advance(r) ==
    \/ CheckBootstrapped(r)
    \/ SetBootstrapped(r)
    \/ \E t \in Types : RegisterConnector(r, t)
    \/ RegisterAll(r)
    \/ Lookup(r)
    \/ SelectKey(r)
    \/ InsertRow(r)
    \/ InsertFails(r)

SeedScript == SeedBegin \/ (\E s \in Slugs : SeedSlug(s)) \/ SeedCommit \/ SeedFails

Browser == BrowseAgents \/ \E size \in Sizes : BrowseBegin(size)

Next == (\E r \in Requests : Arrive(r) \/ Advance(r)) \/ SeedScript \/ Browser \/ Restart

Spec == Init /\ [][Next]_vars

\* Threads get on; nothing is asked of the script, which may hang.
Fairness == \A r \in Requests : WF_vars(Advance(r))

FairSpec == Spec /\ Fairness

-----------------------------------------------------------------------------
\* Properties.

RequestRecords == [op : {"none", "publish", "register", "execute"},
                   pc : {"new", "check", "set", "load", "lookup", "select", "insert", "done"},
                   key : Keys \cup {Nobody},
                   type : Types \cup TypesAsked \cup {Nobody},
                   answer : {"none", "unknown", "found", "taken", "created", "error", "lost"}]

\* The type invariant.
TypeOK ==
    /\ bootstrapped \in BOOLEAN
    /\ registry \subseteq Types
    /\ req \in [Requests -> RequestRecords]
    /\ owner \in [Keys -> Requests \cup {Nobody, Seed}]
    /\ place \in [Slugs -> Nat]
    /\ total \in Nat
    /\ seed \in [pc : {"idle", "run", "done"}, todo : SUBSET Demo, last : Demo \cup {Nobody},
                 added : Nat, locked : BOOLEAN]
    /\ draft \in [Slugs -> Nat]
    /\ browse \in [pc : {"idle", "run", "done"}, size : Int, page : Nat \ {0}, start : Nat]
    /\ shown \in [Slugs -> Nat]

\* create_template and register_user: a 201 means that the row is the caller's,
\* and stays so: of requests for one slug or e-mail address one wins, and a
\* template's task type is one that has a connector.
CreatedOwns ==
    \A r \in Requests :
        /\ req[r].answer = "created" => owner[req[r].key] = r
        /\ \A s \in Slugs : owner[s] = r => req[r].key = s /\ req[r].type \in Types

\* seed(): all sample agents or none.  Rows of the script are there only when
\* every sample agent is, whoever published it, and whatever killed the script.
SeedAllOrNothing ==
    (\E s \in Slugs : owner[s] = Seed) \/ seed.pc = "done" => \A s \in Demo : owner[s] # Nobody

\* is_registered, get_connector: a task type that has a connector is denied only
\* while a worker is still filling the registry, so at most for a moment after a
\* start of the server, never for good.
DeniedOnlyWhileLoading ==
    [][\A r \in Requests :
          req'[r].answer = "unknown" /\ req[r].answer = "none" /\ req[r].type \in Types
              => \E q \in Requests : req[q].pc = "load"]_vars

\* Every request is answered, also when the script hangs with the write lock.
RequestsAnswered == \A r \in Requests : req[r].pc # "new" ~> req[r].pc = "done"

\* Number of templates that the pages read so far span.
Reach == Offset(browse.page, browse.size)

\* list_templates, paginate: whatever page size a client asks for, and whatever
\* is published meanwhile, nothing is shown to it twice, and when it meets an
\* empty page it has been shown all that was there when it began.
PagesComplete ==
    /\ \A s \in Slugs : shown[s] <= 1
    /\ browse.pc = "done" =>
          \A s \in Slugs : place[s] > 0 /\ place[s] <= browse.start => shown[s] = 1

-----------------------------------------------------------------------------
\* The inductive invariant behind the safety properties (CatalogProofs).

\* What a request may be after: only a publication or an execution asks the
\* registry, only what is to be inserted gets as far as the table.
RequestInv ==
    \A r \in Requests :
        /\ req[r].pc = "new" => req[r] = NotSent
        /\ req[r].pc \in {"check", "set", "load", "lookup"} => req[r].op \in {"publish", "execute"}
        /\ req[r].op = "publish" => req[r].key \in Slugs
        /\ req[r].pc \in {"select", "insert"} =>
              req[r].key \in Emails \/ (req[r].key \in Slugs /\ req[r].type \in Types)
        /\ req[r].answer = "created" <=> \E k \in Keys : owner[k] = r
        /\ req[r].answer = "created" => req[r].key \in Keys
        /\ req[r].answer # "none" <=> req[r].pc = "done"

\* A registry that has been begun and is not complete has a worker that fills it.
RegistryInv ==
    /\ registry # {} => bootstrapped
    /\ \A r \in Requests : req[r].pc \in {"load", "lookup"} => bootstrapped
    /\ bootstrapped => registry = Types \/ \E q \in Requests : req[q].pc = "load"

\* Every sample agent is yet to come, there, or in the draft; the draft is free
\* of what others publish, except for its last row as long as it has no lock.
SeedInv ==
    /\ seed.pc # "run" => \A s \in Slugs : draft[s] = 0
    /\ seed.pc # "run" => ~ seed.locked /\ seed.added = 0
    /\ \A s \in Slugs : draft[s] > 0 => s \in Demo \ seed.todo
    /\ \A s \in Slugs : draft[s] > 0 /\ s # seed.last => seed.locked /\ owner[s] = Nobody
    /\ seed.locked /\ seed.last # Nobody => owner[seed.last] = Nobody
    /\ seed.pc = "run" => \A s \in Demo : s \in seed.todo \/ draft[s] > 0 \/ owner[s] # Nobody

\* Positions and draft positions are 1, 2, 3 and so on, without gaps.
PlaceInv ==
    /\ \A s \in Slugs : place[s] > 0 <=> owner[s] # Nobody
    /\ \A s \in Slugs : place[s] <= total /\ draft[s] <= seed.added
    /\ \A i \in 1 .. total : \E s \in Slugs : place[s] = i
    /\ \A i \in 1 .. seed.added : \E s \in Slugs : draft[s] = i

\* The client has been shown once what its pages reached when it read them.
PageInv ==
    /\ browse.start <= total
    /\ browse.pc = "run" =>
          \A s \in Slugs :
              /\ shown[s] > 0 => place[s] > 0 /\ place[s] <= Reach
              /\ place[s] > 0 /\ place[s] <= browse.start /\ place[s] <= Reach => shown[s] = 1

CatalogInv ==
    /\ TypeOK
    /\ RequestInv
    /\ CreatedOwns
    /\ RegistryInv
    /\ SeedInv
    /\ SeedAllOrNothing
    /\ PlaceInv
    /\ PageInv
    /\ PagesComplete

=============================================================================
