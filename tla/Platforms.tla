----------------------------- MODULE Platforms -----------------------------
(***************************************************************************)
(* app/platforms: a renter connects an account of an external platform by  *)
(* OAuth, disconnects it, and runs tasks with the stored token.            *)
(*                                                                         *)
(* A flow is one authorization: the signed state carries its renter and    *)
(* provider, the redirect carries its code and its state together.  A      *)
(* callback is a coroutine with two awaits, the exchange of the code and   *)
(* the lookup of the account; what it then reads and writes of the table   *)
(* it does without another await.  disconnect reads and commits on a       *)
(* thread, so it may come in between.                                      *)
(*                                                                         *)
(* A token is named after the flow that brought it.                        *)
(***************************************************************************)
EXTENDS Naturals

CONSTANTS
    Users, Providers,
    Flows,          \* authorizations that may be started
    Accounts,       \* accounts on the platforms
    Threads,        \* workers of the thread pool
    Tasks,          \* coroutines
    None,
    Given           \* a credential passed with the task itself

ASSUME PlatformsAssumption ==
    /\ Threads \cap Tasks = {}
    /\ None \notin Users \cup Providers \cup Flows \cup Accounts
    /\ Given \notin Flows \cup Accounts \cup {None}

VARIABLES
    flow,           \* what has become of each authorization
    conn,           \* PlatformConnection row of a user and a provider
    job,            \* the request each worker runs
    stored          \* history: flows whose token has been stored

vars == <<flow, conn, job, stored>>

Workers == Threads \cup Tasks

NoFlow == [status |-> "none", user |-> None, provider |-> None, account |-> None]
NoRow  == [id |-> None, account |-> None, token |-> None]
NoJob  == [op |-> "none", user |-> None, provider |-> None, flow |-> None, row |-> NoRow]

\* Mutant: the upsert is handed to the thread pool.
HoldsLoopNever(w) == FALSE

\* upsert_connection does not await.
HoldsLoop(w) == w \in Tasks /\ job[w].op = "upsert"

LoopFree == \A w \in Workers : ~ HoldsLoop(w)

\* The row the job of w works on.
Row(w) == conn[job[w].user][job[w].provider]

SetRow(w, row) == conn' = [conn EXCEPT ![job[w].user][job[w].provider] = row]

Reply(w) == job' = [job EXCEPT ![w] = NoJob]

-----------------------------------------------------------------------------
\* Authorization.

\* twitter_authorize, discord_authorize: nothing is kept but the signed state.
Authorize(f, u, p) ==
    /\ flow[f] = NoFlow
    /\ flow' = [flow EXCEPT ![f] = [status |-> "issued", user |-> u, provider |-> p,
                                    account |-> None]]
    /\ UNCHANGED <<conn, job, stored>>

\* The renter consents on the platform, as whoever is logged in there.
Consent(f, a) ==
    /\ flow[f].status = "issued"
    /\ flow' = [flow EXCEPT ![f].status = "consented", ![f].account = a]
    /\ UNCHANGED <<conn, job, stored>>

-----------------------------------------------------------------------------
\* twitter_callback, discord_callback.

\* The redirect, which a browser may repeat.  A state that does not decode, or
\* has expired, is answered 400: as if the redirect had not come.
Callback(w, f) ==
    /\ w \in Tasks
    /\ LoopFree
    /\ job[w] = NoJob
    /\ flow[f].status \in {"consented", "spent"}
    /\ job' = [job EXCEPT ![w] = [op |-> "exchange", user |-> flow[f].user,
                                  provider |-> flow[f].provider, flow |-> f, row |-> NoRow]]
    /\ UNCHANGED <<flow, conn, stored>>

\* Mutant: the token response of a code exchanged before is kept and used again.
ExchangeCodeCached(w) ==
    /\ job[w].op = "exchange"
    /\ LoopFree
    /\ flow' = [flow EXCEPT ![job[w].flow].status = "spent"]
    /\ job' = [job EXCEPT ![w].op = "fetch"]
    /\ UNCHANGED <<conn, stored>>

\* The platform exchanges a code once.
ExchangeCode(w) ==
    /\ job[w].op = "exchange"
    /\ LoopFree
    /\ flow[job[w].flow].status = "consented"
    /\ flow' = [flow EXCEPT ![job[w].flow].status = "spent"]
    /\ job' = [job EXCEPT ![w].op = "fetch"]
    /\ UNCHANGED <<conn, stored>>

\* The account of the token is known; upsert_connection reads the row.
FetchUserId(w) ==
    /\ job[w].op = "fetch"
    /\ LoopFree
    /\ job' = [job EXCEPT ![w].op = "upsert", ![w].row = Row(w)]
    /\ UNCHANGED <<flow, conn, stored>>

\* The platform refuses or does not answer: 500.
CallFails(w) ==
    /\ job[w].op \in {"exchange", "fetch"}
    /\ LoopFree
    /\ Reply(w)
    /\ UNCHANGED <<flow, conn, stored>>

\* The row read is written: a new one is inserted, an existing one updated where
\* it differs from what was read; the ciphertext of the token always differs.
Upserted(w) ==
    LET f == job[w].flow
        seen == job[w].row
        account == flow[f].account
    IN
    [id |-> IF seen = NoRow THEN f ELSE seen.id,
     account |-> IF seen # NoRow /\ account = seen.account THEN Row(w).account ELSE account,
     token |-> f]

UpsertCommit(w) ==
    /\ job[w].op = "upsert"
    /\ Row(w).id = job[w].row.id
    /\ SetRow(w, Upserted(w))
    /\ stored' = stored \cup {job[w].flow}
    /\ Reply(w)
    /\ UNCHANGED flow

\* The row has been deleted since (or, for an INSERT, there is one by now): 500,
\* and the token is lost.
UpsertFails(w) ==
    /\ job[w].op = "upsert"
    /\ Row(w).id # job[w].row.id
    /\ Reply(w)
    /\ UNCHANGED <<flow, conn, stored>>

-----------------------------------------------------------------------------
\* disconnect.

Disconnect(w, u, p) ==
    /\ w \in Threads
    /\ job[w] = NoJob
    /\ conn[u][p] # NoRow
    /\ job' = [job EXCEPT ![w] = [op |-> "delete", user |-> u, provider |-> p,
                                  flow |-> None, row |-> conn[u][p]]]
    /\ UNCHANGED <<flow, conn, stored>>

\* DELETE by primary key: a row inserted since is another one.
DeleteCommit(w) ==
    /\ job[w].op = "delete"
    /\ IF Row(w).id = job[w].row.id THEN SetRow(w, NoRow) ELSE UNCHANGED conn
    /\ Reply(w)
    /\ UNCHANGED <<flow, stored>>

-----------------------------------------------------------------------------
\* execute_instance_task, as far as it is about credentials.

\* What a task of provider p runs with: what is passed with it wins, the rest
\* comes from the row.
Injected(row, token, account) ==
    [id |-> None,
     token |-> IF token # None THEN token ELSE row.token,
     account |-> IF account # None THEN account ELSE row.account]

\* Mutant: the lookup forgets the user.
InjectCredentialsOfAnyone(w, u, p, token, account) ==
    /\ w \in Tasks
    /\ LoopFree
    /\ job[w] = NoJob
    /\ \E v \in Users :
          job' = [job EXCEPT ![w] = [op |-> "run", user |-> u, provider |-> p, flow |-> None,
                                     row |-> Injected(conn[v][p], token, account)]]
    /\ UNCHANGED <<flow, conn, stored>>

InjectCredentials(w, u, p, token, account) ==
    /\ w \in Tasks
    /\ LoopFree
    /\ job[w] = NoJob
    /\ job' = [job EXCEPT ![w] = [op |-> "run", user |-> u, provider |-> p, flow |-> None,
                                  row |-> Injected(conn[u][p], token, account)]]
    /\ UNCHANGED <<flow, conn, stored>>

\* The connector is done with the credentials.
RunEnds(w) ==
    /\ job[w].op = "run"
    /\ LoopFree
    /\ Reply(w)
    /\ UNCHANGED <<flow, conn, stored>>

\* The server is killed and started again; the table stays.
Restart ==
    /\ job' = [w \in Workers |-> NoJob]
    /\ UNCHANGED <<flow, conn, stored>>

-----------------------------------------------------------------------------

Init ==
    /\ flow = [f \in Flows |-> NoFlow]
    /\ conn = [u \in Users |-> [p \in Providers |-> NoRow]]
    /\ job = [w \in Workers |-> NoJob]
    /\ stored = {}

Advance(w) ==
    \/ ExchangeCode(w)
    \/ FetchUserId(w)
    \/ CallFails(w)
    \/ UpsertCommit(w)
    \/ UpsertFails(w)
    \/ DeleteCommit(w)
    \/ RunEnds(w)

Next ==
    \/ \E f \in Flows, u \in Users, p \in Providers : Authorize(f, u, p)
    \/ \E f \in Flows, a \in Accounts : Consent(f, a)
    \/ \E w \in Workers, f \in Flows : Callback(w, f)
    \/ \E w \in Workers, u \in Users, p \in Providers : Disconnect(w, u, p)
    \/ \E w \in Workers, u \in Users, p \in Providers,
          token \in {None, Given}, account \in {None, Given} :
          InjectCredentials(w, u, p, token, account)
    \/ \E w \in Workers : Advance(w)
    \/ Restart

Spec == Init /\ [][Next]_vars

-----------------------------------------------------------------------------
\* Properties.

FlowRecords == [status : {"none", "issued", "consented", "spent"}, user : Users \cup {None},
                provider : Providers \cup {None}, account : Accounts \cup {None}]

RowRecords == [id : Flows \cup {None}, account : Accounts \cup {None, Given},
               token : Flows \cup {None, Given}]

JobRecords == [op : {"none", "exchange", "fetch", "upsert", "delete", "run"},
               user : Users \cup {None}, provider : Providers \cup {None},
               flow : Flows \cup {None}, row : RowRecords]

\* The type invariant.
TypeOK ==
    /\ flow \in [Flows -> FlowRecords]
    /\ conn \in [Users -> [Providers -> RowRecords]]
    /\ job \in [Workers -> JobRecords]
    /\ stored \subseteq Flows

\* The token was granted to u for p, by the account stored with it.
Grants(token, account, u, p) ==
    /\ token \in stored
    /\ flow[token].user = u
    /\ flow[token].provider = p
    /\ flow[token].account = account

\* upsert_connection: token and account of a row belong together and were
\* granted to its user, although the two columns are written independently.
RowsGranted ==
    \A u \in Users, p \in Providers :
        conn[u][p] # NoRow => Grants(conn[u][p].token, conn[u][p].account, u, p)

\* inject_credentials: so do the credentials of a task, from the moment they are
\* read to the end of the run, unless the renter passes one of them.
TasksGranted ==
    \A w \in Workers :
        job[w].op = "run" /\ {job[w].row.token, job[w].row.account} \cap {None, Given} = {} =>
            Grants(job[w].row.token, job[w].row.account, job[w].user, job[w].provider)

\* UNIQUE (user_id, provider): of callbacks that overlap, none inserts a second row.
OneInserter == \A w \in Workers : job[w].op = "upsert" /\ job[w].row = NoRow => Row(w) = NoRow

\* A token that was disconnected or replaced is never stored again, however
\* often the browser repeats its callback.
TokenNeverReturns ==
    [][\A u \in Users, p \in Providers :
          conn'[u][p].token \in stored => conn'[u][p].token = conn[u][p].token]_vars

-----------------------------------------------------------------------------
\* The inductive invariant behind these properties (PlatformsProofs).

\* A flow has a renter and a provider, and once consented to, an account; a
\* stored token has been exchanged.
FlowInv ==
    \A f \in Flows :
        /\ flow[f].status = "none" => flow[f] = NoFlow
        /\ flow[f].status # "none" => flow[f].user \in Users /\ flow[f].provider \in Providers
        /\ flow[f].status \in {"consented", "spent"} => flow[f].account \in Accounts
        /\ f \in stored => flow[f].status = "spent"

\* Rows have ids, and no two rows have had the same.
IdInv == \A u \in Users, p \in Providers : conn[u][p] # NoRow => conn[u][p].id \in stored

\* A job is about a renter and a provider; a callback about those of its flow.
JobInv ==
    \A w \in Workers :
        /\ job[w].op = "none" => job[w] = NoJob
        /\ job[w].op # "none" => job[w].user \in Users /\ job[w].provider \in Providers
        /\ job[w].op \in {"exchange", "fetch", "upsert"} =>
              /\ w \in Tasks
              /\ job[w].flow \in Flows
              /\ flow[job[w].flow].user = job[w].user
              /\ flow[job[w].flow].provider = job[w].provider
        /\ job[w].op = "exchange" => flow[job[w].flow].status \in {"consented", "spent"}

\* A token that is on its way is new, and on its way once.
TokenInv ==
    \A v, w \in Workers :
        job[w].op \in {"fetch", "upsert"} =>
            /\ flow[job[w].flow].status = "spent"
            /\ job[w].flow \notin stored
            /\ job[v].op \in {"fetch", "upsert"} /\ job[v].flow = job[w].flow => v = w

\* One callback at a time reads and writes, and the row it has read is as it was
\* unless it has been deleted.
LoopInv ==
    /\ \A v, w \in Workers : job[v].op = "upsert" /\ job[w].op = "upsert" => v = w
    /\ \A w \in Workers : job[w].op = "upsert" => Row(w) \in {job[w].row, NoRow}
    /\ \A w \in Workers : job[w].op = "upsert" /\ job[w].row # NoRow => job[w].row.id \in stored

PlatformsInv ==
    /\ TypeOK
    /\ FlowInv
    /\ IdInv
    /\ JobInv
    /\ TokenInv
    /\ LoopInv
    /\ RowsGranted
    /\ TasksGranted

=============================================================================
