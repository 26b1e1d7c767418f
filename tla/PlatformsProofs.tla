-------------------------- MODULE PlatformsProofs --------------------------
(* Theorems about Platforms, for any number of users, providers, flows,      *)
(* threads and coroutines.  Each part of PlatformsInv is preserved by every  *)
(* step; the properties are parts or consequences of it.                     *)
EXTENDS Platforms, TLAPS

-----------------------------------------------------------------------------
(* Type correctness. *)

\* A row written stays in its place.
LEMMA SetRowTypes ==
  ASSUME TypeOK, NEW w \in Workers, NEW row \in RowRecords, SetRow(w, row),
         job[w].user \in Users, job[w].provider \in Providers
  PROVE  /\ conn' \in [Users -> [Providers -> RowRecords]]
         /\ \A u \in Users, p \in Providers :
               conn'[u][p] = IF u = job[w].user /\ p = job[w].provider THEN row ELSE conn[u][p]
<1> DEFINE x == job[w].user
           y == job[w].provider
<1>1. x \in Users /\ y \in Providers OBVIOUS
<1>2. conn' = [conn EXCEPT ![x][y] = row] BY DEF SetRow
<1> HIDE DEF x, y
<1>3. conn \in [Users -> [Providers -> RowRecords]] BY DEF TypeOK
<1>4. \A u \in Users, p \in Providers :
         conn'[u][p] = IF u = x /\ p = y THEN row ELSE conn[u][p]
  BY <1>1, <1>2, <1>3
<1>5. conn' \in [Users -> [Providers -> RowRecords]]
  BY <1>1, <1>2, <1>3
<1> QED BY <1>4, <1>5 DEF x, y

\* What there is before anything happens has its type.
LEMMA RecordTypes ==
  /\ NoFlow \in FlowRecords /\ NoRow \in RowRecords /\ NoJob \in JobRecords
  /\ NoRow.id = None /\ NoRow.account = None /\ NoRow.token = None
BY DEF FlowRecords, RowRecords, JobRecords, NoFlow, NoRow, NoJob

\* Every step preserves the type invariant.
LEMMA TypeStep ==
  ASSUME TypeOK, JobInv, FlowInv, TokenInv, [Next]_vars
  PROVE  TypeOK'
<1>a. /\ job \in [Workers -> JobRecords] /\ \A w \in Workers : job[w] \in JobRecords
      /\ JobInv /\ FlowInv /\ TokenInv
  BY DEF TypeOK
<1>1. ASSUME NEW f \in Flows, NEW u \in Users, NEW p \in Providers, Authorize(f, u, p)
      PROVE  TypeOK'
  <2>1. [status |-> "issued", user |-> u, provider |-> p, account |-> None] \in FlowRecords
    BY DEF FlowRecords
  <2> QED BY <1>1, <2>1 DEF Authorize, TypeOK
<1>2. ASSUME NEW f \in Flows, NEW a \in Accounts, Consent(f, a)
      PROVE  TypeOK'
  <2>1. [flow[f] EXCEPT !.status = "consented", !.account = a] \in FlowRecords
    BY DEF TypeOK, FlowRecords
  <2>2. flow' = [flow EXCEPT ![f] = [flow[f] EXCEPT !.status = "consented", !.account = a]]
    BY <1>2 DEF Consent, TypeOK
  <2> QED BY <1>2, <2>1, <2>2 DEF Consent, TypeOK
<1>3. ASSUME NEW w \in Workers, NEW f \in Flows, Callback(w, f)
      PROVE  TypeOK'
  <2>1. flow[f] \in FlowRecords BY DEF TypeOK
  <2>2. [op |-> "exchange", user |-> flow[f].user, provider |-> flow[f].provider, flow |-> f,
         row |-> NoRow] \in JobRecords
    BY <2>1, RecordTypes DEF JobRecords, FlowRecords
  <2> QED BY <1>3, <1>a, <2>2 DEF Callback, TypeOK
<1>4. ASSUME NEW w \in Workers, ExchangeCode(w)
      PROVE  TypeOK'
  <2>1. job[w].flow \in Flows BY <1>4, <1>a DEF ExchangeCode, JobInv
  <2>2. flow' \in [Flows -> FlowRecords]
    <3>1. [flow[job[w].flow] EXCEPT !.status = "spent"] \in FlowRecords
      BY <2>1 DEF TypeOK, FlowRecords
    <3> QED BY <1>4, <2>1, <3>1 DEF ExchangeCode, TypeOK
  <2>3. job' \in [Workers -> JobRecords]
    <3>1. [job[w] EXCEPT !.op = "fetch"] \in JobRecords BY <1>a DEF JobRecords
    <3> QED BY <1>4, <1>a, <3>1 DEF ExchangeCode
  <2> QED BY <1>4, <2>2, <2>3 DEF ExchangeCode, TypeOK
<1>5. ASSUME NEW w \in Workers, FetchUserId(w)
      PROVE  TypeOK'
  <2>1. job[w].user \in Users /\ job[w].provider \in Providers BY <1>5, <1>a DEF FetchUserId, JobInv
  <2>2. Row(w) \in RowRecords BY <2>1 DEF Row, TypeOK
  <2>3. [job[w] EXCEPT !.op = "upsert", !.row = Row(w)] \in JobRecords BY <1>a, <2>2 DEF JobRecords
  <2>4. job' = [job EXCEPT ![w] = [job[w] EXCEPT !.op = "upsert", !.row = Row(w)]]
    BY <1>5, <1>a DEF FetchUserId
  <2> QED BY <1>5, <1>a, <2>3, <2>4 DEF FetchUserId, TypeOK
<1>6. ASSUME NEW w \in Workers, CallFails(w) \/ UpsertFails(w) \/ RunEnds(w)
      PROVE  TypeOK'
  BY <1>6, <1>a, RecordTypes DEF CallFails, UpsertFails, RunEnds, Reply, TypeOK
<1>7. ASSUME NEW w \in Workers, UpsertCommit(w)
      PROVE  TypeOK'
  <2>1. /\ job[w].user \in Users /\ job[w].provider \in Providers /\ job[w].flow \in Flows
        /\ flow[job[w].flow].status = "spent"
    BY <1>7, <1>a DEF UpsertCommit, JobInv, TokenInv
  <2>2. flow[job[w].flow].account \in Accounts BY <2>1, <1>a DEF FlowInv
  <2>3. Row(w) \in RowRecords /\ job[w].row \in RowRecords
    BY <1>a, <2>1 DEF Row, TypeOK, JobRecords
  <2>4. Upserted(w) \in RowRecords BY <2>1, <2>2, <2>3 DEF Upserted, RowRecords
  <2>5. conn' \in [Users -> [Providers -> RowRecords]]
    BY <1>7, <2>1, <2>4, SetRowTypes DEF UpsertCommit
  <2>6. job' \in [Workers -> JobRecords] BY <1>7, <1>a, RecordTypes DEF UpsertCommit, Reply
  <2> QED BY <1>7, <2>1, <2>5, <2>6 DEF UpsertCommit, TypeOK
<1>8. ASSUME NEW w \in Workers, NEW u \in Users, NEW p \in Providers, Disconnect(w, u, p)
      PROVE  TypeOK'
  <2>1. conn[u][p] \in RowRecords BY DEF TypeOK
  <2>2. [op |-> "delete", user |-> u, provider |-> p, flow |-> None, row |-> conn[u][p]] \in JobRecords
    BY <2>1 DEF JobRecords
  <2> QED BY <1>8, <1>a, <2>2 DEF Disconnect, TypeOK
<1>9. ASSUME NEW w \in Workers, DeleteCommit(w)
      PROVE  TypeOK'
  <2>1. job[w].user \in Users /\ job[w].provider \in Providers BY <1>9, <1>a DEF DeleteCommit, JobInv
  <2>2. conn' \in [Users -> [Providers -> RowRecords]]
    BY <1>9, <2>1, RecordTypes, SetRowTypes DEF DeleteCommit, TypeOK
  <2>3. job' \in [Workers -> JobRecords] BY <1>9, <1>a, RecordTypes DEF DeleteCommit, Reply
  <2> QED BY <1>9, <2>2, <2>3 DEF DeleteCommit, TypeOK
<1>10. ASSUME NEW w \in Workers, NEW u \in Users, NEW p \in Providers,
             NEW token \in {None, Given}, NEW account \in {None, Given},
             InjectCredentials(w, u, p, token, account)
       PROVE  TypeOK'
  <2>1. Injected(conn[u][p], token, account) \in RowRecords BY DEF TypeOK, Injected, RowRecords
  <2>2. [op |-> "run", user |-> u, provider |-> p, flow |-> None,
         row |-> Injected(conn[u][p], token, account)] \in JobRecords
    BY <2>1 DEF JobRecords
  <2> QED BY <1>10, <1>a, <2>2 DEF InjectCredentials, TypeOK
<1>11. CASE Restart
  BY <1>11, RecordTypes DEF Restart, TypeOK
<1>12. CASE UNCHANGED vars
  BY <1>12 DEF vars, TypeOK
<1> QED
  BY <1>1, <1>2, <1>3, <1>4, <1>5, <1>6, <1>7, <1>8, <1>9, <1>10, <1>11, <1>12 DEF Next, Advance

-----------------------------------------------------------------------------
(* Flows and ids. *)

\* Flows only move on, and a stored token stays exchanged.
LEMMA FlowStep ==
  ASSUME TypeOK, FlowInv, JobInv, TokenInv, [Next]_vars
  PROVE  FlowInv'
<1>1. ASSUME NEW f \in Flows, NEW u \in Users, NEW p \in Providers, Authorize(f, u, p)
      PROVE  FlowInv'
  BY <1>1 DEF Authorize, FlowInv, TypeOK, JobInv, TokenInv, NoFlow, Reply, FlowRecords
<1>2. ASSUME NEW f \in Flows, NEW a \in Accounts, Consent(f, a)
      PROVE  FlowInv'
  BY <1>2 DEF Consent, FlowInv, TypeOK, JobInv, TokenInv, NoFlow, Reply, FlowRecords
<1>3. ASSUME NEW w \in Workers, NEW f \in Flows, Callback(w, f)
      PROVE  FlowInv'
  BY <1>3 DEF Callback, FlowInv, TypeOK, JobInv, TokenInv, NoFlow, Reply, FlowRecords
<1>4. ASSUME NEW w \in Workers, ExchangeCode(w)
      PROVE  FlowInv'
  BY <1>4 DEF ExchangeCode, FlowInv, TypeOK, JobInv, TokenInv, NoFlow, Reply, FlowRecords
<1>5. ASSUME NEW w \in Workers, FetchUserId(w)
      PROVE  FlowInv'
  BY <1>5 DEF FetchUserId, FlowInv, TypeOK, JobInv, TokenInv, NoFlow, Reply, FlowRecords
<1>6. ASSUME NEW w \in Workers, CallFails(w) \/ UpsertFails(w) \/ RunEnds(w)
      PROVE  FlowInv'
  BY <1>6 DEF CallFails, UpsertFails, RunEnds, FlowInv, TypeOK, JobInv, TokenInv, NoFlow, Reply, FlowRecords
<1>7. ASSUME NEW w \in Workers, UpsertCommit(w)
      PROVE  FlowInv'
  BY <1>7 DEF UpsertCommit, FlowInv, TypeOK, JobInv, TokenInv, NoFlow, Reply, FlowRecords
<1>8. ASSUME NEW w \in Workers, NEW u \in Users, NEW p \in Providers, Disconnect(w, u, p)
      PROVE  FlowInv'
  BY <1>8 DEF Disconnect, FlowInv, TypeOK, JobInv, TokenInv, NoFlow, Reply, FlowRecords
<1>9. ASSUME NEW w \in Workers, DeleteCommit(w)
      PROVE  FlowInv'
  BY <1>9 DEF DeleteCommit, FlowInv, TypeOK, JobInv, TokenInv, NoFlow, Reply, FlowRecords
<1>10. ASSUME NEW w \in Workers, NEW u \in Users, NEW p \in Providers,
             NEW token \in {None, Given}, NEW account \in {None, Given},
             InjectCredentials(w, u, p, token, account)
       PROVE  FlowInv'
  BY <1>10 DEF InjectCredentials, FlowInv, TypeOK, JobInv, TokenInv, NoFlow, Reply, FlowRecords
<1>11. CASE Restart
  BY <1>11 DEF Restart, FlowInv, TypeOK, JobInv, TokenInv, NoFlow, Reply, FlowRecords
<1>12. CASE UNCHANGED vars
  BY <1>12 DEF vars, FlowInv, TypeOK, JobInv, TokenInv, NoFlow, Reply, FlowRecords
<1> QED
  BY <1>1, <1>2, <1>3, <1>4, <1>5, <1>6, <1>7, <1>8, <1>9, <1>10, <1>11, <1>12 DEF Next, Advance

\* What upsert_connection leaves in the table.
LEMMA UpsertedRow ==
  ASSUME TypeOK, FlowInv, JobInv, TokenInv, NEW w \in Workers, UpsertCommit(w)
  PROVE  /\ job[w].user \in Users /\ job[w].provider \in Providers /\ job[w].flow \in Flows
         /\ \A u \in Users, p \in Providers :
               conn'[u][p] = IF u = job[w].user /\ p = job[w].provider THEN Upserted(w)
                                                                       ELSE conn[u][p]
<1>1. /\ job[w].user \in Users /\ job[w].provider \in Providers /\ job[w].flow \in Flows
      /\ flow[job[w].flow].status = "spent"
  BY DEF UpsertCommit, JobInv, TokenInv
<1>2. flow[job[w].flow].account \in Accounts BY <1>1 DEF FlowInv
<1>3. Row(w) \in RowRecords /\ job[w].row \in RowRecords
  BY <1>1 DEF Row, TypeOK, JobRecords
<1>4. Upserted(w) \in RowRecords BY <1>1, <1>2, <1>3 DEF Upserted, RowRecords
<1> QED BY <1>1, <1>4, SetRowTypes DEF UpsertCommit

\* What disconnect leaves in the table.
LEMMA DeletedRow ==
  ASSUME TypeOK, JobInv, NEW w \in Workers, DeleteCommit(w)
  PROVE  /\ job[w].user \in Users /\ job[w].provider \in Providers
         /\ \A u \in Users, p \in Providers : conn'[u][p] \in {conn[u][p], NoRow}
<1>1. job[w].user \in Users /\ job[w].provider \in Providers BY DEF DeleteCommit, JobInv
<1>2. CASE Row(w).id = job[w].row.id
  BY <1>1, <1>2, RecordTypes, SetRowTypes DEF DeleteCommit
<1>3. CASE Row(w).id # job[w].row.id
  BY <1>1, <1>3 DEF DeleteCommit
<1> QED BY <1>1, <1>2, <1>3

\* Ids are ids of flows whose token has been stored.
LEMMA IdStep ==
  ASSUME TypeOK, FlowInv, JobInv, TokenInv, LoopInv, IdInv, [Next]_vars
  PROVE  IdInv'
<1>1. ASSUME NEW f \in Flows, NEW u \in Users, NEW p \in Providers, Authorize(f, u, p)
      PROVE  IdInv'
  BY <1>1 DEF Authorize, IdInv, Reply
<1>2. ASSUME NEW f \in Flows, NEW a \in Accounts, Consent(f, a)
      PROVE  IdInv'
  BY <1>2 DEF Consent, IdInv, Reply
<1>3. ASSUME NEW w \in Workers, NEW f \in Flows, Callback(w, f)
      PROVE  IdInv'
  BY <1>3 DEF Callback, IdInv, Reply
<1>4. ASSUME NEW w \in Workers, ExchangeCode(w)
      PROVE  IdInv'
  BY <1>4 DEF ExchangeCode, IdInv, Reply
<1>5. ASSUME NEW w \in Workers, FetchUserId(w)
      PROVE  IdInv'
  BY <1>5 DEF FetchUserId, IdInv, Reply
<1>6. ASSUME NEW w \in Workers, CallFails(w) \/ UpsertFails(w) \/ RunEnds(w)
      PROVE  IdInv'
  BY <1>6 DEF CallFails, UpsertFails, RunEnds, IdInv, Reply
<1>7. ASSUME NEW w \in Workers, UpsertCommit(w)
      PROVE  IdInv'
  <2>1. /\ job[w].user \in Users /\ job[w].provider \in Providers /\ job[w].flow \in Flows
        /\ flow[job[w].flow].status = "spent"
    BY <1>7 DEF UpsertCommit, JobInv, TokenInv
  <2>2. Upserted(w).id \in stored' BY <1>7 DEF UpsertCommit, Upserted, LoopInv
  <2>3. \A u \in Users, p \in Providers :
           conn'[u][p] = IF u = job[w].user /\ p = job[w].provider THEN Upserted(w) ELSE conn[u][p]
    BY <1>7, <2>1, UpsertedRow
  <2> QED BY <1>7, <2>2, <2>3 DEF UpsertCommit, IdInv
<1>8. ASSUME NEW w \in Workers, NEW u \in Users, NEW p \in Providers, Disconnect(w, u, p)
      PROVE  IdInv'
  BY <1>8 DEF Disconnect, IdInv, Reply
<1>9. ASSUME NEW w \in Workers, DeleteCommit(w)
      PROVE  IdInv'
  <2>1. \A u \in Users, p \in Providers : conn'[u][p] \in {conn[u][p], NoRow}
    BY <1>9, DeletedRow
  <2> QED BY <1>9, <2>1 DEF DeleteCommit, IdInv
<1>10. ASSUME NEW w \in Workers, NEW u \in Users, NEW p \in Providers,
             NEW token \in {None, Given}, NEW account \in {None, Given},
             InjectCredentials(w, u, p, token, account)
       PROVE  IdInv'
  BY <1>10 DEF InjectCredentials, IdInv, Reply
<1>11. CASE Restart
  BY <1>11 DEF Restart, IdInv, Reply
<1>12. CASE UNCHANGED vars
  BY <1>12 DEF vars, IdInv, Reply
<1> QED
  BY <1>1, <1>2, <1>3, <1>4, <1>5, <1>6, <1>7, <1>8, <1>9, <1>10, <1>11, <1>12 DEF Next, Advance

-----------------------------------------------------------------------------
(* Jobs. *)

\* A job stays about its renter, its provider and its flow.
LEMMA JobStep ==
  ASSUME TypeOK, FlowInv, JobInv, TokenInv, [Next]_vars
  PROVE  JobInv'
<1>1. ASSUME NEW f \in Flows, NEW u \in Users, NEW p \in Providers, Authorize(f, u, p)
      PROVE  JobInv'
  <2>1. flow[f].status = "none" /\ job' = job BY <1>1 DEF Authorize, NoFlow
  <2>2. \A g \in Flows : flow[g].status # "none" => flow'[g] = flow[g]
    BY <1>1, <2>1 DEF Authorize, TypeOK
  <2>3. \A v \in Workers : job[v].op \in {"exchange", "fetch", "upsert"} => flow[job[v].flow].status # "none"
    BY DEF JobInv, TokenInv
  <2> QED BY <2>1, <2>2, <2>3 DEF JobInv
<1>2. ASSUME NEW f \in Flows, NEW a \in Accounts, Consent(f, a)
      PROVE  JobInv'
  BY <1>2 DEF Consent, JobInv, TypeOK, FlowInv, NoJob, NoFlow, Reply
<1>3. ASSUME NEW w \in Workers, NEW f \in Flows, Callback(w, f)
      PROVE  JobInv'
  BY <1>3 DEF Callback, JobInv, TypeOK, FlowInv, NoJob, NoFlow, Reply
<1>4. ASSUME NEW w \in Workers, ExchangeCode(w)
      PROVE  JobInv'
  BY <1>4 DEF ExchangeCode, JobInv, TypeOK, FlowInv, NoJob, NoFlow, Reply
<1>5. ASSUME NEW w \in Workers, FetchUserId(w)
      PROVE  JobInv'
  BY <1>5 DEF FetchUserId, JobInv, TypeOK, FlowInv, NoJob, NoFlow, Reply
<1>6. ASSUME NEW w \in Workers, CallFails(w) \/ UpsertFails(w) \/ RunEnds(w)
      PROVE  JobInv'
  BY <1>6 DEF CallFails, UpsertFails, RunEnds, JobInv, TypeOK, FlowInv, NoJob, NoFlow, Reply
<1>7. ASSUME NEW w \in Workers, UpsertCommit(w)
      PROVE  JobInv'
  BY <1>7 DEF UpsertCommit, JobInv, TypeOK, FlowInv, NoJob, NoFlow, Reply
<1>8. ASSUME NEW w \in Workers, NEW u \in Users, NEW p \in Providers, Disconnect(w, u, p)
      PROVE  JobInv'
  BY <1>8 DEF Disconnect, JobInv, TypeOK, FlowInv, NoJob, NoFlow, Reply
<1>9. ASSUME NEW w \in Workers, DeleteCommit(w)
      PROVE  JobInv'
  BY <1>9 DEF DeleteCommit, JobInv, TypeOK, FlowInv, NoJob, NoFlow, Reply
<1>10. ASSUME NEW w \in Workers, NEW u \in Users, NEW p \in Providers,
             NEW token \in {None, Given}, NEW account \in {None, Given},
             InjectCredentials(w, u, p, token, account)
       PROVE  JobInv'
  BY <1>10 DEF InjectCredentials, JobInv, TypeOK, FlowInv, NoJob, NoFlow, Reply
<1>11. CASE Restart
  BY <1>11 DEF Restart, JobInv, TypeOK, FlowInv, NoJob, NoFlow, Reply
<1>12. CASE UNCHANGED vars
  BY <1>12 DEF vars, JobInv, TypeOK, FlowInv, NoJob, NoFlow, Reply
<1> QED
  BY <1>1, <1>2, <1>3, <1>4, <1>5, <1>6, <1>7, <1>8, <1>9, <1>10, <1>11, <1>12 DEF Next, Advance

\* A code is exchanged once, so its token is on its way once.
LEMMA TokenStep ==
  ASSUME TypeOK, FlowInv, JobInv, TokenInv, [Next]_vars
  PROVE  TokenInv'
<1>1. ASSUME NEW f \in Flows, NEW u \in Users, NEW p \in Providers, Authorize(f, u, p)
      PROVE  TokenInv'
  BY <1>1 DEF Authorize, TokenInv, JobInv, TypeOK, FlowInv, NoFlow, NoJob, Reply
<1>2. ASSUME NEW f \in Flows, NEW a \in Accounts, Consent(f, a)
      PROVE  TokenInv'
  BY <1>2 DEF Consent, TokenInv, JobInv, TypeOK, FlowInv, NoFlow, NoJob, Reply
<1>3. ASSUME NEW w \in Workers, NEW f \in Flows, Callback(w, f)
      PROVE  TokenInv'
  BY <1>3 DEF Callback, TokenInv, JobInv, TypeOK, FlowInv, NoFlow, NoJob, Reply
<1>4. ASSUME NEW w \in Workers, ExchangeCode(w)
      PROVE  TokenInv'
  BY <1>4 DEF ExchangeCode, TokenInv, JobInv, TypeOK, FlowInv, NoFlow, NoJob, Reply
<1>5. ASSUME NEW w \in Workers, FetchUserId(w)
      PROVE  TokenInv'
  BY <1>5 DEF FetchUserId, TokenInv, JobInv, TypeOK, FlowInv, NoFlow, NoJob, Reply
<1>6. ASSUME NEW w \in Workers, CallFails(w) \/ UpsertFails(w) \/ RunEnds(w)
      PROVE  TokenInv'
  BY <1>6 DEF CallFails, UpsertFails, RunEnds, TokenInv, JobInv, TypeOK, FlowInv, NoFlow, NoJob, Reply
<1>7. ASSUME NEW w \in Workers, UpsertCommit(w)
      PROVE  TokenInv'
  BY <1>7 DEF UpsertCommit, TokenInv, JobInv, TypeOK, FlowInv, NoFlow, NoJob, Reply
<1>8. ASSUME NEW w \in Workers, NEW u \in Users, NEW p \in Providers, Disconnect(w, u, p)
      PROVE  TokenInv'
  BY <1>8 DEF Disconnect, TokenInv, JobInv, TypeOK, FlowInv, NoFlow, NoJob, Reply
<1>9. ASSUME NEW w \in Workers, DeleteCommit(w)
      PROVE  TokenInv'
  BY <1>9 DEF DeleteCommit, TokenInv, JobInv, TypeOK, FlowInv, NoFlow, NoJob, Reply
<1>10. ASSUME NEW w \in Workers, NEW u \in Users, NEW p \in Providers,
             NEW token \in {None, Given}, NEW account \in {None, Given},
             InjectCredentials(w, u, p, token, account)
       PROVE  TokenInv'
  BY <1>10 DEF InjectCredentials, TokenInv, JobInv, TypeOK, FlowInv, NoFlow, NoJob, Reply
<1>11. CASE Restart
  BY <1>11 DEF Restart, TokenInv, JobInv, TypeOK, FlowInv, NoFlow, NoJob, Reply
<1>12. CASE UNCHANGED vars
  BY <1>12 DEF vars, TokenInv, JobInv, TypeOK, FlowInv, NoFlow, NoJob, Reply
<1> QED
  BY <1>1, <1>2, <1>3, <1>4, <1>5, <1>6, <1>7, <1>8, <1>9, <1>10, <1>11, <1>12 DEF Next, Advance

\* The event loop runs one upsert at a time, and only a disconnect interferes with it.
LEMMA LoopStep ==
  ASSUME TypeOK, FlowInv, JobInv, TokenInv, LoopInv, IdInv, [Next]_vars
  PROVE  LoopInv'
<1>1. ASSUME NEW f \in Flows, NEW u \in Users, NEW p \in Providers, Authorize(f, u, p)
      PROVE  LoopInv'
  BY <1>1 DEF Authorize, LoopInv, JobInv, TypeOK, Row, HoldsLoop, LoopFree, Reply, NoJob
<1>2. ASSUME NEW f \in Flows, NEW a \in Accounts, Consent(f, a)
      PROVE  LoopInv'
  BY <1>2 DEF Consent, LoopInv, JobInv, TypeOK, Row, HoldsLoop, LoopFree, Reply, NoJob
<1>3. ASSUME NEW w \in Workers, NEW f \in Flows, Callback(w, f)
      PROVE  LoopInv'
  BY <1>3 DEF Callback, LoopInv, JobInv, TypeOK, Row, HoldsLoop, LoopFree, Reply, NoJob
<1>4. ASSUME NEW w \in Workers, ExchangeCode(w)
      PROVE  LoopInv'
  BY <1>4 DEF ExchangeCode, LoopInv, JobInv, TypeOK, Row, HoldsLoop, LoopFree, Reply, NoJob
<1>5. ASSUME NEW w \in Workers, FetchUserId(w)
      PROVE  LoopInv'
  <2>1. \A v \in Workers : job[v].op # "upsert"
    BY <1>5 DEF FetchUserId, LoopFree, HoldsLoop, JobInv
  <2>2. job[w].user \in Users /\ job[w].provider \in Providers
    BY <1>5 DEF FetchUserId, JobInv
  <2>3. \A v \in Workers : v # w => job'[v] = job[v]
    BY <1>5 DEF FetchUserId, TypeOK
  <2>4. job'[w] = [job[w] EXCEPT !.op = "upsert", !.row = Row(w)]
    BY <1>5 DEF FetchUserId, TypeOK
  <2>5. job'[w].row = Row(w) /\ job'[w].user = job[w].user /\ job'[w].provider = job[w].provider
    BY <2>4 DEF TypeOK, JobRecords
  <2>6. Row(w)' = Row(w) BY <1>5, <2>5 DEF FetchUserId, Row
  <2>7. Row(w) # NoRow => Row(w).id \in stored BY <2>2 DEF Row, IdInv
  <2>8. \A v \in Workers : job'[v].op = "upsert" => v = w BY <2>1, <2>3
  <2>9. stored' = stored BY <1>5 DEF FetchUserId
  <2>10. \A v \in Workers : job'[v].op = "upsert" => Row(v)' = job'[v].row
    BY <2>5, <2>6, <2>8
  <2>11. \A v \in Workers : job'[v].op = "upsert" /\ job'[v].row # NoRow => job'[v].row.id \in stored'
    BY <2>5, <2>7, <2>8, <2>9
  <2> QED BY <2>8, <2>10, <2>11 DEF LoopInv
<1>6. ASSUME NEW w \in Workers, CallFails(w) \/ UpsertFails(w) \/ RunEnds(w)
      PROVE  LoopInv'
  BY <1>6 DEF CallFails, UpsertFails, RunEnds, LoopInv, JobInv, TypeOK, Row, HoldsLoop, LoopFree, Reply, NoJob
<1>7. ASSUME NEW w \in Workers, UpsertCommit(w)
      PROVE  LoopInv'
  <2>1. \A v \in Workers : v # w => job[v].op # "upsert"
    BY <1>7 DEF UpsertCommit, LoopInv
  <2>2. \A v \in Workers : job'[v].op # "upsert"
    BY <1>7, <2>1 DEF UpsertCommit, Reply, NoJob, TypeOK
  <2> QED BY <2>2 DEF LoopInv
<1>8. ASSUME NEW w \in Workers, NEW u \in Users, NEW p \in Providers, Disconnect(w, u, p)
      PROVE  LoopInv'
  BY <1>8 DEF Disconnect, LoopInv, JobInv, TypeOK, Row, HoldsLoop, LoopFree, Reply, NoJob
<1>9. ASSUME NEW w \in Workers, DeleteCommit(w)
      PROVE  LoopInv'
  <2>1. \A u \in Users, p \in Providers : conn'[u][p] \in {conn[u][p], NoRow}
    BY <1>9, DeletedRow
  <2>2. \A v \in Workers : job'[v].op = "upsert" => job'[v] = job[v]
    BY <1>9 DEF DeleteCommit, Reply, NoJob, TypeOK
  <2>3. \A v \in Workers : job'[v].op = "upsert" => Row(v)' \in {Row(v), NoRow}
    BY <2>1, <2>2 DEF JobInv, Row
  <2> QED BY <1>9, <2>2, <2>3 DEF DeleteCommit, LoopInv
<1>10. ASSUME NEW w \in Workers, NEW u \in Users, NEW p \in Providers,
             NEW token \in {None, Given}, NEW account \in {None, Given},
             InjectCredentials(w, u, p, token, account)
       PROVE  LoopInv'
  BY <1>10 DEF InjectCredentials, LoopInv, JobInv, TypeOK, Row, HoldsLoop, LoopFree, Reply, NoJob
<1>11. CASE Restart
  BY <1>11 DEF Restart, LoopInv, JobInv, TypeOK, Row, HoldsLoop, LoopFree, Reply, NoJob
<1>12. CASE UNCHANGED vars
  BY <1>12 DEF vars, LoopInv, JobInv, TypeOK, Row, HoldsLoop, LoopFree, Reply, NoJob
<1> QED
  BY <1>1, <1>2, <1>3, <1>4, <1>5, <1>6, <1>7, <1>8, <1>9, <1>10, <1>11, <1>12 DEF Next, Advance

-----------------------------------------------------------------------------
(* What was granted. *)

\* What was granted stays granted: a flow whose token has been stored is settled.
LEMMA GrantsLast ==
  ASSUME TypeOK, FlowInv, JobInv, TokenInv, [Next]_vars,
         NEW token, NEW account, NEW u, NEW p, Grants(token, account, u, p)
  PROVE  Grants(token, account, u, p)'
<1>1. token \in stored /\ token \in Flows /\ flow[token].status = "spent"
  BY DEF Grants, TypeOK, FlowInv
<1>2. stored \subseteq stored'
  BY DEF Next, Advance, vars, Authorize, Consent, Callback, ExchangeCode, FetchUserId, CallFails,
         UpsertCommit, UpsertFails, Disconnect, DeleteCommit, InjectCredentials, RunEnds, Restart
<1>3. flow'[token] = flow[token]
  <2>1. ASSUME NEW f \in Flows, NEW v \in Users, NEW q \in Providers, Authorize(f, v, q)
        PROVE  flow'[token] = flow[token]
    BY <1>1, <2>1 DEF Authorize, NoFlow, TypeOK
  <2>2. ASSUME NEW f \in Flows, NEW a \in Accounts, Consent(f, a)
        PROVE  flow'[token] = flow[token]
    BY <1>1, <2>2 DEF Consent, TypeOK
  <2>3. ASSUME NEW w \in Workers, ExchangeCode(w)
        PROVE  flow'[token] = flow[token]
    BY <1>1, <2>3 DEF ExchangeCode, TypeOK
  <2> QED
    BY <2>1, <2>2, <2>3
    DEF Next, Advance, vars, Callback, FetchUserId, CallFails,
        UpsertCommit, UpsertFails, Disconnect, DeleteCommit, InjectCredentials, RunEnds, Restart
<1> QED BY <1>1, <1>2, <1>3 DEF Grants

\* The table changes by an upsert and by a delete.
LEMMA TableChanges ==
  ASSUME TypeOK, FlowInv, JobInv, TokenInv, [Next]_vars
  PROVE  \/ \A u \in Users, p \in Providers : conn'[u][p] \in {conn[u][p], NoRow}
         \/ \E w \in Workers : UpsertCommit(w)
<1>1. ASSUME NEW w \in Workers, DeleteCommit(w)
      PROVE  \A u \in Users, p \in Providers : conn'[u][p] \in {conn[u][p], NoRow}
  BY <1>1, DeletedRow
<1>2. \/ UNCHANGED conn \/ \E w \in Workers : DeleteCommit(w) \/ UpsertCommit(w)
  BY DEF Next, Advance, vars, Authorize, Consent, Callback, ExchangeCode, FetchUserId, CallFails,
         UpsertFails, Disconnect, InjectCredentials, RunEnds, Restart
<1> QED BY <1>1, <1>2

\* The row an upsert leaves holds the token of its flow and the account that granted it.
LEMMA UpsertedGrants ==
  ASSUME TypeOK, FlowInv, JobInv, TokenInv, LoopInv, NEW w \in Workers, UpsertCommit(w),
         NEW u, NEW p, u = job[w].user, p = job[w].provider,
         NEW token, NEW account, token = Upserted(w).token, account = Upserted(w).account
  PROVE  /\ token = job[w].flow
         /\ Grants(token, account, u, p)'
<1> DEFINE f == job[w].flow
<1>1. f \in Flows /\ flow[f].user = u /\ flow[f].provider = p
  BY DEF UpsertCommit, JobInv
<1>2. f \in stored' /\ UNCHANGED flow BY DEF UpsertCommit
<1>3. Upserted(w).token = f /\ Upserted(w).account = flow[f].account
  <2>1. Row(w) \in {job[w].row, NoRow} /\ Row(w).id = job[w].row.id
    BY DEF UpsertCommit, LoopInv
  <2>2. job[w].row # NoRow => Row(w) = job[w].row
    BY <2>1, PlatformsAssumption DEF UpsertCommit, LoopInv, TypeOK, NoRow
  <2> QED BY <2>2 DEF Upserted
<1>4. token = f /\ account = flow[f].account BY <1>3
<1>5. token \in stored' /\ flow'[token].user = u /\ flow'[token].provider = p
      /\ flow'[token].account = account
  BY <1>1, <1>2, <1>4
<1> QED BY <1>4, <1>5 DEF Grants

\* upsert_connection and disconnect keep token and account of a row together.
LEMMA RowsStep ==
  ASSUME TypeOK, FlowInv, JobInv, TokenInv, LoopInv, RowsGranted, [Next]_vars
  PROVE  RowsGranted'
<1> SUFFICES ASSUME NEW u \in Users, NEW p \in Providers, conn'[u][p] # NoRow,
                    NEW token, NEW account,
                    token = conn'[u][p].token, account = conn'[u][p].account
             PROVE  Grants(token, account, u, p)'
  BY DEF RowsGranted, Grants
<1>1. CASE conn'[u][p] = conn[u][p]
  <2>1. Grants(token, account, u, p) BY <1>1 DEF RowsGranted
  <2> QED BY <2>1, GrantsLast
<1>2. ASSUME NEW w \in Workers, UpsertCommit(w), conn'[u][p] # conn[u][p]
      PROVE  Grants(token, account, u, p)'
  <2>1. conn'[u][p] = Upserted(w) /\ u = job[w].user /\ p = job[w].provider
    BY <1>2, UpsertedRow
  <2> QED BY <1>2, <2>1, UpsertedGrants
<1> QED BY <1>1, <1>2, TableChanges

\* inject_credentials hands a task what its own row holds.
LEMMA TasksStep ==
  ASSUME TypeOK, FlowInv, JobInv, TokenInv, LoopInv, RowsGranted, TasksGranted, [Next]_vars
  PROVE  TasksGranted'
<1> SUFFICES ASSUME NEW v \in Workers, job'[v].op = "run",
                    NEW t, NEW a, NEW x, NEW y,
                    t = job'[v].row.token, a = job'[v].row.account,
                    x = job'[v].user, y = job'[v].provider,
                    {t, a} \cap {None, Given} = {}
             PROVE  Grants(t, a, x, y)'
  BY DEF TasksGranted, Grants
<1>1. CASE job'[v] = job[v]
  <2>1. Grants(t, a, x, y) BY <1>1 DEF TasksGranted
  <2> QED BY <2>1, GrantsLast
<1>2. ASSUME NEW u \in Users, NEW p \in Providers,
             NEW token \in {None, Given}, NEW account \in {None, Given},
             InjectCredentials(v, u, p, token, account)
      PROVE  Grants(t, a, x, y)'
  <2>1. job'[v] = [op |-> "run", user |-> u, provider |-> p, flow |-> None,
                   row |-> Injected(conn[u][p], token, account)]
    BY <1>2 DEF InjectCredentials, TypeOK
  <2>2. t \notin {None, Given} /\ a \notin {None, Given} OBVIOUS
  <2>3. x = u /\ y = p /\ job'[v].row = Injected(conn[u][p], token, account) BY <2>1
  <2>4. t = conn[u][p].token /\ a = conn[u][p].account
    BY <2>2, <2>3 DEF Injected
  <2>5. conn[u][p] # NoRow BY <2>2, <2>4, RecordTypes
  <2>6. Grants(t, a, x, y) BY <2>3, <2>4, <2>5 DEF RowsGranted
  <2> QED BY <2>6, GrantsLast
<1>3. \/ job'[v] = job[v]
      \/ job'[v].op # "run"
      \/ \E u \in Users, p \in Providers, token \in {None, Given}, account \in {None, Given} :
            InjectCredentials(v, u, p, token, account)
  <2>1. ASSUME NEW w \in Workers, Advance(w)
        PROVE  job'[v] = job[v] \/ job'[v].op # "run"
    <3>1. CASE v # w
      BY <2>1, <3>1
      DEF Advance, ExchangeCode, FetchUserId, CallFails, UpsertCommit, UpsertFails, DeleteCommit,
          RunEnds, Reply, TypeOK
    <3>2. CASE v = w /\ ExchangeCode(w)
      BY <3>2 DEF ExchangeCode, TypeOK, JobRecords
    <3>3. CASE v = w /\ FetchUserId(w)
      BY <3>3 DEF FetchUserId, TypeOK, JobRecords
    <3>4. CASE v = w /\ job'[w] = NoJob
      BY <3>4 DEF NoJob
    <3>5. ExchangeCode(w) \/ FetchUserId(w) \/ job'[w] = NoJob
      BY <2>1 DEF Advance, CallFails, UpsertCommit, UpsertFails, DeleteCommit, RunEnds, Reply, TypeOK
    <3> QED BY <3>1, <3>2, <3>3, <3>4, <3>5
  <2>2. ASSUME NEW w \in Workers, NEW f \in Flows, Callback(w, f)
        PROVE  job'[v] = job[v] \/ job'[v].op # "run"
    BY <2>2 DEF Callback, TypeOK
  <2>3. ASSUME NEW w \in Workers, NEW u \in Users, NEW p \in Providers, Disconnect(w, u, p)
        PROVE  job'[v] = job[v] \/ job'[v].op # "run"
    BY <2>3 DEF Disconnect, TypeOK
  <2>4. ASSUME NEW w \in Workers, NEW u \in Users, NEW p \in Providers,
               NEW token \in {None, Given}, NEW account \in {None, Given},
               InjectCredentials(w, u, p, token, account)
        PROVE  job'[v] = job[v] \/ InjectCredentials(v, u, p, token, account)
    BY <2>4 DEF InjectCredentials, TypeOK
  <2>5. Restart => job'[v].op # "run" BY DEF Restart, NoJob
  <2>6. ASSUME NEW f \in Flows, NEW u \in Users, NEW p \in Providers, Authorize(f, u, p)
        PROVE  job'[v] = job[v]
    BY <2>6 DEF Authorize
  <2>7. ASSUME NEW f \in Flows, NEW b \in Accounts, Consent(f, b)
        PROVE  job'[v] = job[v]
    BY <2>7 DEF Consent
  <2>8. UNCHANGED vars => job'[v] = job[v] BY DEF vars
  <2> QED BY <2>1, <2>2, <2>3, <2>4, <2>5, <2>6, <2>7, <2>8 DEF Next
<1> QED BY <1>1, <1>2, <1>3

-----------------------------------------------------------------------------
(* The theorems. *)

\* Before anything happens there is nothing to be wrong.
LEMMA InitInv == Init => PlatformsInv
<1> SUFFICES ASSUME Init PROVE PlatformsInv OBVIOUS
<1>1. TypeOK BY RecordTypes DEF Init, TypeOK
<1>2. FlowInv BY DEF Init, FlowInv, NoFlow
<1>3. JobInv /\ TokenInv /\ LoopInv /\ TasksGranted
  BY DEF Init, JobInv, TokenInv, LoopInv, TasksGranted, NoJob
<1>4. IdInv /\ RowsGranted BY DEF Init, IdInv, RowsGranted
<1> QED BY <1>1, <1>2, <1>3, <1>4 DEF PlatformsInv

\* The parts of PlatformsInv lean on one another; together they are inductive.
LEMMA InvStep == PlatformsInv /\ [Next]_vars => PlatformsInv'
<1> SUFFICES ASSUME PlatformsInv, [Next]_vars PROVE PlatformsInv' OBVIOUS
<1>1. /\ TypeOK /\ FlowInv /\ IdInv /\ JobInv /\ TokenInv /\ LoopInv /\ RowsGranted /\ TasksGranted
  BY DEF PlatformsInv
<1>2. TypeOK' /\ FlowInv' BY <1>1, TypeStep, FlowStep
<1>3. IdInv' /\ LoopInv' BY <1>1, IdStep, LoopStep
<1>4. JobInv' /\ TokenInv' BY <1>1, JobStep, TokenStep
<1>5. RowsGranted' /\ TasksGranted' BY <1>1, RowsStep, TasksStep
<1> QED BY <1>2, <1>3, <1>4, <1>5 DEF PlatformsInv

\* The inductive invariant: the records of flows, rows and jobs, the single use of
\* a code, the one upsert at a time of the event loop.
THEOREM PlatformsInvariant == Spec => []PlatformsInv
BY InitInv, InvStep, PTL DEF Spec

\* upsert_connection and disconnect leave no row whose token and account were not
\* granted together to its user, however callbacks and disconnects interleave.
THEOREM RowsAreGranted == Spec => []RowsGranted
<1>1. PlatformsInv => RowsGranted BY DEF PlatformsInv
<1> QED BY <1>1, PlatformsInvariant, PTL

\* inject_credentials: a task runs with the credentials of its own renter, and what
\* it was given stays what was granted while the row changes under it.
THEOREM TasksAreGranted == Spec => []TasksGranted
<1>1. PlatformsInv => TasksGranted BY DEF PlatformsInv
<1> QED BY <1>1, PlatformsInvariant, PTL

\* upsert_connection inserts only where there is still no row: the UNIQUE
\* constraint of platform_connections is never hit.
THEOREM InsertsOnce == Spec => []OneInserter
<1>1. PlatformsInv => OneInserter BY DEF PlatformsInv, LoopInv, OneInserter
<1> QED BY <1>1, PlatformsInvariant, PTL

\* A repeated twitter_callback or discord_callback never brings back a token that
\* a disconnect or a later callback has removed.
THEOREM TokensNeverReturn == Spec => TokenNeverReturns
<1> DEFINE Same == \A u \in Users, p \in Providers :
                      conn'[u][p].token \in stored => conn'[u][p].token = conn[u][p].token
<1>1. PlatformsInv /\ [Next]_vars => Same
  <2> SUFFICES ASSUME PlatformsInv, [Next]_vars,
                      NEW u \in Users, NEW p \in Providers, conn'[u][p].token \in stored
               PROVE  conn'[u][p].token = conn[u][p].token
    OBVIOUS
  <2>1. TypeOK /\ FlowInv /\ JobInv /\ TokenInv /\ LoopInv BY DEF PlatformsInv
  <2>2. conn'[u][p] # NoRow
    BY <2>1, RecordTypes, PlatformsAssumption DEF TypeOK
  <2>3. CASE conn'[u][p] = conn[u][p] BY <2>3
  <2>4. ASSUME NEW w \in Workers, UpsertCommit(w), conn'[u][p] # conn[u][p]
        PROVE  FALSE
    <3>1. conn'[u][p] = Upserted(w) BY <2>1, <2>4, UpsertedRow
    <3>2. conn'[u][p].token = job[w].flow BY <3>1 DEF Upserted
    <3>3. job[w].flow \notin stored BY <2>1, <2>4 DEF UpsertCommit, TokenInv
    <3> QED BY <3>2, <3>3
  <2> QED BY <2>1, <2>2, <2>3, <2>4, TableChanges
<1>2. PlatformsInv /\ [Next]_vars => [Same]_vars BY <1>1
<1> HIDE DEF Same
<1>3. Spec => [][Same]_vars BY <1>2, PlatformsInvariant, PTL DEF Spec
<1> QED BY <1>3 DEF TokenNeverReturns, Same

=============================================================================
