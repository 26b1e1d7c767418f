---------------------------- MODULE ServerProofs ----------------------------
(* The invariant of Server, for any number of requests, connections and    *)
(* threads.                                                                *)
EXTENDS Server, FiniteSetTheorems, TLAPS

LEMMA Finite ==
  ASSUME TypeOK
  PROVE  IsFiniteSet(conn) /\ IsFiniteSet(InThread)
<1>1. IsFiniteSet(Tasks) BY ServerAssumption, FS_AddElement DEF Tasks
<1>2. conn \subseteq Tasks /\ InThread \subseteq Requests BY DEF TypeOK, InThread
<1> QED BY <1>1, <1>2, ServerAssumption, FS_Subset

\* The pool when a connection is taken, and when one may be given back.
LEMMA PoolTakes ==
  ASSUME TypeOK, PoolInv, NEW t \in Tasks, t \in wants, Cardinality(conn) < PoolSize,
         conn' = conn \cup {t}, wants' = wants \ {t}
  PROVE  PoolInv'
<1>1. t \notin conn /\ IsFiniteSet(conn) BY Finite DEF PoolInv
<1>2. Cardinality(conn \cup {t}) = Cardinality(conn) + 1 /\ Cardinality(conn) \in Nat
  BY <1>1, FS_AddElement, FS_CardinalityType
<1> QED BY <1>1, <1>2, ServerAssumption DEF PoolInv

LEMMA PoolGives ==
  ASSUME TypeOK, PoolInv, conn' \subseteq conn, wants' \subseteq wants
  PROVE  PoolInv'
<1>1. IsFiniteSet(conn) BY Finite
<1>2. Cardinality(conn') <= Cardinality(conn) /\ Cardinality(conn) \in Nat /\ Cardinality(conn') \in Nat
  BY <1>1, FS_Subset, FS_CardinalityType
<1> QED BY <1>2, ServerAssumption DEF PoolInv

\* The threads when nobody takes one.
LEMMA ThreadsLeft ==
  ASSUME TypeOK, Cardinality(InThread) <= Threads, InThread' \subseteq InThread
  PROVE  Cardinality(InThread') <= Threads
<1>1. IsFiniteSet(InThread) BY Finite
<1>2. Cardinality(InThread') <= Cardinality(InThread) /\ Cardinality(InThread) \in Nat
      /\ Cardinality(InThread') \in Nat
  BY <1>1, FS_Subset, FS_CardinalityType
<1> QED BY <1>2, ServerAssumption

\* A request moves on to a place that is neither a thread nor the loop, and
\* leaves the loop if it was there.
LEMMA MovesAway ==
  ASSUME ServerInv, NEW r \in Requests, NEW where \in {"asksUser", "asksThread", "ready", "awaits", "close", "done"},
         Goto(r, where), r \notin wants', wants' \subseteq wants, conn' \subseteq conn,
         where \in {"asksUser", "done"} => r \notin conn',
         loop' = IF loop = r THEN Idle ELSE loop,
         left' \in [Tasks -> 0 .. MaxRounds]
  PROVE  ServerInv'
<1>a. TypeOK /\ PoolInv /\ NothingLeaks /\ LoopInv BY DEF ServerInv
<1>b. r \in Tasks /\ r # Scheduler /\ r # Idle /\ Idle \notin Tasks
  BY ServerAssumption DEF Tasks
<1>1. pc'[r] = where /\ \A t \in Tasks : t # r => pc'[t] = pc[t] BY <1>a, <1>b DEF Goto, TypeOK
<1>2. TypeOK' BY <1>a, <1>b DEF TypeOK, Goto
<1>3. PoolInv' BY <1>a, PoolGives
<1>4. NothingLeaks'
  <2>1. \A t \in conn' \cup wants' : t # r => t \in conn \cup wants /\ pc'[t] = pc[t]
    BY <1>a, <1>1 DEF TypeOK
  <2> QED BY <1>a, <1>1, <2>1 DEF NothingLeaks
<1>5. InThread' \subseteq InThread BY <1>1, <1>b DEF InThread, Tasks
<1>6. LoopInv'
  <2>1. \A t \in Tasks : IF t = Scheduler THEN pc'[t] \in {"sleeps", "loop"} ELSE pc'[t] # "sleeps"
      BY <1>a, <1>b, <1>1 DEF LoopInv, Tasks
  <2>2. \A t \in Tasks : pc'[t] = "loop" <=> loop' = t
    <3> SUFFICES ASSUME NEW t \in Tasks PROVE pc'[t] = "loop" <=> loop' = t OBVIOUS
    <3>1. CASE t = r BY <1>b, <1>1, <3>1
    <3>2. CASE t # r BY <1>a, <1>b, <1>1, <3>2 DEF LoopInv
    <3> QED BY <3>1, <3>2
  <2>3. \A t \in wants' : pc'[t] \in {"user", "endpoint", "loop"}
    BY <1>a, <1>1 DEF LoopInv, TypeOK
  <2>4. Cardinality(InThread') <= Threads BY <1>a, <1>5, ThreadsLeft DEF LoopInv
  <2> QED BY <2>1, <2>2, <2>3, <2>4 DEF LoopInv
<1> QED BY <1>2, <1>3, <1>4, <1>6 DEF ServerInv

-----------------------------------------------------------------------------
\* Statements.

LEMMA StatementKeeps ==
  ASSUME ServerInv, NEW t \in Tasks, Statement(t)
  PROVE  ServerInv'
<1>a. TypeOK /\ PoolInv /\ NothingLeaks /\ LoopInv BY DEF ServerInv
<1>b. pc' = pc /\ loop' = loop BY DEF Statement, Execute, Checkout, Commit
<1>c. InThread' = InThread BY <1>b DEF InThread
<1>d. \A q \in Requests : pc[q] \in {"user", "endpoint"} => q \in InThread BY DEF InThread
<1>1. CASE Execute(t)
  <2>1. /\ t \notin conn /\ t \notin wants /\ wants' = wants \cup {t} /\ conn' = conn /\ left' = left
        /\ t \in InThread \/ loop = t
    BY <1>1 DEF Execute, Running
  <2>2. pc[t] \in {"user", "endpoint", "loop"} BY <1>a, <2>1 DEF InThread, LoopInv
  <2>3. TypeOK' BY <1>a, <1>b, <2>1 DEF TypeOK
  <2>4. PoolInv' BY <1>a, <2>1 DEF PoolInv
  <2>5. NothingLeaks' BY <1>a, <1>b, <2>1, <2>2 DEF NothingLeaks
  <2>6. LoopInv' BY <1>a, <1>b, <1>c, <2>1, <2>2 DEF LoopInv
  <2> QED BY <2>3, <2>4, <2>5, <2>6 DEF ServerInv
<1>2. CASE Checkout(t)
  <2>1. /\ t \in wants /\ Cardinality(conn) < PoolSize /\ conn' = conn \cup {t}
        /\ wants' = wants \ {t} /\ left' = left
    BY <1>2 DEF Checkout
  <2>2. TypeOK' BY <1>a, <1>b, <2>1 DEF TypeOK
  <2>3. PoolInv' BY <1>a, <2>1, PoolTakes
  <2>4. NothingLeaks' BY <1>a, <1>b, <2>1 DEF NothingLeaks
  <2>5. LoopInv' BY <1>a, <1>b, <1>c, <2>1 DEF LoopInv
  <2> QED BY <2>2, <2>3, <2>4, <2>5 DEF ServerInv
<1>3. CASE Commit(t)
  <2>1. conn' = conn \ {t} /\ wants' = wants /\ left[t] > 0 /\ left' = [left EXCEPT ![t] = left[t] - 1]
    BY <1>3 DEF Commit, OneLess
  <2>2. left' \in [Tasks -> 0 .. MaxRounds] BY <1>a, <2>1, ServerAssumption DEF TypeOK
  <2>3. TypeOK' BY <1>a, <1>b, <2>1, <2>2 DEF TypeOK
  <2>4. PoolInv' BY <1>a, <2>1, PoolGives
  <2>5. NothingLeaks' BY <1>a, <1>b, <2>1 DEF NothingLeaks
  <2>6. LoopInv' BY <1>a, <1>b, <1>c, <2>1 DEF LoopInv
  <2> QED BY <2>3, <2>4, <2>5, <2>6 DEF ServerInv
<1> QED BY <1>1, <1>2, <1>3 DEF Statement

\* A request arrives.
LEMMA ArriveKeeps ==
  ASSUME ServerInv, NEW r \in Requests, NEW rounds \in 0 .. MaxRounds, Arrive(r, rounds)
  PROVE  ServerInv'
<1>a. TypeOK /\ PoolInv /\ NothingLeaks /\ LoopInv BY DEF ServerInv
<1>b. r \in Tasks /\ r # Idle BY ServerAssumption DEF Tasks
<1>1. PICK where \in {"asksUser", "asksThread", "ready"} : Goto(r, where) BY DEF Arrive, ForEndpoint
<1>2. r \notin conn /\ r \notin wants BY <1>a DEF Arrive, NothingLeaks
<1>3. left' \in [Tasks -> 0 .. MaxRounds] BY <1>a, <1>b DEF Arrive, TypeOK
<1>4. conn' = conn /\ wants' = wants /\ loop = Idle /\ loop' = loop BY DEF Arrive, LoopFree
<1> QED BY <1>b, <1>1, <1>2, <1>3, <1>4, MovesAway

\* What a request does.
LEMMA RunsKeeps ==
  ASSUME ServerInv, NEW r \in Requests, Runs(r)
  PROVE  ServerInv'
<1>a. TypeOK /\ PoolInv /\ NothingLeaks /\ LoopInv BY DEF ServerInv
<1>b. r \in Tasks /\ r # Idle BY ServerAssumption DEF Tasks
<1>c. left \in [Tasks -> 0 .. MaxRounds] BY <1>a DEF TypeOK
<1>1. CASE Statement(r) BY <1>1, <1>b, StatementKeeps
<1>2. CASE PoolTimeout(r)
  <2>1. /\ Goto(r, "close") /\ wants' = wants \ {r} /\ conn' = conn /\ left' = left
        /\ loop' = IF loop = r THEN Idle ELSE loop
    BY <1>2 DEF PoolTimeout
  <2> QED BY <1>c, <2>1, MovesAway
<1>3. CASE Await(r)
  <2>1. /\ Goto(r, "awaits") /\ wants' = wants /\ conn' = conn /\ r \notin wants /\ loop = r /\ loop' = Idle
        /\ left[r] > 0 /\ left' = [left EXCEPT ![r] = left[r] - 1]
    BY <1>3 DEF Await, OneLess, Running
  <2>2. left' \in [Tasks -> 0 .. MaxRounds] BY <1>b, <1>c, <2>1, ServerAssumption
  <2> QED BY <2>1, <2>2, MovesAway
<1>4. CASE CoroutineReturns(r)
  <2>1. /\ Goto(r, "close") /\ wants' = wants /\ conn' = conn /\ left' = left /\ r \notin wants
        /\ loop = r /\ loop' = Idle
    BY <1>4 DEF CoroutineReturns, Running
  <2> QED BY <1>c, <2>1, MovesAway
<1> QED BY <1>1, <1>2, <1>3, <1>4 DEF Runs

\* What the loop does for a request.
LEMMA ServedKeeps ==
  ASSUME ServerInv, NEW r \in Requests, Served(r)
  PROVE  ServerInv'
<1>a. TypeOK /\ PoolInv /\ NothingLeaks /\ LoopInv BY DEF ServerInv
<1>b. r \in Tasks /\ r # Idle /\ r # Scheduler /\ Idle \notin Tasks BY ServerAssumption DEF Tasks
<1>c. left \in [Tasks -> 0 .. MaxRounds] BY <1>a DEF TypeOK
<1>d. r \in wants => pc[r] \in {"user", "endpoint", "loop"} BY <1>a DEF LoopInv
<1>1. CASE TakeThread(r)
  <2>1. PICK where \in {"user", "endpoint"} : Goto(r, where) BY <1>1 DEF TakeThread
  <2>2. /\ Cardinality(InThread) < Threads /\ pc[r] \in {"asksUser", "asksThread"} /\ loop = Idle
        /\ conn' = conn /\ wants' = wants /\ left' = left /\ loop' = loop
    BY <1>1 DEF TakeThread, LoopFree
  <2>3. pc'[r] = where /\ \A t \in Tasks : t # r => pc'[t] = pc[t] BY <1>a, <1>b, <2>1 DEF Goto, TypeOK
  <2>4. TypeOK' BY <1>a, <1>b, <2>1, <2>2 DEF TypeOK, Goto
  <2>5. PoolInv' BY <1>a, <2>2, PoolGives
  <2>6. NothingLeaks' BY <1>a, <2>2, <2>3 DEF NothingLeaks, TypeOK
  <2>7. Cardinality(InThread') <= Threads
    <3>1. InThread' = InThread \cup {r} BY <2>3, <1>b DEF InThread, Tasks
    <3>2. r \notin InThread BY <2>2 DEF InThread
    <3>3. Cardinality(InThread \cup {r}) = Cardinality(InThread) + 1 /\ Cardinality(InThread) \in Nat
      BY <1>a, <3>2, Finite, FS_AddElement, FS_CardinalityType
    <3> QED BY <2>2, <3>1, <3>3, ServerAssumption
  <2>8. LoopInv'
    <3>1. \A t \in Tasks : pc'[t] = "loop" <=> loop' = t BY <1>a, <1>b, <2>2, <2>3 DEF LoopInv
    <3>2. \A t \in wants' : pc'[t] \in {"user", "endpoint", "loop"} BY <1>a, <2>2, <2>3 DEF LoopInv, TypeOK
    <3>3. \A t \in Tasks : IF t = Scheduler THEN pc'[t] \in {"sleeps", "loop"} ELSE pc'[t] # "sleeps"
      BY <1>a, <1>b, <2>3 DEF LoopInv, Tasks
    <3> QED BY <2>7, <3>1, <3>2, <3>3 DEF LoopInv
  <2> QED BY <2>4, <2>5, <2>6, <2>8 DEF ServerInv
<1>2. CASE UserKnown(r)
  <2>1. PICK where \in {"asksThread", "ready", "close"} : Goto(r, where) BY <1>2 DEF UserKnown, ForEndpoint
  <2>2. /\ r \notin wants /\ loop = Idle /\ loop' = loop /\ conn' = conn /\ wants' = wants /\ left' = left
    BY <1>2 DEF UserKnown, LoopFree, Running
  <2> QED BY <1>b, <1>c, <2>1, <2>2, MovesAway
<1>3. CASE EndpointReturns(r)
  <2>1. /\ Goto(r, "close") /\ r \notin wants /\ loop = Idle /\ loop' = loop
        /\ conn' = conn /\ wants' = wants /\ left' = left
    BY <1>3 DEF EndpointReturns, LoopFree, Running
  <2> QED BY <1>b, <1>c, <2>1, MovesAway
<1>4. CASE Resume(r)
  <2>1. /\ Goto(r, "loop") /\ pc[r] \in {"ready", "awaits"} /\ loop = Idle /\ loop' = r
        /\ conn' = conn /\ wants' = wants /\ left' = left
    BY <1>4 DEF Resume, LoopFree
  <2>2. pc'[r] = "loop" /\ \A t \in Tasks : t # r => pc'[t] = pc[t] BY <1>a, <1>b, <2>1 DEF Goto, TypeOK
  <2>3. TypeOK' BY <1>a, <1>b, <2>1 DEF TypeOK, Goto
  <2>4. PoolInv' BY <1>a, <2>1, PoolGives
  <2>5. NothingLeaks' BY <1>a, <2>1, <2>2 DEF NothingLeaks, TypeOK
  <2>6. InThread' \subseteq InThread BY <2>2, <1>b DEF InThread, Tasks
  <2>7. Cardinality(InThread') <= Threads BY <1>a, <2>6, ThreadsLeft DEF LoopInv
  <2>8. LoopInv'
    <3>1. \A t \in Tasks : pc'[t] = "loop" <=> loop' = t BY <1>a, <1>b, <2>1, <2>2 DEF LoopInv
    <3>2. \A t \in wants' : pc'[t] \in {"user", "endpoint", "loop"} BY <1>a, <2>1, <2>2 DEF LoopInv, TypeOK
    <3>3. \A t \in Tasks : IF t = Scheduler THEN pc'[t] \in {"sleeps", "loop"} ELSE pc'[t] # "sleeps"
      BY <1>a, <1>b, <2>2 DEF LoopInv, Tasks
    <3> QED BY <2>7, <3>1, <3>2, <3>3 DEF LoopInv
  <2> QED BY <2>3, <2>4, <2>5, <2>8 DEF ServerInv
<1>5. CASE Close(r)
  <2>1. /\ Goto(r, "done") /\ pc[r] = "close" /\ loop = Idle /\ loop' = loop
        /\ conn' = conn \ {r} /\ wants' = wants /\ left' = left
    BY <1>5 DEF Close, LoopFree
  <2>2. r \notin wants BY <1>d, <2>1
  <2> QED BY <1>b, <1>c, <2>1, <2>2, MovesAway
<1> QED BY <1>1, <1>2, <1>3, <1>4, <1>5 DEF Served

-----------------------------------------------------------------------------
\* The scheduler.

LEMMA TickBeginsKeeps ==
  ASSUME ServerInv, NEW rounds \in 0 .. MaxRounds, TickBegins(rounds)
  PROVE  ServerInv'
<1>a. TypeOK /\ PoolInv /\ NothingLeaks /\ LoopInv BY DEF ServerInv
<1>b. Scheduler \in Tasks /\ Scheduler \notin Requests /\ Idle \notin Tasks BY ServerAssumption DEF Tasks
<1>1. /\ Goto(Scheduler, "loop") /\ pc[Scheduler] = "sleeps" /\ loop = Idle /\ loop' = Scheduler
      /\ conn' = conn /\ wants' = wants \cup {Scheduler} /\ left' = [left EXCEPT ![Scheduler] = rounds]
  BY DEF TickBegins, LoopFree
<1>2. pc'[Scheduler] = "loop" /\ \A t \in Tasks : t # Scheduler => pc'[t] = pc[t]
  BY <1>a, <1>b, <1>1 DEF Goto, TypeOK
<1>3. Scheduler \notin conn BY <1>a, <1>1 DEF NothingLeaks
<1>4. TypeOK' BY <1>a, <1>b, <1>1 DEF TypeOK, Goto
<1>5. PoolInv' BY <1>a, <1>1, <1>3 DEF PoolInv
<1>6. NothingLeaks' BY <1>a, <1>1, <1>2 DEF NothingLeaks, TypeOK
<1>7. InThread' = InThread BY <1>b, <1>2 DEF InThread, Tasks
<1>8. LoopInv'
  <2>1. \A t \in Tasks : pc'[t] = "loop" <=> loop' = t BY <1>a, <1>b, <1>1, <1>2 DEF LoopInv
  <2>2. \A t \in wants' : pc'[t] \in {"user", "endpoint", "loop"} BY <1>a, <1>1, <1>2 DEF LoopInv, TypeOK
  <2> QED BY <1>a, <1>2, <1>7, <2>1, <2>2 DEF LoopInv
<1> QED BY <1>4, <1>5, <1>6, <1>8 DEF ServerInv

LEMMA TickLeavesKeeps ==
  ASSUME ServerInv, TickLeaves("sleeps")
  PROVE  ServerInv'
<1>a. TypeOK /\ PoolInv /\ NothingLeaks /\ LoopInv BY DEF ServerInv
<1>b. Scheduler \in Tasks /\ Scheduler \notin Requests /\ Idle \notin Tasks BY ServerAssumption DEF Tasks
<1>1. /\ Goto(Scheduler, "sleeps") /\ loop = Scheduler /\ loop' = Idle
      /\ conn' = conn \ {Scheduler} /\ wants' = wants \ {Scheduler} /\ left' = left
  BY DEF TickLeaves
<1>2. pc'[Scheduler] = "sleeps" /\ \A t \in Tasks : t # Scheduler => pc'[t] = pc[t]
  BY <1>a, <1>b, <1>1 DEF Goto, TypeOK
<1>3. TypeOK' BY <1>a, <1>b, <1>1 DEF TypeOK, Goto
<1>4. PoolInv' BY <1>a, <1>1, PoolGives
<1>5. NothingLeaks' BY <1>a, <1>1, <1>2 DEF NothingLeaks, TypeOK
<1>6. InThread' = InThread BY <1>b, <1>2 DEF InThread, Tasks
<1>7. LoopInv'
  <2>1. \A t \in Tasks : pc'[t] = "loop" <=> loop' = t BY <1>a, <1>b, <1>1, <1>2 DEF LoopInv
  <2>2. \A t \in wants' : pc'[t] \in {"user", "endpoint", "loop"} BY <1>a, <1>1, <1>2 DEF LoopInv, TypeOK
  <2> QED BY <1>a, <1>2, <1>6, <2>1, <2>2 DEF LoopInv
<1> QED BY <1>3, <1>4, <1>5, <1>7 DEF ServerInv

-----------------------------------------------------------------------------
\* The theorems.

LEMMA InitHolds == Init => ServerInv
<1> SUFFICES ASSUME Init PROVE ServerInv OBVIOUS
<1>a. Scheduler \in Tasks /\ Scheduler \notin Requests /\ Idle \notin Tasks /\ MaxRounds \in Nat
  BY ServerAssumption DEF Tasks
<1>1. TypeOK BY <1>a DEF Init, TypeOK
<1>2. conn = {} /\ wants = {} BY DEF Init
<1>3. PoolInv BY <1>2, FS_EmptySet, ServerAssumption DEF PoolInv
<1>4. NothingLeaks BY <1>2 DEF NothingLeaks
<1>5. \A t \in Tasks : pc[t] = IF t = Scheduler THEN "sleeps" ELSE "new" BY DEF Init
<1>6. InThread = {} BY <1>5 DEF InThread, Tasks
<1>7. Cardinality(InThread) <= Threads BY <1>6, FS_EmptySet, ServerAssumption
<1>8. LoopInv
  <2>1. pc[Scheduler] = "sleeps" BY <1>a DEF Init
  <2>2. \A t \in Tasks : pc[t] = "loop" <=> loop = t BY <1>a, <1>5 DEF Init
  <2> QED BY <1>a, <1>2, <1>5, <1>7, <2>1, <2>2 DEF LoopInv
<1> QED BY <1>1, <1>3, <1>4, <1>8 DEF ServerInv

LEMMA StepHolds == ServerInv /\ [Next]_vars => ServerInv'
<1> SUFFICES ASSUME ServerInv, [Next]_vars PROVE ServerInv' OBVIOUS
<1>1. ASSUME NEW r \in Requests, NEW rounds \in 0 .. MaxRounds, Arrive(r, rounds) PROVE ServerInv'
  BY <1>1, ArriveKeeps
<1>2. ASSUME NEW r \in Requests, Runs(r) PROVE ServerInv' BY <1>2, RunsKeeps
<1>3. ASSUME NEW r \in Requests, Served(r) PROVE ServerInv' BY <1>3, ServedKeeps
<1>4. ASSUME NEW rounds \in 0 .. MaxRounds, TickBegins(rounds) PROVE ServerInv' BY <1>4, TickBeginsKeeps
<1>5. CASE Tick
  <2>1. Scheduler \in Tasks BY DEF Tasks
  <2>2. CASE Statement(Scheduler) BY <2>1, <2>2, StatementKeeps
  <2>3. CASE TickEnds \/ TickFails BY <2>3, TickLeavesKeeps DEF TickEnds, TickFails
  <2> QED BY <1>5, <2>2, <2>3 DEF Tick
<1>6. CASE UNCHANGED vars
  BY <1>6 DEF vars, ServerInv, TypeOK, PoolInv, NothingLeaks, LoopInv, InThread
<1> QED BY <1>1, <1>2, <1>3, <1>4, <1>5, <1>6 DEF Next

\* Sessions, threads and the loop stay in order together, whatever their numbers:
\* db.py, deps.py, run_scheduler_forever.
THEOREM ServerInvariant == Spec => []ServerInv
BY InitHolds, StepHolds, PTL DEF Spec

\* get_session, tick_once: no request and no tick takes its connection with it.
THEOREM NothingLeaksTheorem == Spec => []NothingLeaks
<1>1. ServerInv => NothingLeaks BY DEF ServerInv
<1> QED BY <1>1, ServerInvariant, PTL

\* The pool is never overdrawn, and nobody who waits for a connection has one.
THEOREM PoolTheorem == Spec => []PoolInv
<1>1. ServerInv => PoolInv BY DEF ServerInv
<1> QED BY <1>1, ServerInvariant, PTL

-----------------------------------------------------------------------------
(* What RequestsServed rests on besides fairness: nobody waits in a circle,  *)
(* and nobody goes round in one.                                             *)

\* A step of t's own, in its thread or on the loop, that needs no timeout.
Moves(t) == t \in Running \/ (t \in wants /\ Cardinality(conn) < PoolSize)

\* The loop, once it is free, has something to do for r.
Serves(r) ==
    \/ pc[r] \in {"asksUser", "asksThread"} /\ Cardinality(InThread) < Threads
    \/ pc[r] \in {"user", "endpoint"} /\ r \in Running
    \/ pc[r] \in {"ready", "awaits", "close"}

\* All connections are taken, and somebody waits for one: the 30 seconds run.
Exhausted == Cardinality(conn) = PoolSize /\ wants # {}

\* Requests that hold connections wait for threads, threads and the loop wait for
\* connections, and yet, until all requests are answered, there is somebody who can go
\* on: whoever is on the loop; or else the request itself; or else, all threads being
\* taken, each of those who have one.  The only exception is an exhausted pool, and
\* there the timeout of the pool lets somebody go.
THEOREM NoCircleTheorem ==
  Spec => [](\A r \in Requests : pc[r] \notin {"new", "done"} =>
                \/ Exhausted
                \/ loop # Idle /\ Moves(loop)
                \/ loop = Idle /\ (Serves(r) \/ Moves(r))
                \/ /\ loop = Idle /\ pc[r] \in {"asksUser", "asksThread"}
                   /\ InThread # {} /\ \A q \in InThread : Serves(q) \/ Moves(q))
<1> DEFINE Goes(r) ==
                \/ Exhausted
                \/ loop # Idle /\ Moves(loop)
                \/ loop = Idle /\ (Serves(r) \/ Moves(r))
                \/ /\ loop = Idle /\ pc[r] \in {"asksUser", "asksThread"}
                   /\ InThread # {} /\ \A q \in InThread : Serves(q) \/ Moves(q)
<1>1. ASSUME ServerInv, NEW r \in Requests, pc[r] \notin {"new", "done"} PROVE Goes(r)
  <2>a. TypeOK /\ PoolInv /\ LoopInv /\ r \in Tasks BY <1>1 DEF ServerInv, Tasks
  <2>b. IsFiniteSet(conn) /\ IsFiniteSet(InThread) BY <2>a, Finite
  <2>c. Cardinality(conn) \in Nat /\ Cardinality(InThread) \in Nat /\ PoolSize \in Nat /\ Threads \in Nat \ {0}
    BY <2>b, FS_CardinalityType, ServerAssumption
  <2>d. ASSUME ~ Exhausted, NEW t \in Tasks, t \in InThread \/ loop = t PROVE Moves(t)
    BY <2>a, <2>c, <2>d DEF Moves, Running, Exhausted, PoolInv
  <2>e. SUFFICES ASSUME ~ Exhausted PROVE Goes(r) OBVIOUS
  <2>1. CASE loop # Idle
    <3>1. loop \in Tasks BY <2>a, <2>1 DEF TypeOK
    <3> QED BY <2>e, <2>1, <2>d, <3>1
  <2>2. CASE loop = Idle /\ pc[r] \in {"user", "endpoint"}
    <3>1. r \in InThread BY <2>2 DEF InThread
    <3> QED BY <2>e, <2>2, <2>a, <2>d, <3>1
  <2>3. CASE loop = Idle /\ pc[r] \in {"asksUser", "asksThread"}
    <3>1. CASE Cardinality(InThread) < Threads BY <2>3, <3>1 DEF Serves
    <3>2. CASE ~ (Cardinality(InThread) < Threads)
      <4>1. InThread # {} BY <2>c, <3>2, FS_EmptySet
      <4>2. \A q \in InThread : Moves(q) BY <2>d, <2>e DEF InThread, Tasks
      <4> QED BY <2>3, <4>1, <4>2
    <3> QED BY <3>1, <3>2
  <2>4. CASE loop = Idle /\ pc[r] \in {"ready", "awaits", "close"} BY <2>4 DEF Serves
  <2>5. pc[r] # "loop" \/ loop = r BY <2>a DEF LoopInv
  <2>6. r # Idle /\ r # Scheduler BY ServerAssumption
  <2>7. pc[r] # "sleeps" BY <2>a, <2>6 DEF LoopInv
  <2> QED BY <1>1, <2>1, <2>2, <2>3, <2>4, <2>5, <2>6, <2>7, <2>a DEF TypeOK
<1>2. ServerInv => \A r \in Requests : pc[r] \notin {"new", "done"} => Goes(r) BY <1>1
<1> QED BY <1>2, ServerInvariant, PTL

\* How far it is to the answer: the places on the way to it, and below that what there
\* is to do for the next connection.
Place(where) ==
    CASE where = "asksUser" -> 6
      [] where = "user" -> 5
      [] where \in {"asksThread", "ready", "awaits"} -> 4
      [] where \in {"endpoint", "loop"} -> 3
      [] where = "close" -> 2
      [] OTHER -> 1

Grip(r) == IF r \in conn THEN 0 ELSE IF r \in wants THEN 1 ELSE 2

Weight(r) == 4 * left[r] + 3 * Place(pc[r]) + Grip(r)

Still(r) == UNCHANGED <<pc[r], left[r], Grip(r)>>

LEMMA PlaceType == \A where : Place(where) \in 1 .. 6
<1> SUFFICES ASSUME NEW where PROVE Place(where) \in 1 .. 6 OBVIOUS
<1> QED BY DEF Place

LEMMA GripType == \A r : Grip(r) \in 0 .. 2 BY DEF Grip

LEMMA WeightType ==
  ASSUME TypeOK, NEW r \in Requests
  PROVE  left[r] \in 0 .. MaxRounds /\ Weight(r) \in 0 .. 4 * MaxRounds + 20
<1>1. left[r] \in 0 .. MaxRounds /\ MaxRounds \in Nat BY ServerAssumption DEF TypeOK, Tasks
<1>2. Place(pc[r]) \in 1 .. 6 /\ Grip(r) \in 0 .. 2 BY PlaceType, GripType
<1> QED BY <1>1, <1>2 DEF Weight

\* A request goes on: it gets nearer, or it spends one of its rounds.
LEMMA Lighter ==
  ASSUME TypeOK, TypeOK', NEW r \in Requests,
         \/ left'[r] = left[r] /\ 3 * Place(pc'[r]) + Grip(r)' < 3 * Place(pc[r]) + Grip(r)
         \/ left'[r] = left[r] - 1 /\ 3 * Place(pc'[r]) + Grip(r)' < 3 * Place(pc[r]) + Grip(r) + 4
  PROVE  Weight(r)' < Weight(r)
<1>1. left[r] \in Nat /\ left'[r] \in Nat BY ServerAssumption DEF TypeOK, Tasks
<1>2. Place(pc[r]) \in 1 .. 6 /\ Place(pc'[r]) \in 1 .. 6 BY PlaceType
<1>3. Grip(r) \in 0 .. 2 BY GripType
<1>4. Grip(r)' \in 0 .. 2 BY DEF Grip
<1>5. Weight(r)' = 4 * left'[r] + 3 * Place(pc'[r]) + Grip(r)' BY DEF Weight, Place
<1> HIDE DEF Place, Grip
<1> QED BY <1>1, <1>2, <1>3, <1>4, <1>5 DEF Weight

\* Statements: of r, or of somebody else.
LEMMA StatementLighter ==
  ASSUME ServerInv, ServerInv', NEW r \in Requests, NEW t \in Tasks, Statement(t)
  PROVE  Still(r) \/ Weight(r)' < Weight(r)
<1>a. TypeOK /\ TypeOK' /\ PoolInv BY DEF ServerInv
<1>b. r \in Tasks BY DEF Tasks
<1>c. Place(pc[r]) \in 1 .. 6 BY PlaceType
<1>1. CASE t # r
  <2>1. pc'[r] = pc[r] /\ left'[r] = left[r]
    BY <1>1, <1>a, <1>b DEF Statement, Execute, Checkout, Commit, OneLess, TypeOK
  <2>2. (r \in conn' <=> r \in conn) /\ (r \in wants' <=> r \in wants)
    BY <1>1 DEF Statement, Execute, Checkout, Commit
  <2> QED BY <2>1, <2>2 DEF Still, Grip
<1>2. CASE t = r /\ Execute(t)
  <2>1. pc' = pc /\ left' = left BY <1>2 DEF Execute
  <2>2. Grip(r) = 2 /\ Grip(r)' = 1 BY <1>2 DEF Execute, Running, Grip
  <2> QED BY <1>a, <1>c, <2>1, <2>2, Lighter
<1>3. CASE t = r /\ Checkout(t)
  <2>1. pc' = pc /\ left' = left BY <1>3 DEF Checkout
  <2>2. Grip(r) = 1 /\ Grip(r)' = 0 BY <1>3, <1>a DEF Checkout, Grip, PoolInv
  <2> QED BY <1>a, <1>c, <2>1, <2>2, Lighter
<1>4. CASE t = r /\ Commit(t)
  <2>1. pc' = pc /\ left'[r] = left[r] - 1 BY <1>4, <1>a, <1>b DEF Commit, OneLess, TypeOK
  <2>2. Grip(r) = 0 /\ Grip(r)' = 2 BY <1>4 DEF Commit, Running, Grip
  <2> QED BY <1>a, <1>c, <2>1, <2>2, Lighter
<1> QED BY <1>1, <1>2, <1>3, <1>4 DEF Statement

\* The other steps of a request q leave the others where they are.
LEMMA OthersStill ==
  ASSUME TypeOK, NEW r \in Requests, NEW q \in Tasks, q # r,
         NEW where, Goto(q, where),
         left' = left \/ left' = [left EXCEPT ![q] = left'[q]],
         conn' = conn \/ conn' = conn \ {q},
         wants' = wants \/ wants' = wants \ {q} \/ wants' = wants \cup {q}
  PROVE  Still(r)
<1>1. pc'[r] = pc[r] /\ left'[r] = left[r] BY DEF TypeOK, Tasks, Goto
<1>2. (r \in conn' <=> r \in conn) /\ (r \in wants' <=> r \in wants) OBVIOUS
<1> QED BY <1>1, <1>2 DEF Still, Grip

LEMMA RunsLighter ==
  ASSUME ServerInv, ServerInv', NEW r \in Requests, Runs(r), ~ Statement(r)
  PROVE  Weight(r)' < Weight(r)
<1>a. TypeOK /\ TypeOK' /\ PoolInv /\ LoopInv BY DEF ServerInv
<1>b. r \in Tasks BY DEF Tasks
<1>c. Grip(r) \in 0 .. 2 BY GripType
<1>1. CASE PoolTimeout(r)
  <2>1. pc'[r] = "close" /\ left' = left /\ pc[r] \in {"user", "endpoint", "loop"}
    BY <1>1, <1>a, <1>b DEF PoolTimeout, Goto, TypeOK, LoopInv
  <2>2. Grip(r) = 1 /\ Grip(r)' = 2 BY <1>1, <1>a DEF PoolTimeout, Grip, PoolInv
  <2>3. Place(pc[r]) \in {3, 5} /\ Place(pc'[r]) = 2 BY <2>1 DEF Place
  <2> QED BY <1>a, <2>1, <2>2, <2>3, Lighter
<1>2. CASE Await(r)
  <2>1. pc'[r] = "awaits" /\ left'[r] = left[r] - 1 /\ pc[r] = "loop"
    BY <1>2, <1>a, <1>b DEF Await, OneLess, Goto, TypeOK, LoopInv
  <2>2. Grip(r)' = Grip(r) BY <1>2 DEF Await, Grip
  <2>3. Place(pc[r]) = 3 /\ Place(pc'[r]) = 4 BY <2>1 DEF Place
  <2> QED BY <1>a, <1>c, <2>1, <2>2, <2>3, Lighter
<1>3. CASE CoroutineReturns(r)
  <2>1. pc'[r] = "close" /\ left' = left /\ pc[r] = "loop"
    BY <1>3, <1>a, <1>b DEF CoroutineReturns, Goto, TypeOK, LoopInv
  <2>2. Grip(r)' = Grip(r) BY <1>3 DEF CoroutineReturns, Grip
  <2>3. Place(pc[r]) = 3 /\ Place(pc'[r]) = 2 BY <2>1 DEF Place
  <2> QED BY <1>a, <1>c, <2>1, <2>2, <2>3, Lighter
<1> QED BY <1>1, <1>2, <1>3 DEF Runs

LEMMA ServedLighter ==
  ASSUME ServerInv, ServerInv', NEW r \in Requests, Served(r)
  PROVE  Weight(r)' < Weight(r)
<1>a. TypeOK /\ TypeOK' BY DEF ServerInv
<1>b. r \in Tasks BY DEF Tasks
<1>c. Grip(r) \in 0 .. 2 BY GripType
<1>1. CASE Close(r)
  <2>1. pc[r] = "close" /\ pc'[r] = "done" /\ left' = left
    BY <1>1, <1>a, <1>b DEF Close, Goto, TypeOK
  <2>2. Place(pc[r]) = 2 /\ Place(pc'[r]) = 1 BY <2>1 DEF Place
  <2>3. Grip(r)' \in 0 .. 2 /\ Grip(r)' <= Grip(r) + 2 BY <1>c DEF Grip
  <2> QED BY <1>a, <1>c, <2>1, <2>2, <2>3, Lighter
<1>2. CASE ~ Close(r)
  <2>1. left' = left /\ conn' = conn /\ wants' = wants
    BY <1>2 DEF Served, TakeThread, UserKnown, EndpointReturns, Resume
  <2>2. Grip(r)' = Grip(r) BY <2>1 DEF Grip
  <2>3. \/ pc[r] = "asksUser" /\ pc'[r] = "user"
        \/ pc[r] = "asksThread" /\ pc'[r] = "endpoint"
        \/ pc[r] = "user" /\ pc'[r] \in {"asksThread", "ready", "close"}
        \/ pc[r] = "endpoint" /\ pc'[r] = "close"
        \/ pc[r] \in {"ready", "awaits"} /\ pc'[r] = "loop"
    <3>1. CASE TakeThread(r) BY <3>1, <1>a, <1>b DEF TakeThread, Goto, TypeOK
    <3>2. CASE UserKnown(r) BY <3>2, <1>a, <1>b DEF UserKnown, ForEndpoint, Goto, TypeOK
    <3>3. CASE EndpointReturns(r) BY <3>3, <1>a, <1>b DEF EndpointReturns, Goto, TypeOK
    <3>4. CASE Resume(r) BY <3>4, <1>a, <1>b DEF Resume, Goto, TypeOK
    <3> QED BY <1>2, <3>1, <3>2, <3>3, <3>4 DEF Served
  <2>4. Place(pc'[r]) < Place(pc[r]) /\ Place(pc'[r]) \in 1 .. 6 /\ Place(pc[r]) \in 1 .. 6
    BY <2>3 DEF Place
  <2> QED BY <1>a, <1>c, <2>1, <2>2, <2>4, Lighter
<1> QED BY <1>1, <1>2

\* Each step of a request takes it nearer to its answer, whatever the others do, and
\* no step of the others takes it back: it is answered, also with a timeout and after
\* any number of commits and awaits, within 4 * MaxRounds + 20 steps of its own.
THEOREM NearerTheorem ==
  Spec => /\ [](\A r \in Requests : Weight(r) \in 0 .. 4 * MaxRounds + 20)
          /\ [][\A r \in Requests : pc[r] # "new" => Still(r) \/ Weight(r)' < Weight(r)]_vars
<1>1. ServerInv => \A r \in Requests : Weight(r) \in 0 .. 4 * MaxRounds + 20
  BY WeightType DEF ServerInv
<1>2. ASSUME ServerInv, ServerInv', [Next]_vars, NEW r \in Requests, pc[r] # "new"
      PROVE  Still(r) \/ Weight(r)' < Weight(r)
  <2>a. TypeOK BY <1>2 DEF ServerInv
  <2>b. Requests \subseteq Tasks /\ Scheduler \in Tasks /\ Scheduler # r BY ServerAssumption DEF Tasks
  <2>1. ASSUME NEW q \in Requests, NEW rounds \in 0 .. MaxRounds, Arrive(q, rounds) PROVE Still(r)
    <3>1. q # r /\ q \in Tasks BY <1>2, <2>b, <2>1 DEF Arrive
    <3>2. PICK where : Goto(q, where) BY <2>1 DEF Arrive
    <3>3. left' = [left EXCEPT ![q] = left'[q]] BY <2>a, <2>1, <3>1 DEF Arrive, TypeOK
    <3> QED BY <2>a, <2>1, <3>1, <3>2, <3>3, OthersStill DEF Arrive
  <2>2. ASSUME NEW q \in Requests, Runs(q), ~ Statement(q), q # r PROVE Still(r)
    <3>1. PICK where : Goto(q, where) BY <2>2 DEF Runs, PoolTimeout, Await, CoroutineReturns
    <3>2. /\ left' = left \/ left' = [left EXCEPT ![q] = left'[q]]
          /\ conn' = conn /\ (wants' = wants \/ wants' = wants \ {q})
      BY <2>a, <2>b, <2>2 DEF Runs, PoolTimeout, Await, CoroutineReturns, OneLess, TypeOK
    <3> QED BY <2>a, <2>b, <2>2, <3>1, <3>2, OthersStill
  <2>3. ASSUME NEW q \in Requests, Served(q), q # r PROVE Still(r)
    <3>1. PICK where : Goto(q, where)
      BY <2>3 DEF Served, TakeThread, UserKnown, EndpointReturns, Resume, Close
    <3>2. left' = left /\ wants' = wants /\ (conn' = conn \/ conn' = conn \ {q})
      BY <2>3 DEF Served, TakeThread, UserKnown, EndpointReturns, Resume, Close
    <3> QED BY <2>a, <2>b, <2>3, <3>1, <3>2, OthersStill
  <2>4. ASSUME NEW rounds \in 0 .. MaxRounds, TickBegins(rounds) PROVE Still(r)
    <3>1. Goto(Scheduler, "loop") /\ conn' = conn /\ wants' = wants \cup {Scheduler}
      BY <2>4 DEF TickBegins
    <3>2. left' = [left EXCEPT ![Scheduler] = left'[Scheduler]] BY <2>a, <2>b, <2>4 DEF TickBegins, TypeOK
    <3> QED BY <2>a, <2>b, <3>1, <3>2, OthersStill
  <2>5. ASSUME TickEnds \/ TickFails PROVE Still(r)
    BY <2>a, <2>b, <2>5, OthersStill DEF TickEnds, TickFails, TickLeaves
  <2>6. ASSUME NEW t \in Tasks, Statement(t) PROVE Still(r) \/ Weight(r)' < Weight(r)
    BY <1>2, <2>6, StatementLighter
  <2>7. CASE UNCHANGED vars BY <2>7 DEF vars, Still, Grip
  <2>8. Runs(r) /\ ~ Statement(r) => Weight(r)' < Weight(r) BY <1>2, RunsLighter
  <2>9. Served(r) => Weight(r)' < Weight(r) BY <1>2, ServedLighter
  <2> QED BY <1>2, <2>b, <2>1, <2>2, <2>3, <2>4, <2>5, <2>6, <2>7, <2>8, <2>9 DEF Next, Tick
<1>3. ServerInv /\ ServerInv' /\ [Next]_vars
        => [\A r \in Requests : pc[r] # "new" => Still(r) \/ Weight(r)' < Weight(r)]_vars
  BY <1>2
<1> QED BY <1>1, <1>3, ServerInvariant, PTL DEF Spec

=============================================================================
