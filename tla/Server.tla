------------------------------- MODULE Server -------------------------------
(***************************************************************************)
(* The server process of app/main.py under load: one event loop, on which  *)
(* coroutine endpoints and the scheduler run, the worker threads for       *)
(* everything else, and the connection pool behind app/db.py, which all of *)
(* them draw on.  A session takes a connection with its first statement    *)
(* after a commit and gives it back with the next commit or when it is     *)
(* closed, so a request holds one while it waits for a thread, and a       *)
(* coroutine while it awaits a connector or a payment provider.            *)
(*                                                                         *)
(* What requests do to the database is in the other modules.               *)
(***************************************************************************)
EXTENDS Naturals, FiniteSets

CONSTANTS
    Requests,
    Coroutines,     \* those of an endpoint that is a coroutine
    PoolSize,       \* pool_size and max_overflow of the engine, 5 + 10
    Threads,        \* worker threads, 40
    MaxRounds,      \* bound on the commits and awaits of a request or tick
    Scheduler, Idle

ASSUME ServerAssumption ==
    /\ IsFiniteSet(Requests)
    /\ Coroutines \subseteq Requests
    /\ PoolSize \in Nat \ {0}
    /\ Threads \in Nat \ {0}
    /\ MaxRounds \in Nat
    /\ Scheduler \notin Requests /\ Idle \notin Requests /\ Scheduler # Idle

VARIABLES
    pc,     \* where each request and the scheduler are
    conn,   \* who has a connection
    wants,  \* who waits for one
    left,   \* commits and awaits that are to come
    loop    \* who runs on the event loop

vars == <<pc, conn, wants, left, loop>>

Tasks == Requests \cup {Scheduler}

InThread == {r \in Requests : pc[r] \in {"user", "endpoint"}}

\* Those who run and do not wait for a connection.
Running == (InThread \cup {t \in Tasks : loop = t}) \ wants

Goto(t, where) == pc' = [pc EXCEPT ![t] = where]

LoopFree == loop = Idle

-----------------------------------------------------------------------------
\* Requests arrive.  get_current_user comes first; the public endpoints, the
\* OAuth callbacks and the Stripe webhook do without it.

ForEndpoint(r) == IF r \in Coroutines THEN "ready" ELSE "asksThread"

Arrive(r, rounds) ==
    /\ LoopFree
    /\ pc[r] = "new"
    /\ \E where \in {"asksUser", ForEndpoint(r)} : Goto(r, where)
    /\ left' = [left EXCEPT ![r] = rounds]
    /\ UNCHANGED <<conn, wants, loop>>

\* The loop hands a job to a thread when one is free.
TakeThread(r) ==
    /\ LoopFree
    /\ Cardinality(InThread) < Threads
    /\ \/ pc[r] = "asksUser" /\ Goto(r, "user")
       \/ pc[r] = "asksThread" /\ Goto(r, "endpoint")
    /\ UNCHANGED <<conn, wants, left, loop>>

\* get_current_user is through: with the user, and then the session keeps its
\* connection for the endpoint, or with a 401.
UserKnown(r) ==
    /\ LoopFree
    /\ pc[r] = "user" /\ r \in Running
    /\ \/ r \in conn /\ Goto(r, ForEndpoint(r))
       \/ Goto(r, "close")
    /\ UNCHANGED <<conn, wants, left, loop>>

-----------------------------------------------------------------------------
\* Statements, of whoever runs.

\* The first statement after a commit.  A thread waits for the connection and
\* the loop goes on; a coroutine and the scheduler wait for it on the loop, and
\* everything else there waits with them.
Execute(t) ==
    /\ t \in Running /\ t \notin conn
    /\ wants' = wants \cup {t}
    /\ UNCHANGED <<pc, conn, left, loop>>

Checkout(t) ==
    /\ t \in wants
    /\ Cardinality(conn) < PoolSize
    /\ conn' = conn \cup {t}
    /\ wants' = wants \ {t}
    /\ UNCHANGED <<pc, left, loop>>

OneLess(t) == left[t] > 0 /\ left' = [left EXCEPT ![t] = @ - 1]

Commit(t) ==
    /\ t \in Running \cap conn
    /\ pc[t] # "user"
    /\ OneLess(t)
    /\ conn' = conn \ {t}
    /\ UNCHANGED <<pc, wants, loop>>

\* Mutant: a pool that waits without limit.
PoolWaits(r) == r \in wants /\ Cardinality(conn) >= PoolSize /\ UNCHANGED vars

\* After 30 seconds the pool raises: 500.
PoolTimeout(r) ==
    /\ r \in wants
    /\ Cardinality(conn) >= PoolSize
    /\ wants' = wants \ {r}
    /\ Goto(r, "close")
    /\ loop' = IF loop = r THEN Idle ELSE loop
    /\ UNCHANGED <<conn, left>>

-----------------------------------------------------------------------------
\* Endpoints.

\* A thread is through, with an answer or an exception.
EndpointReturns(r) ==
    /\ LoopFree
    /\ pc[r] = "endpoint" /\ r \in Running
    /\ Goto(r, "close")
    /\ UNCHANGED <<conn, wants, left, loop>>

\* A coroutine gets the loop, first and after each await.
Resume(r) ==
    /\ LoopFree
    /\ pc[r] \in {"ready", "awaits"}
    /\ Goto(r, "loop")
    /\ loop' = r
    /\ UNCHANGED <<conn, wants, left>>

\* execute_with_verification, charge, create_checkout_session, exchange_code.
Await(r) ==
    /\ loop = r /\ r \in Running
    /\ Goto(r, "awaits")
    /\ loop' = Idle
    /\ OneLess(r)
    /\ UNCHANGED <<conn, wants>>

CoroutineReturns(r) ==
    /\ loop = r /\ r \in Running
    /\ Goto(r, "close")
    /\ loop' = Idle
    /\ UNCHANGED <<conn, wants, left>>

\* Mutant: a session that nobody closes.
CloseNever(r) ==
    /\ LoopFree
    /\ pc[r] = "close"
    /\ Goto(r, "done")
    /\ UNCHANGED <<conn, wants, left, loop>>

\* get_session leaves its with block, in a thread that is kept for that, and
\* the answer goes out.
Close(r) ==
    /\ LoopFree
    /\ pc[r] = "close"
    /\ Goto(r, "done")
    /\ conn' = conn \ {r}
    /\ UNCHANGED <<wants, left, loop>>

-----------------------------------------------------------------------------
\* run_scheduler_forever.

\* tick_once begins with the query for what is due.
TickBegins(rounds) ==
    /\ LoopFree
    /\ pc[Scheduler] = "sleeps"
    /\ Goto(Scheduler, "loop")
    /\ loop' = Scheduler
    /\ wants' = wants \cup {Scheduler}
    /\ left' = [left EXCEPT ![Scheduler] = rounds]
    /\ UNCHANGED conn

\* The end of the with block closes the session, however the tick ends.
TickLeaves(where) ==
    /\ loop = Scheduler
    /\ Goto(Scheduler, where)
    /\ loop' = Idle
    /\ conn' = conn \ {Scheduler}
    /\ wants' = wants \ {Scheduler}
    /\ UNCHANGED left

TickEnds == Scheduler \notin wants /\ TickLeaves("sleeps")

\* A statement fails, or the pool raises.
TickRaises == Scheduler \in conn \/ (Scheduler \in wants /\ Cardinality(conn) >= PoolSize)

\* Mutant: an exception ends the scheduler.
TickFailsForGood == TickRaises /\ TickLeaves("dead")

\* It is logged, and there is a next tick.
TickFails == TickRaises /\ TickLeaves("sleeps")

-----------------------------------------------------------------------------

Init ==
    /\ pc = [t \in Tasks |-> IF t = Scheduler THEN "sleeps" ELSE "new"]
    /\ conn = {}
    /\ wants = {}
    /\ left = [t \in Tasks |-> 0]
    /\ loop = Idle

Statement(t) == Execute(t) \/ Checkout(t) \/ Commit(t)

\* What a request does in its thread, or as a coroutine.
Runs(r) == Statement(r) \/ PoolTimeout(r) \/ Await(r) \/ CoroutineReturns(r)

\* What the loop does for it.
Served(r) == TakeThread(r) \/ UserKnown(r) \/ EndpointReturns(r) \/ Resume(r) \/ Close(r)

Tick == Statement(Scheduler) \/ TickEnds \/ TickFails

Next ==
    \/ \E r \in Requests : (\E rounds \in 0 .. MaxRounds : Arrive(r, rounds)) \/ Runs(r) \/ Served(r)
    \/ \E rounds \in 0 .. MaxRounds : TickBegins(rounds)
    \/ Tick

Spec == Init /\ [][Next]_vars

\* Threads and whoever is on the loop get on.  The loop takes what is ready in
\* turn, so what is ready again and again comes about; what is awaited has its
\* own timeouts.
Fairness ==
    /\ \A r \in Requests : WF_vars(Runs(r)) /\ SF_vars(Served(r))
    /\ WF_vars(Tick)
    /\ SF_vars(\E rounds \in 0 .. MaxRounds : TickBegins(rounds))

FairSpec == Spec /\ Fairness

-----------------------------------------------------------------------------
\* Properties.

\* The type invariant.
TypeOK ==
    /\ pc \in [Tasks -> {"new", "asksUser", "user", "asksThread", "endpoint", "ready", "loop",
                         "awaits", "close", "done", "sleeps"}]
    /\ conn \subseteq Tasks
    /\ wants \subseteq Tasks
    /\ left \in [Tasks -> 0 .. MaxRounds]
    /\ loop \in Tasks \cup {Idle}

\* The pool: never more connections than it has, and whoever waits for one has
\* none, so that requests cannot wait for each other over connections alone.
PoolInv ==
    /\ Cardinality(conn) <= PoolSize
    /\ conn \cap wants = {}

\* get_session, tick_once: whatever becomes of a request or a tick, its
\* connection is back in the pool when it is answered or over.
NothingLeaks == \A t \in conn \cup wants : pc[t] \notin {"new", "asksUser", "done", "sleeps"}

\* One task at a time is on the loop, the scheduler if not asleep, and only
\* threads that there are run.
LoopInv ==
    /\ \A t \in Tasks : IF t = Scheduler THEN pc[t] \in {"sleeps", "loop"} ELSE pc[t] # "sleeps"
    /\ \A t \in Tasks : pc[t] = "loop" <=> loop = t
    /\ \A t \in wants : pc[t] \in {"user", "endpoint", "loop"}
    /\ Cardinality(InThread) <= Threads

\* The inductive invariant (ServerProofs).
ServerInv == TypeOK /\ PoolInv /\ NothingLeaks /\ LoopInv

\* get_session, get_current_user: every request is answered, also when all
\* connections are with requests that wait for a thread, and all threads, or the
\* loop itself, wait for a connection.
RequestsServed == \A r \in Requests : pc[r] # "new" ~> pc[r] = "done"

\* run_scheduler_forever: there is always a next tick, whatever the last one met.
TicksGoOn == ([]<> (loop = Scheduler)) /\ ([]<> (pc[Scheduler] = "sleeps"))

=============================================================================
