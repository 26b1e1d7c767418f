----------------------------- MODULE Connectors -----------------------------
(***************************************************************************)
(* app/engine: a task execution between the moment execute_instance_task   *)
(* awaits execute_with_verification and the TaskResult, or exception, that *)
(* comes back.  Instances knows the three outcomes only; here they arise   *)
(* from calls to a platform that may act and not answer, answer and not    *)
(* act, or answer late, and from a claude process that may hang.           *)
(***************************************************************************)
EXTENDS Integers

CONSTANTS
    Runs,           \* executions, each a coroutine of its own
    Targets,        \* what a task is to bring about: follow that account, post that text
    Kind            \* the connector that a target belongs to

\* like stands for twitter_like and twitter_retweet, which differ in their URL.
Kinds == {"follow", "like", "post", "join", "visit", "register", "ai"}

ASSUME ConnectorsAssumption == Kind \in [Targets -> Kinds]

VARIABLES
    run,            \* the execution: what for, how far, the answer it has got, its result
    wire,           \* number of its action requests that have not reached the platform yet
    applied,        \* number of its action requests the platform carried out
    proc,           \* its claude process
    there,          \* targets that hold on the platform at this moment, where somebody asks
    held            \* executions whose target has held at some moment since they began

vars == <<run, wire, applied, proc, there, held>>

NotBegun == [target |-> "none", pc |-> "new", reply |-> "none", result |-> "none"]

\* Connectors that override verify(); the others trust their own result.
Verifying == {"follow", "join"}

\* Connectors that turn an httpx.HTTPError into a failed TaskResult.
Catching == {"visit", "register"}

\* Connectors that parse the body of a successful answer.
Parsing == {"follow", "like", "post"}

KindOf(r) == Kind[run[r].target]

Observable == {t \in Targets : Kind[t] \in Verifying}

Ends(r, result) ==
    run' = [run EXCEPT ![r].pc = "done", ![r].reply = "none", ![r].result = result]

Awaits(r, pc) == run' = [run EXCEPT ![r].pc = pc, ![r].reply = "none"]

-----------------------------------------------------------------------------
\* run() and verify().

\* Parameters, credentials or DISCORD_BOT_TOKEN are missing, or httpx cannot make
\* a request of them: nothing is sent.
RefuseTask(r, t) ==
    /\ run[r].pc = "new"
    /\ \E result \in {"failure", "raised"} :
          run' = [run EXCEPT ![r] = [target |-> t, pc |-> "done", reply |-> "none", result |-> result]]
    /\ UNCHANGED <<wire, applied, proc, there, held>>

\* One request that asks the platform to act.
Send(r, t) ==
    /\ run[r].pc = "new"
    /\ Kind[t] # "ai"
    /\ run' = [run EXCEPT ![r] = [target |-> t, pc |-> "run", reply |-> "none", result |-> "none"]]
    /\ wire' = [wire EXCEPT ![r] = @ + 1]
    /\ held' = IF t \in there THEN held \cup {r} ELSE held
    /\ UNCHANGED <<applied, proc, there>>

\* Mutant: verify() of the base class, which trusts the result of run().
AcknowledgeTrusted(r) ==
    /\ run[r].pc = "run"
    /\ run[r].reply = "ok"
    /\ Ends(r, "success")
    /\ UNCHANGED <<wire, applied, proc, there, held>>

\* A status below 400 (201 or 204 from Discord): verify() asks, where there is one.
Acknowledge(r) ==
    /\ run[r].pc = "run"
    /\ run[r].reply = "ok"
    /\ IF KindOf(r) \in Verifying THEN Awaits(r, "verify") ELSE Ends(r, "success")
    /\ UNCHANGED <<wire, applied, proc, there, held>>

\* Any other status, of either call.
Reject(r) ==
    /\ run[r].reply = "error"
    /\ Ends(r, "failure")
    /\ UNCHANGED <<wire, applied, proc, there, held>>

\* A successful answer whose body is not JSON.
RejectBody(r) ==
    /\ run[r].reply \in {"ok", "listed", "unlisted"}
    /\ KindOf(r) \in Parsing
    /\ Ends(r, "raised")
    /\ UNCHANGED <<wire, applied, proc, there, held>>

\* Mutant: any answer to verify() will do.
VerifyAny(r) ==
    /\ run[r].pc = "verify"
    /\ run[r].reply \in {"listed", "unlisted"}
    /\ Ends(r, "success")
    /\ UNCHANGED <<wire, applied, proc, there, held>>

\* The target is, or is not, in the answer to verify().
Verify(r) ==
    /\ run[r].pc = "verify"
    /\ run[r].reply \in {"listed", "unlisted"}
    /\ Ends(r, IF run[r].reply = "listed" THEN "success" ELSE "failure")
    /\ UNCHANGED <<wire, applied, proc, there, held>>

\* Mutants: no timeout on the client; a client that sends once more.
CallUnlimited(r) ==
    /\ run[r].pc \in {"run", "verify"}
    /\ run[r].reply # "none"
    /\ Ends(r, IF KindOf(r) \in Catching THEN "failure" ELSE "raised")
    /\ UNCHANGED <<wire, applied, proc, there, held>>

CallRetried(r) ==
    /\ run[r].pc = "run"
    /\ wire' = [wire EXCEPT ![r] = @ + 1]
    /\ UNCHANGED <<run, applied, proc, there, held>>

\* No connection, or no answer within 15 seconds, even though the request may
\* have been carried out or may still be.  Most connectors do not catch it.
CallFails(r) ==
    /\ run[r].pc \in {"run", "verify"}
    /\ Ends(r, IF KindOf(r) \in Catching THEN "failure" ELSE "raised")
    /\ UNCHANGED <<wire, applied, proc, there, held>>

-----------------------------------------------------------------------------
\* The platform.

\* t comes about: every execution with this target could see it from now on.
Happens(t) ==
    /\ there' = there \cup ({t} \cap Observable)
    /\ held' = held \cup {r \in Runs : run[r].target = t}

\* A request arrives, perhaps after its sender has given up.  The platform acts
\* or does not, and answers as it pleases: a follow of a protected account is
\* acknowledged and waits for its owner.
Handle(r, reply, acts) ==
    /\ wire[r] > 0
    /\ wire' = [wire EXCEPT ![r] = @ - 1]
    /\ IF acts THEN Happens(run[r].target) /\ applied' = [applied EXCEPT ![r] = @ + 1]
               ELSE UNCHANGED <<there, held, applied>>
    /\ run' = IF run[r].pc = "run" THEN [run EXCEPT ![r].reply = reply] ELSE run
    /\ UNCHANGED proc

\* The question of verify(): listed only if it is there.  A followed account
\* may be missing, the list being cut off after 1000 entries.
Query(r, reply) ==
    /\ run[r].pc = "verify"
    /\ run[r].reply = "none"
    /\ reply = "listed" => run[r].target \in there
    /\ reply = "unlisted" => run[r].target \notin there \/ KindOf(r) = "follow"
    /\ run' = [run EXCEPT ![r].reply = reply]
    /\ UNCHANGED <<wire, applied, proc, there, held>>

\* Owners of accounts and guilds do and undo the same by hand.
OwnerDoes(t) == t \in Observable \ there /\ Happens(t) /\ UNCHANGED <<run, wire, applied, proc>>

OwnerUndoes(t) ==
    /\ t \in there
    /\ there' = there \ {t}
    /\ UNCHANGED <<run, wire, applied, proc, held>>

-----------------------------------------------------------------------------
\* run_claude_prompt.

Spawn(r, t) ==
    /\ run[r].pc = "new"
    /\ Kind[t] = "ai"
    /\ run' = [run EXCEPT ![r] = [target |-> t, pc |-> "cli", reply |-> "none", result |-> "none"]]
    /\ proc' = [proc EXCEPT ![r] = "running"]
    /\ UNCHANGED <<wire, applied, there, held>>

\* The binary is not installed.
SpawnFails(r, t) ==
    /\ run[r].pc = "new"
    /\ Kind[t] = "ai"
    /\ run' = [run EXCEPT ![r] = [target |-> t, pc |-> "done", reply |-> "none", result |-> "raised"]]
    /\ UNCHANGED <<wire, applied, proc, there, held>>

\* The process ends, of its own accord or because it was killed.
ProcessExits(r) ==
    /\ proc[r] \in {"running", "killed"}
    /\ proc' = [proc EXCEPT ![r] = "exited"]
    /\ UNCHANGED <<run, wire, applied, there, held>>

\* Its output is content, an error (exit code, no JSON), or JSON of another shape.
ReadOutput(r) ==
    /\ run[r].pc = "cli"
    /\ proc[r] = "exited"
    /\ \E result \in {"success", "failure", "raised"} : Ends(r, result)
    /\ proc' = [proc EXCEPT ![r] = "none"]
    /\ UNCHANGED <<wire, applied, there, held>>

\* Mutant: the timeout abandons the process.
CliAbandoned(r) ==
    /\ run[r].pc = "cli"
    /\ Ends(r, "failure")
    /\ UNCHANGED <<wire, applied, proc, there, held>>

\* The total timeout is over: kill, then wait.
CliTimesOut(r) ==
    /\ run[r].pc = "cli"
    /\ Awaits(r, "reap")
    /\ proc' = [proc EXCEPT ![r] = IF @ = "running" THEN "killed" ELSE @]
    /\ UNCHANGED <<wire, applied, there, held>>

Reap(r) ==
    /\ run[r].pc = "reap"
    /\ proc[r] = "exited"
    /\ Ends(r, "failure")
    /\ proc' = [proc EXCEPT ![r] = "none"]
    /\ UNCHANGED <<wire, applied, there, held>>

-----------------------------------------------------------------------------

Init ==
    /\ run = [r \in Runs |-> NotBegun]
    /\ wire = [r \in Runs |-> 0]
    /\ applied = [r \in Runs |-> 0]
    /\ proc = [r \in Runs |-> "none"]
    /\ there = {}
    /\ held = {}

Begin(r) == \E t \in Targets : RefuseTask(r, t) \/ Send(r, t) \/ Spawn(r, t) \/ SpawnFails(r, t)

Advance(r) ==
    \/ Acknowledge(r)
    \/ Reject(r)
    \/ RejectBody(r)
    \/ Verify(r)
    \/ CallFails(r)
    \/ ReadOutput(r)
    \/ CliTimesOut(r)
    \/ Reap(r)

Platform(r) ==
    \/ \E reply \in {"ok", "error"}, acts \in BOOLEAN : Handle(r, reply, acts)
    \/ \E reply \in {"listed", "unlisted", "error"} : Query(r, reply)

Next ==
    \/ \E r \in Runs : Begin(r) \/ Advance(r) \/ Platform(r) \/ ProcessExits(r)
    \/ \E t \in Targets : OwnerDoes(t) \/ OwnerUndoes(t)

Spec == Init /\ [][Next]_vars

\* Timers fire, answers that have come are read, and a killed process dies.  The
\* 15 seconds of httpx limit each read: an answer comes whole or not at all.
\* Neither a platform nor a running process owes anything.
Fairness ==
    \A r \in Runs : WF_vars(Advance(r)) /\ WF_vars(proc[r] = "killed" /\ ProcessExits(r))

FairSpec == Spec /\ Fairness

-----------------------------------------------------------------------------
\* Properties.

RunRecords == [target : Targets \cup {"none"},
               pc : {"new", "run", "verify", "cli", "reap", "done"},
               reply : {"none", "ok", "error", "listed", "unlisted"},
               result : {"none", "success", "failure", "raised"}]

\* The type invariant.
TypeOK ==
    /\ run \in [Runs -> RunRecords]
    /\ wire \in [Runs -> Nat]
    /\ applied \in [Runs -> Nat]
    /\ proc \in [Runs -> {"none", "running", "killed", "exited"}]
    /\ there \subseteq Observable
    /\ held \subseteq Runs

Succeeded(r) == run[r].result = "success"

\* execute_with_verification, "assume it failed, prove otherwise": a follow or a
\* join that is recorded as done, and so billed, really held on the platform at
\* some moment of its execution, whatever the platform acknowledged, whoever
\* else acts on the account, and however late requests arrive.
DoneWasSeen == \A r \in Runs : Succeeded(r) /\ KindOf(r) \in Verifying => r \in held

\* The connectors: an execution makes the platform act at most once, also when
\* its answer is lost or it has failed before its request arrives.  A renter
\* who executes again after a failure may post twice, the server never does.
ActsOnce == \A r \in Runs : applied[r] + wire[r] <= 1

\* run_claude_prompt: a claude process has somebody who waits for it, so none
\* outlives the execution it works for.
ProcessesAttended == \A r \in Runs : proc[r] # "none" => run[r].pc \in {"cli", "reap"}

\* The engine keeps the promise of Executions, on which Instances rests.
OutcomeOf(r) == IF run[r].pc = "done" THEN run[r].result ELSE IF run[r].pc = "new" THEN "none" ELSE "awaited"

Results == INSTANCE Executions WITH
    Verified <- Observable,
    target   <- [r \in Runs |-> run[r].target],
    outcome  <- [r \in Runs |-> OutcomeOf(r)],
    acted    <- {r \in Runs : applied[r] > 0},
    seen     <- held

KeepsResults == Results!Spec

\* Every execution ends, whether or not the platform answers and the process
\* exits: the event loop's coroutines are never held for ever.
ExecutionsEnd == \A r \in Runs : run[r].pc # "new" ~> run[r].pc = "done"

-----------------------------------------------------------------------------
\* The inductive invariant behind the safety properties (ConnectorsProofs).

\* What an execution waits for, and the answers it may get.
RunInv ==
    \A r \in Runs :
        /\ run[r].pc = "new" => run[r] = NotBegun /\ wire[r] = 0 /\ applied[r] = 0
        /\ run[r].pc # "new" => run[r].target \in Targets
        /\ run[r].result = "none" <=> run[r].pc # "done"
        /\ run[r].pc \in {"cli", "reap", "done"} => run[r].reply = "none"
        /\ run[r].pc = "run" => run[r].reply \in {"none", "ok", "error"}
        /\ run[r].pc = "verify" => KindOf(r) \in Verifying /\ run[r].reply # "ok"
        /\ run[r].pc \in {"cli", "reap"} => KindOf(r) = "ai"
        /\ run[r].pc = "verify" /\ run[r].reply = "listed" => r \in held

\* While an execution is under way, held knows of everything that holds.
HeldInv ==
    \A r \in Runs : run[r].pc \in {"run", "verify"} /\ run[r].target \in there => r \in held

\* Whoever waits for a process has one, and after the timeout one that dies.
ProcessInv ==
    \A r \in Runs :
        /\ run[r].pc = "cli" => proc[r] \in {"running", "exited"}
        /\ run[r].pc = "reap" => proc[r] \in {"killed", "exited"}

ConnectorsInv ==
    TypeOK /\ RunInv /\ HeldInv /\ DoneWasSeen /\ ActsOnce /\ ProcessesAttended /\ ProcessInv

=============================================================================
