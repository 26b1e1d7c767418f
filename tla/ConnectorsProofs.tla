-------------------------- MODULE ConnectorsProofs --------------------------
(* The invariant of Connectors, for any number of executions and targets. *)
EXTENDS Connectors, TLAPS

\* What an execution does leaves the others as they are.
Others(r) ==
    \A q \in Runs : q # r =>
        run'[q] = run[q] /\ wire'[q] = wire[q] /\ applied'[q] = applied[q] /\ proc'[q] = proc[q]

\* The invariant of one execution.
RunOK(r) ==
    /\ run[r].pc = "new" => run[r] = NotBegun /\ wire[r] = 0 /\ applied[r] = 0
    /\ run[r].pc # "new" => run[r].target \in Targets
    /\ run[r].result = "none" <=> run[r].pc # "done"
    /\ run[r].pc \in {"cli", "reap", "done"} => run[r].reply = "none"
    /\ run[r].pc = "run" => run[r].reply \in {"none", "ok", "error"}
    /\ run[r].pc = "verify" => KindOf(r) \in Verifying /\ run[r].reply # "ok"
    /\ run[r].pc \in {"cli", "reap"} => KindOf(r) = "ai"
    /\ run[r].pc = "verify" /\ run[r].reply = "listed" => r \in held
    /\ run[r].pc \in {"run", "verify"} /\ run[r].target \in there => r \in held
    /\ Succeeded(r) /\ KindOf(r) \in Verifying => r \in held
    /\ applied[r] + wire[r] <= 1
    /\ proc[r] # "none" => run[r].pc \in {"cli", "reap"}
    /\ run[r].pc = "cli" => proc[r] \in {"running", "exited"}
    /\ run[r].pc = "reap" => proc[r] \in {"killed", "exited"}

LEMMA InvOfRuns == ConnectorsInv <=> TypeOK /\ \A r \in Runs : RunOK(r)
BY DEF ConnectorsInv, RunInv, HeldInv, DoneWasSeen, ActsOnce, ProcessesAttended,
       ProcessInv, RunOK

LEMMA InvOfRunsNext == ConnectorsInv' <=> TypeOK' /\ \A r \in Runs : RunOK(r)'
BY DEF ConnectorsInv, RunInv, HeldInv, DoneWasSeen, ActsOnce, ProcessesAttended,
       ProcessInv, RunOK

\* Where nothing comes about, the executions that do nothing stay as they should be.
LEMMA OthersKept ==
  ASSUME NEW r \in Runs, NEW q \in Runs, q # r, RunOK(q), Others(r),
         there' \subseteq there, held \subseteq held'
  PROVE  RunOK(q)'
<1>1. run'[q] = run[q] /\ wire'[q] = wire[q] /\ applied'[q] = applied[q] /\ proc'[q] = proc[q]
  BY DEF Others
<1> QED BY <1>1 DEF RunOK, Succeeded, KindOf, NotBegun

LEMMA EndsRun ==
  ASSUME TypeOK, NEW r \in Runs, NEW result \in {"success", "failure", "raised"}, Ends(r, result)
  PROVE  /\ run' \in [Runs -> RunRecords]
         /\ run'[r] = [target |-> run[r].target, pc |-> "done", reply |-> "none", result |-> result]
         /\ \A q \in Runs : q # r => run'[q] = run[q]
<1>1. run[r] \in RunRecords BY DEF TypeOK
<1>2. run'[r] = [target |-> run[r].target, pc |-> "done", reply |-> "none", result |-> result]
  BY <1>1 DEF TypeOK, Ends, RunRecords
<1>3. run'[r] \in RunRecords BY <1>1, <1>2 DEF RunRecords
<1> QED BY <1>2, <1>3 DEF TypeOK, Ends

LEMMA AwaitsRun ==
  ASSUME TypeOK, NEW r \in Runs, NEW pc \in {"verify", "reap"}, Awaits(r, pc)
  PROVE  /\ run' \in [Runs -> RunRecords]
         /\ run'[r] = [target |-> run[r].target, pc |-> pc, reply |-> "none", result |-> run[r].result]
         /\ \A q \in Runs : q # r => run'[q] = run[q]
<1>1. run[r] \in RunRecords BY DEF TypeOK
<1>2. run'[r] = [target |-> run[r].target, pc |-> pc, reply |-> "none", result |-> run[r].result]
  BY <1>1 DEF TypeOK, Awaits, RunRecords
<1>3. run'[r] \in RunRecords BY <1>1, <1>2 DEF RunRecords
<1> QED BY <1>2, <1>3 DEF TypeOK, Awaits

LEMMA RepliedRun ==
  ASSUME TypeOK, NEW r \in Runs, NEW reply \in {"ok", "error", "listed", "unlisted"},
         run' = [run EXCEPT ![r].reply = reply]
  PROVE  /\ run' \in [Runs -> RunRecords]
         /\ run'[r] = [target |-> run[r].target, pc |-> run[r].pc, reply |-> reply, result |-> run[r].result]
         /\ \A q \in Runs : q # r => run'[q] = run[q]
<1>1. run[r] \in RunRecords BY DEF TypeOK
<1>2. run'[r] = [target |-> run[r].target, pc |-> run[r].pc, reply |-> reply, result |-> run[r].result]
  BY <1>1 DEF TypeOK, RunRecords
<1>3. run'[r] \in RunRecords BY <1>1, <1>2 DEF RunRecords
<1> QED BY <1>2, <1>3 DEF TypeOK

-----------------------------------------------------------------------------
\* An execution that begins.
LEMMA BeginKeeps ==
  ASSUME ConnectorsInv, NEW r \in Runs, Begin(r)
  PROVE  TypeOK' /\ RunOK(r)' /\ Others(r) /\ there' = there /\ held \subseteq held'
<1>a. TypeOK /\ RunOK(r) BY InvOfRuns
<1>b. PICK t \in Targets : RefuseTask(r, t) \/ Send(r, t) \/ Spawn(r, t) \/ SpawnFails(r, t)
  BY DEF Begin
<1>c. run[r].pc = "new" /\ wire[r] = 0 /\ applied[r] = 0 /\ proc[r] = "none"
  BY <1>a, <1>b DEF RefuseTask, Send, Spawn, SpawnFails, RunOK
<1>1. CASE RefuseTask(r, t)
  BY <1>1, <1>a, <1>c DEF RefuseTask, TypeOK, RunRecords, RunOK, Others, KindOf, Succeeded
<1>2. CASE Send(r, t)
  <2>1. TypeOK' BY <1>2, <1>a, <1>c DEF Send, TypeOK, RunRecords, Observable
  <2>2. /\ run'[r] = [target |-> t, pc |-> "run", reply |-> "none", result |-> "none"]
        /\ wire'[r] = 1 /\ applied'[r] = 0 /\ proc'[r] = "none"
        /\ t \in there' => r \in held'
    BY <1>2, <1>a, <1>c DEF Send, TypeOK
  <2>3. RunOK(r)' BY <2>2 DEF RunOK, Succeeded, KindOf, NotBegun
  <2> QED BY <2>1, <2>3, <1>2, <1>a DEF Send, TypeOK, Others
<1>3. CASE Spawn(r, t)
  BY <1>3, <1>a, <1>c DEF Spawn, TypeOK, RunRecords, RunOK, Others, KindOf, Succeeded
<1>4. CASE SpawnFails(r, t)
  BY <1>4, <1>a, <1>c DEF SpawnFails, TypeOK, RunRecords, RunOK, Others, KindOf, Succeeded
<1> QED BY <1>b, <1>1, <1>2, <1>3, <1>4

\* An execution that gets on.
LEMMA AdvanceKeeps ==
  ASSUME ConnectorsInv, NEW r \in Runs, Advance(r) \/ ProcessExits(r)
  PROVE  TypeOK' /\ RunOK(r)' /\ Others(r) /\ there' = there /\ held \subseteq held'
<1>a. TypeOK /\ RunOK(r) BY InvOfRuns
<1>b. run[r] \in RunRecords /\ wire[r] \in Nat /\ applied[r] \in Nat BY <1>a DEF TypeOK
<1>c. ASSUME NEW result \in {"failure", "raised"}, Ends(r, result), run[r].pc # "new",
             UNCHANGED <<wire, applied, there, held>>,
             proc' \in [Runs -> {"none", "running", "killed", "exited"}],
             proc'[r] = "none", \A q \in Runs : q # r => proc'[q] = proc[q]
      PROVE  TypeOK' /\ RunOK(r)' /\ Others(r) /\ there' = there /\ held \subseteq held'
  <2>1. TypeOK' BY <1>a, <1>c, EndsRun DEF TypeOK
  <2>2. run'[r] = [target |-> run[r].target, pc |-> "done", reply |-> "none", result |-> result]
    BY <1>a, <1>c, EndsRun
  <2>3. RunOK(r)' BY <1>a, <1>c, <2>2 DEF RunOK, Succeeded, KindOf
  <2>4. Others(r) BY <1>a, <1>c, EndsRun DEF Others
  <2> QED BY <1>c, <2>1, <2>3, <2>4
<1>d. ASSUME Ends(r, "success"), run[r].pc # "new", KindOf(r) \in Verifying => r \in held,
             UNCHANGED <<wire, applied, there, held>>,
             proc' \in [Runs -> {"none", "running", "killed", "exited"}],
             proc'[r] = "none", \A q \in Runs : q # r => proc'[q] = proc[q]
      PROVE  TypeOK' /\ RunOK(r)' /\ Others(r) /\ there' = there /\ held \subseteq held'
  <2>1. TypeOK' BY <1>a, <1>d, EndsRun DEF TypeOK
  <2>2. run'[r] = [target |-> run[r].target, pc |-> "done", reply |-> "none", result |-> "success"]
    BY <1>a, <1>d, EndsRun
  <2>3. RunOK(r)' BY <1>a, <1>d, <2>2 DEF RunOK, Succeeded, KindOf
  <2>4. Others(r) BY <1>a, <1>d, EndsRun DEF Others
  <2> QED BY <1>d, <2>1, <2>3, <2>4
<1>e. /\ run[r].pc \in {"run", "verify"} => proc[r] = "none"
      /\ run[r].reply # "none" => run[r].pc \in {"run", "verify"}
      /\ proc \in [Runs -> {"none", "running", "killed", "exited"}]
  BY <1>a, <1>b DEF RunOK, RunRecords, NotBegun, TypeOK
<1>1. CASE Acknowledge(r)
  <2>1. CASE KindOf(r) \in Verifying
    <3>1. Awaits(r, "verify") /\ UNCHANGED <<wire, applied, proc, there, held>>
      BY <1>1, <2>1 DEF Acknowledge
    <3>2. /\ run' \in [Runs -> RunRecords] /\ \A q \in Runs : q # r => run'[q] = run[q]
          /\ run'[r] = [target |-> run[r].target, pc |-> "verify", reply |-> "none",
                        result |-> run[r].result]
      BY <1>a, <3>1, AwaitsRun
    <3>3. TypeOK' /\ Others(r) BY <1>a, <3>1, <3>2 DEF TypeOK, Others
    <3>4. RunOK(r)' BY <1>1, <1>a, <2>1, <3>1, <3>2 DEF RunOK, Succeeded, KindOf, Acknowledge
    <3> QED BY <3>1, <3>3, <3>4
  <2>2. CASE KindOf(r) \notin Verifying
    BY <1>1, <2>2, <1>d, <1>e DEF Acknowledge
  <2> QED BY <2>1, <2>2
<1>2. CASE Reject(r) BY <1>2, <1>c, <1>e DEF Reject
<1>3. CASE RejectBody(r) BY <1>3, <1>c, <1>e DEF RejectBody
<1>4. CASE Verify(r)
  <2>1. CASE run[r].reply = "listed"
    <3>1. r \in held BY <1>4, <2>1, <1>a DEF Verify, RunOK
    <3> QED BY <1>4, <2>1, <3>1, <1>d, <1>e DEF Verify
  <2>2. CASE run[r].reply = "unlisted" BY <1>4, <2>2, <1>c, <1>e DEF Verify
  <2> QED BY <1>4, <2>1, <2>2 DEF Verify
<1>5. CASE CallFails(r) BY <1>5, <1>c, <1>e DEF CallFails
<1>6. CASE ReadOutput(r)
  <2>1. /\ proc'[r] = "none" /\ \A q \in Runs : q # r => proc'[q] = proc[q]
        /\ proc' \in [Runs -> {"none", "running", "killed", "exited"}]
    BY <1>6, <1>e DEF ReadOutput
  <2>2. KindOf(r) \notin Verifying /\ run[r].pc # "new" BY <1>6, <1>a DEF ReadOutput, RunOK, Verifying
  <2> QED BY <1>6, <2>1, <2>2, <1>c, <1>d DEF ReadOutput
<1>7. CASE CliTimesOut(r)
  <2>1. Awaits(r, "reap") /\ run[r].pc = "cli" BY <1>7 DEF CliTimesOut
  <2>2. /\ run' \in [Runs -> RunRecords] /\ \A q \in Runs : q # r => run'[q] = run[q]
        /\ run'[r] = [target |-> run[r].target, pc |-> "reap", reply |-> "none",
                      result |-> run[r].result]
    BY <1>a, <2>1, AwaitsRun
  <2>3. TypeOK' /\ Others(r) BY <1>7, <1>a, <2>2 DEF CliTimesOut, TypeOK, Others
  <2>4. proc'[r] \in {"killed", "exited"} BY <1>7, <1>a, <1>e, <2>1 DEF CliTimesOut, RunOK
  <2>5. RunOK(r)' BY <1>7, <1>a, <2>1, <2>2, <2>4 DEF CliTimesOut, RunOK, Succeeded, KindOf
  <2> QED BY <1>7, <2>3, <2>5 DEF CliTimesOut
<1>8. CASE Reap(r)
  <2>1. /\ proc'[r] = "none" /\ \A q \in Runs : q # r => proc'[q] = proc[q]
        /\ proc' \in [Runs -> {"none", "running", "killed", "exited"}]
    BY <1>8, <1>e DEF Reap
  <2> QED BY <1>8, <2>1, <1>c DEF Reap
<1>9. CASE ProcessExits(r)
  <2>1. TypeOK' /\ Others(r) BY <1>9, <1>a DEF ProcessExits, TypeOK, Others
  <2>2. RunOK(r)' BY <1>9, <1>a DEF ProcessExits, RunOK, Succeeded, KindOf, TypeOK
  <2> QED BY <1>9, <2>1, <2>2 DEF ProcessExits
<1> QED BY <1>1, <1>2, <1>3, <1>4, <1>5, <1>6, <1>7, <1>8, <1>9 DEF Advance

\* Something comes about on the platform: whoever is after it has seen it hold.
LEMMA HappensKeeps ==
  ASSUME NEW t \in Targets, Happens(t), NEW q \in Runs, RunOK(q),
         run'[q] = run[q], wire'[q] = wire[q], applied'[q] = applied[q], proc'[q] = proc[q]
  PROVE  RunOK(q)'
<1>1. run[q].target \in there' => run[q].target \in there \/ q \in held' BY DEF Happens
<1>2. held \subseteq held' BY DEF Happens
<1> QED BY <1>1, <1>2 DEF RunOK, Succeeded, KindOf, NotBegun

\* The platform handles a request or a question.
LEMMA PlatformKeeps ==
  ASSUME ConnectorsInv, NEW r \in Runs, Platform(r)
  PROVE  ConnectorsInv'
<1>a. TypeOK /\ \A q \in Runs : RunOK(q) BY InvOfRuns
<1>b. run[r] \in RunRecords /\ wire[r] \in Nat /\ applied[r] \in Nat BY <1>a DEF TypeOK
<1>1. ASSUME NEW reply \in {"ok", "error"}, NEW acts \in BOOLEAN, Handle(r, reply, acts)
      PROVE  ConnectorsInv'
  <2>1. run[r].pc # "new" /\ run[r].target \in Targets BY <1>1, <1>a, <1>b DEF Handle, RunOK
  <2>2. /\ run' \in [Runs -> RunRecords]
        /\ run'[r] = run[r] \/ /\ run[r].pc = "run"
                               /\ run'[r] = [target |-> run[r].target, pc |-> "run", reply |-> reply,
                                             result |-> run[r].result]
        /\ \A q \in Runs : q # r => run'[q] = run[q]
    BY <1>1, <1>a, RepliedRun DEF Handle, TypeOK
  <2>3. /\ wire' \in [Runs -> Nat] /\ applied' \in [Runs -> Nat] /\ proc' = proc
        /\ applied'[r] + wire'[r] <= 1
        /\ \A q \in Runs : q # r => wire'[q] = wire[q] /\ applied'[q] = applied[q]
    <3>1. applied[r] + wire[r] <= 1 BY <1>a DEF RunOK
    <3> QED BY <3>1, <1>1, <1>a, <1>b DEF Handle, TypeOK
  <2>4. Happens(run[r].target) \/ UNCHANGED <<there, held>> BY <1>1 DEF Handle
  <2>5. there' \subseteq Observable /\ held' \subseteq Runs
    BY <2>4, <1>a DEF Happens, TypeOK
  <2>6. TypeOK' BY <2>2, <2>3, <2>5, <1>a DEF TypeOK
  <2>7. ASSUME NEW q \in Runs, q # r PROVE RunOK(q)'
    <3>1. run'[q] = run[q] /\ wire'[q] = wire[q] /\ applied'[q] = applied[q] /\ proc'[q] = proc[q]
      BY <2>2, <2>3, <2>7
    <3>2. CASE Happens(run[r].target) BY <3>1, <3>2, <2>1, <1>a, HappensKeeps
    <3>3. CASE UNCHANGED <<there, held>>
      BY <3>1, <3>3, <1>a DEF RunOK, Succeeded, KindOf, NotBegun
    <3> QED BY <3>2, <3>3, <2>4
  <2>8. RunOK(r)'
    <3>1. /\ run'[r].target = run[r].target /\ run'[r].pc = run[r].pc
          /\ run'[r].result = run[r].result
          /\ run'[r].reply = run[r].reply \/ (run[r].pc = "run" /\ run'[r].reply = reply)
      BY <2>2, <1>b DEF RunRecords
    <3>2. held \subseteq held' /\ (run[r].target \in there' => run[r].target \in there \/ r \in held')
      BY <2>4 DEF Happens
    <3> QED BY <3>1, <3>2, <2>1, <2>3, <1>a DEF RunOK, Succeeded, KindOf
  <2> QED BY <2>6, <2>7, <2>8, InvOfRunsNext
<1>2. ASSUME NEW reply \in {"listed", "unlisted", "error"}, Query(r, reply)
      PROVE  ConnectorsInv'
  <2>1. /\ run' \in [Runs -> RunRecords] /\ \A q \in Runs : q # r => run'[q] = run[q]
        /\ run'[r] = [target |-> run[r].target, pc |-> run[r].pc, reply |-> reply, result |-> run[r].result]
    BY <1>2, <1>a, RepliedRun DEF Query
  <2>2. TypeOK' /\ Others(r) BY <1>2, <2>1, <1>a DEF Query, TypeOK, Others
  <2>3. reply = "listed" => r \in held BY <1>2, <1>a DEF Query, RunOK
  <2>4. RunOK(r)'
    <3>1. /\ run'[r].target = run[r].target /\ run'[r].result = run[r].result
          /\ run'[r].pc = "verify" /\ run[r].pc = "verify" /\ run'[r].reply = reply
      BY <1>2, <2>1 DEF Query
    <3>2. UNCHANGED <<wire, applied, proc, there, held>> BY <1>2 DEF Query
    <3> QED BY <3>1, <3>2, <2>3, <1>a DEF RunOK, Succeeded, KindOf
  <2>5. there' = there /\ held' = held BY <1>2 DEF Query
  <2> QED BY <2>2, <2>4, <2>5, <1>a, OthersKept, InvOfRunsNext
<1> QED BY <1>1, <1>2 DEF Platform

\* An owner does or undoes something by hand.
LEMMA OwnerKeeps ==
  ASSUME ConnectorsInv, NEW t \in Targets, OwnerDoes(t) \/ OwnerUndoes(t)
  PROVE  ConnectorsInv'
<1>a. TypeOK /\ \A q \in Runs : RunOK(q) BY InvOfRuns
<1>1. TypeOK' BY <1>a DEF TypeOK, OwnerDoes, OwnerUndoes, Happens
<1>2. CASE OwnerDoes(t)
  <2>1. ASSUME NEW q \in Runs PROVE RunOK(q)' BY <1>2, <1>a, HappensKeeps DEF OwnerDoes
  <2> QED BY <1>1, <2>1, InvOfRunsNext
<1>3. CASE OwnerUndoes(t)
  <2>1. ASSUME NEW q \in Runs PROVE RunOK(q)'
    BY <1>3, <1>a DEF OwnerUndoes, RunOK, Succeeded, KindOf, NotBegun
  <2> QED BY <1>1, <2>1, InvOfRunsNext
<1> QED BY <1>2, <1>3

-----------------------------------------------------------------------------

\* The inductive invariant of the engine, for any number of executions that
\* are under way at once and any targets.
THEOREM ConnectorsInvariant == Spec => []ConnectorsInv
<1>1. Init => ConnectorsInv
  <2> SUFFICES ASSUME Init PROVE ConnectorsInv
    OBVIOUS
  <2>1. TypeOK BY DEF Init, TypeOK, NotBegun, RunRecords
  <2>2. ASSUME NEW r \in Runs PROVE RunOK(r) BY DEF Init, RunOK, NotBegun, Succeeded
  <2> QED BY <2>1, <2>2, InvOfRuns
<1>2. ConnectorsInv /\ [Next]_vars => ConnectorsInv'
  <2> SUFFICES ASSUME ConnectorsInv, [Next]_vars PROVE ConnectorsInv'
    OBVIOUS
  <2>1. ASSUME NEW r \in Runs, Begin(r) \/ Advance(r) \/ ProcessExits(r) PROVE ConnectorsInv'
    <3>1. TypeOK' /\ RunOK(r)' /\ Others(r) /\ there' = there /\ held \subseteq held'
      BY <2>1, BeginKeeps, AdvanceKeeps
    <3>2. ASSUME NEW q \in Runs PROVE RunOK(q)' BY <3>1, InvOfRuns, OthersKept
    <3> QED BY <3>1, <3>2, InvOfRunsNext
  <2>2. ASSUME NEW r \in Runs, Platform(r) PROVE ConnectorsInv' BY <2>2, PlatformKeeps
  <2>3. ASSUME NEW t \in Targets, OwnerDoes(t) \/ OwnerUndoes(t) PROVE ConnectorsInv'
    BY <2>3, OwnerKeeps
  <2>4. CASE UNCHANGED vars
    BY <2>4 DEF vars, ConnectorsInv, TypeOK, RunInv, HeldInv, DoneWasSeen, ActsOnce,
                ProcessesAttended, ProcessInv, KindOf, Succeeded
  <2> QED BY <2>1, <2>2, <2>3, <2>4 DEF Next
<1> QED BY <1>1, <1>2, PTL DEF Spec

\* Every state of the engine is type correct.
THEOREM ConnectorsTypes == Spec => []TypeOK
<1>1. ConnectorsInv => TypeOK BY DEF ConnectorsInv
<1> QED BY <1>1, ConnectorsInvariant, PTL

\* verify(): a follow or a join recorded as done held on the platform at some
\* moment of its execution.
THEOREM DoneWasSeenTheorem == Spec => []DoneWasSeen
<1>1. ConnectorsInv => DoneWasSeen BY DEF ConnectorsInv
<1> QED BY <1>1, ConnectorsInvariant, PTL

\* No execution makes the platform act twice.
THEOREM ActsOnceTheorem == Spec => []ActsOnce
<1>1. ConnectorsInv => ActsOnce BY DEF ConnectorsInv
<1> QED BY <1>1, ConnectorsInvariant, PTL

\* No claude process outlives the execution that waits for it.
THEOREM ProcessesTheorem == Spec => []ProcessesAttended
<1>1. ConnectorsInv => ProcessesAttended BY DEF ConnectorsInv
<1> QED BY <1>1, ConnectorsInvariant, PTL

-----------------------------------------------------------------------------
(* What ExecutionsEnd rests on besides fairness.                             *)

\* How far it is to the result.
Place(pc) == CASE pc \in {"run", "cli"} -> 2 [] pc \in {"verify", "reap"} -> 1 [] OTHER -> 0

LEMMA AdvanceNearer ==
  ASSUME ConnectorsInv, NEW r \in Runs, Advance(r)
  PROVE  Place(run'[r].pc) < Place(run[r].pc) /\ run[r].pc # "done"
<1>a. TypeOK /\ RunOK(r) /\ run[r] \in RunRecords BY InvOfRuns DEF TypeOK
<1>1. ASSUME NEW result \in {"success", "failure", "raised"}, Ends(r, result) PROVE run'[r].pc = "done"
  <2>1. run'[r] = [target |-> run[r].target, pc |-> "done", reply |-> "none", result |-> result]
    BY <1>a, <1>1, EndsRun
  <2> QED BY <2>1
<1>2. ASSUME NEW pc \in {"verify", "reap"}, Awaits(r, pc) PROVE run'[r].pc = pc
  <2>1. run'[r] = [target |-> run[r].target, pc |-> pc, reply |-> "none", result |-> run[r].result]
    BY <1>a, <1>2, AwaitsRun
  <2> QED BY <2>1
<1>4. run[r].reply # "none" => run[r].pc \in {"run", "verify"}
  BY <1>a DEF RunOK, RunRecords, NotBegun
<1>5. CASE Acknowledge(r) BY <1>1, <1>2, <1>5 DEF Acknowledge, Place
<1>6. CASE Reject(r) \/ RejectBody(r) BY <1>1, <1>4, <1>6 DEF Reject, RejectBody, Place
<1>7. CASE Verify(r) \/ CallFails(r) BY <1>1, <1>7 DEF Verify, CallFails, Place
<1>8. CASE ReadOutput(r) \/ Reap(r) BY <1>1, <1>8 DEF ReadOutput, Reap, Place
<1>9. CASE CliTimesOut(r) BY <1>2, <1>9 DEF CliTimesOut, Place
<1> QED BY <1>5, <1>6, <1>7, <1>8, <1>9 DEF Advance

\* Two steps of its own bring an execution from its request to its result, and what
\* the platform, the process, the owners and the other executions do in between, early
\* or late, neither takes it back nor on: it is there to be read, that is all.
THEOREM NearerTheorem ==
  Spec => [][\A r \in Runs : run[r].pc # "new" =>
                \/ run'[r].pc = run[r].pc
                \/ Advance(r) /\ Place(run'[r].pc) < Place(run[r].pc)]_vars
<1>1. ASSUME ConnectorsInv, [Next]_vars, NEW q \in Runs, run[q].pc # "new"
      PROVE  run'[q].pc = run[q].pc \/ (Advance(q) /\ Place(run'[q].pc) < Place(run[q].pc))
  <2>a. TypeOK /\ run[q] \in RunRecords BY <1>1 DEF ConnectorsInv, TypeOK
  <2>1. ASSUME NEW r \in Runs, Begin(r) PROVE run'[q] = run[q]
    <3>1. r # q BY <1>1, <2>1 DEF Begin, RefuseTask, Send, Spawn, SpawnFails
    <3> QED BY <1>1, <2>1, <3>1, BeginKeeps DEF Others
  <2>2. ASSUME NEW r \in Runs, Advance(r) \/ ProcessExits(r), r # q PROVE run'[q] = run[q]
    BY <1>1, <2>2, AdvanceKeeps DEF Others
  <2>3. Advance(q) => Place(run'[q].pc) < Place(run[q].pc) BY <1>1, AdvanceNearer
  <2>4. ASSUME NEW r \in Runs, Platform(r) PROVE run'[q].pc = run[q].pc
    <3>1. ASSUME NEW reply \in {"ok", "error", "listed", "unlisted"}, run' = [run EXCEPT ![r].reply = reply]
          PROVE  run'[q].pc = run[q].pc
      BY <2>a, <3>1 DEF TypeOK
    <3> QED BY <2>4, <3>1 DEF Platform, Handle, Query
  <2>5. ProcessExits(q) => run' = run BY DEF ProcessExits
  <2>6. ASSUME NEW t \in Targets, OwnerDoes(t) \/ OwnerUndoes(t) PROVE run' = run
    BY <2>6 DEF OwnerDoes, OwnerUndoes
  <2>7. UNCHANGED vars => run' = run BY DEF vars
  <2> QED BY <1>1, <2>1, <2>2, <2>3, <2>4, <2>5, <2>6, <2>7 DEF Next
<1>2. ConnectorsInv /\ [Next]_vars =>
        [\A r \in Runs : run[r].pc # "new" =>
                \/ run'[r].pc = run[r].pc
                \/ Advance(r) /\ Place(run'[r].pc) < Place(run[r].pc)]_vars
  BY <1>1
<1> QED BY <1>2, ConnectorsInvariant, PTL DEF Spec

\* Requests that reach the platform late, answers nobody waits for any more, and
\* processes that exit after all change nothing about a result.
THEOREM FinalTheorem ==
  Spec => [][\A r \in Runs : run[r].pc = "done" => run'[r] = run[r]]_vars
<1>1. ASSUME ConnectorsInv, [Next]_vars, NEW q \in Runs, run[q].pc = "done"
      PROVE  run'[q] = run[q]
  <2>a. TypeOK /\ run[q] \in RunRecords BY <1>1 DEF ConnectorsInv, TypeOK
  <2>1. ASSUME NEW r \in Runs, Begin(r) PROVE run'[q] = run[q]
    <3>1. r # q BY <1>1, <2>1 DEF Begin, RefuseTask, Send, Spawn, SpawnFails
    <3> QED BY <1>1, <2>1, <3>1, BeginKeeps DEF Others
  <2>2. ASSUME NEW r \in Runs, Advance(r) PROVE run'[q] = run[q]
    <3>1. r # q BY <1>1, <2>2, AdvanceNearer
    <3> QED BY <1>1, <2>2, <3>1, AdvanceKeeps DEF Others
  <2>3. ASSUME NEW r \in Runs, Platform(r) PROVE run'[q] = run[q]
    <3>1. ASSUME NEW reply \in {"ok", "error", "listed", "unlisted"}, run' = [run EXCEPT ![r].reply = reply],
                 run[r].pc # "done"
          PROVE  run'[q] = run[q]
      BY <1>1, <2>a, <3>1, RepliedRun
    <3> QED BY <2>3, <3>1 DEF Platform, Handle, Query
  <2>4. ASSUME NEW r \in Runs, ProcessExits(r) PROVE run' = run BY <2>4 DEF ProcessExits
  <2>5. ASSUME NEW t \in Targets, OwnerDoes(t) \/ OwnerUndoes(t) PROVE run' = run
    BY <2>5 DEF OwnerDoes, OwnerUndoes
  <2>6. UNCHANGED vars => run' = run BY DEF vars
  <2> QED BY <1>1, <2>1, <2>2, <2>3, <2>4, <2>5, <2>6 DEF Next
<1>2. ConnectorsInv /\ [Next]_vars =>
        [\A r \in Runs : run[r].pc = "done" => run'[r] = run[r]]_vars
  BY <1>1
<1> QED BY <1>2, ConnectorsInvariant, PTL DEF Spec

-----------------------------------------------------------------------------
(* The engine implements Executions.                                         *)

Target  == [r \in Runs |-> run[r].target]
Outcome == [r \in Runs |-> OutcomeOf(r)]
Acted   == {r \in Runs : applied[r] > 0}

\* What changes for Executions when one execution changes.
LEMMA OneChanges ==
  ASSUME NEW r \in Runs, NEW t, NEW o, run'[r].target = t, OutcomeOf(r)' = o,
         \A q \in Runs : q # r => run'[q] = run[q]
  PROVE  Target' = [Target EXCEPT ![r] = t] /\ Outcome' = [Outcome EXCEPT ![r] = o]
BY DEF Target, Outcome, OutcomeOf

LEMMA BeginResults ==
  ASSUME ConnectorsInv, NEW r \in Runs, Begin(r)
  PROVE  Results!Next
<1>a. TypeOK /\ RunInv BY DEF ConnectorsInv
<1>b. PICK t \in Targets : RefuseTask(r, t) \/ Send(r, t) \/ Spawn(r, t) \/ SpawnFails(r, t)
  BY DEF Begin
<1>c. Outcome[r] = "none"
  BY <1>b DEF Outcome, OutcomeOf, RefuseTask, Send, Spawn, SpawnFails
<1>d. applied' = applied BY <1>b DEF RefuseTask, Send, Spawn, SpawnFails
<1>e. Acted' = Acted BY <1>d DEF Acted
<1>1. ASSUME NEW o \in {"failure", "raised"}, held' = held,
             run' = [run EXCEPT ![r] = [target |-> t, pc |-> "done", reply |-> "none", result |-> o]]
      PROVE  Results!Next
  <2>1. run'[r] = [target |-> t, pc |-> "done", reply |-> "none", result |-> o]
        /\ \A q \in Runs : q # r => run'[q] = run[q]
    BY <1>a, <1>1 DEF TypeOK
  <2>2. run'[r].target = t /\ OutcomeOf(r)' = o BY <2>1 DEF OutcomeOf
  <2>3. Target' = [Target EXCEPT ![r] = t] /\ Outcome' = [Outcome EXCEPT ![r] = o]
    BY <2>1, <2>2, OneChanges
  <2>4. Results!Refuse(r, t, o)
    BY <1>c, <1>e, <1>1, <2>3 DEF Results!Refuse, Target, Outcome, Acted
  <2> QED BY <1>1, <2>4 DEF Results!Next, Results!Outcomes
<1>2. ASSUME NEW pc \in {"run", "cli"}, held' \in {held, held \cup {r}},
             run' = [run EXCEPT ![r] = [target |-> t, pc |-> pc, reply |-> "none", result |-> "none"]]
      PROVE  Results!Next
  <2>1. run'[r] = [target |-> t, pc |-> pc, reply |-> "none", result |-> "none"]
        /\ \A q \in Runs : q # r => run'[q] = run[q]
    BY <1>a, <1>2 DEF TypeOK
  <2>2. run'[r].target = t /\ OutcomeOf(r)' = "awaited" BY <1>2, <2>1 DEF OutcomeOf
  <2>3. Target' = [Target EXCEPT ![r] = t] /\ Outcome' = [Outcome EXCEPT ![r] = "awaited"]
    BY <2>1, <2>2, OneChanges
  <2>4. Results!Take(r, t)
    BY <1>c, <1>e, <1>2, <2>3 DEF Results!Take, Target, Outcome, Acted
  <2> QED BY <2>4 DEF Results!Next
<1> QED BY <1>b, <1>1, <1>2 DEF RefuseTask, Send, Spawn, SpawnFails

LEMMA AdvanceResults ==
  ASSUME ConnectorsInv, ConnectorsInv', NEW r \in Runs, Advance(r)
  PROVE  Results!Next \/ UNCHANGED Results!vars
<1>a. TypeOK /\ TypeOK' /\ RunInv /\ DoneWasSeen' BY DEF ConnectorsInv
<1>b. run[r] \in RunRecords /\ run'[r] \in RunRecords BY <1>a DEF TypeOK
<1>c. applied' = applied /\ held' = held
  BY DEF Advance, Acknowledge, Reject, RejectBody, Verify, CallFails, ReadOutput, CliTimesOut, Reap
<1>d. Acted' = Acted BY <1>c DEF Acted
<1>e. run[r].reply # "none" => run[r].pc \in {"run", "verify"}
  BY <1>a, <1>b DEF RunInv, RunRecords, NotBegun
<1>f. run[r].pc \in {"run", "verify", "cli", "reap"}
  BY <1>e DEF Advance, Acknowledge, Reject, RejectBody, Verify, CallFails, ReadOutput, CliTimesOut, Reap
<1>1. ASSUME NEW o \in {"success", "failure", "raised"}, Ends(r, o) PROVE Results!Next
  <2>1. run'[r] = [target |-> run[r].target, pc |-> "done", reply |-> "none", result |-> o]
        /\ \A q \in Runs : q # r => run'[q] = run[q]
    BY <1>a, <1>1, EndsRun
  <2>2. run'[r].target = run[r].target /\ OutcomeOf(r)' = o BY <2>1 DEF OutcomeOf
  <2>3. Target' = [Target EXCEPT ![r] = run[r].target] /\ Outcome' = [Outcome EXCEPT ![r] = o]
    BY <2>1, <2>2, OneChanges
  <2>4. Target' = Target BY <2>3 DEF Target
  <2>5. Outcome[r] = "awaited" BY <1>f DEF Outcome, OutcomeOf
  <2>6. o = "success" /\ Target[r] \in Observable => r \in held
    <3>1. Succeeded(r)' <=> o = "success" BY <2>1 DEF Succeeded
    <3>2. KindOf(r)' = Kind[run[r].target] BY <2>2 DEF KindOf
    <3>3. Target[r] = run[r].target BY DEF Target
    <3> QED BY <1>a, <1>c, <3>1, <3>2, <3>3 DEF DoneWasSeen, Observable
  <2>7. Results!Finish(r, o)
    BY <1>c, <1>d, <2>3, <2>4, <2>5, <2>6 DEF Results!Finish, Target, Outcome, Acted
  <2> QED BY <2>7 DEF Results!Next, Results!Outcomes
<1>2. ASSUME NEW pc \in {"verify", "reap"}, Awaits(r, pc) PROVE UNCHANGED Results!vars
  <2>1. run'[r] = [target |-> run[r].target, pc |-> pc, reply |-> "none", result |-> run[r].result]
        /\ \A q \in Runs : q # r => run'[q] = run[q]
    BY <1>a, <1>2, AwaitsRun
  <2>2. run'[r].target = run[r].target /\ OutcomeOf(r)' = OutcomeOf(r)
    BY <1>f, <1>2, <2>1 DEF OutcomeOf
  <2>3. Target' = Target /\ Outcome' = Outcome BY <2>1, <2>2 DEF Target, Outcome, OutcomeOf
  <2> QED BY <1>c, <1>d, <2>3 DEF Results!vars, Target, Outcome, Acted
<1> QED BY <1>1, <1>2 DEF Advance, Acknowledge, Reject, RejectBody, Verify, CallFails, ReadOutput,
    CliTimesOut, Reap

LEMMA PlatformResults ==
  ASSUME ConnectorsInv, NEW r \in Runs, Platform(r)
  PROVE  Results!Next \/ UNCHANGED Results!vars
<1>a. TypeOK /\ RunInv /\ ActsOnce /\ wire[r] \in Nat /\ applied[r] \in Nat BY DEF ConnectorsInv, TypeOK
<1>1. ASSUME run' = run \/ (\E reply : run' = [run EXCEPT ![r].reply = reply])
      PROVE  Target' = Target /\ Outcome' = Outcome
  BY <1>1, <1>a DEF Target, Outcome, OutcomeOf, TypeOK, RunRecords
<1>2. Target' = Target /\ Outcome' = Outcome BY <1>1 DEF Platform, Handle, Query
<1>3. CASE applied' = applied /\ held' = held
  <2>1. Acted' = Acted BY <1>3 DEF Acted
  <2> QED BY <1>2, <1>3, <2>1 DEF Results!vars, Target, Outcome, Acted
<1>4. CASE wire[r] > 0 /\ Happens(run[r].target) /\ applied' = [applied EXCEPT ![r] = @ + 1]
  <2>1. applied[r] = 0 BY <1>a, <1>4 DEF ActsOnce
  <2>2. run[r].pc # "new" BY <1>a, <1>4 DEF RunInv
  <2>3. r \notin Acted /\ Acted' = Acted \cup {r} BY <1>a, <1>4, <2>1 DEF Acted, TypeOK
  <2>4. Outcome[r] # "none"
    <3>1. run[r].pc = "done" => run[r].result # "none" BY <1>a, <2>2 DEF ConnectorsInv, RunInv
    <3> QED BY <2>2, <3>1 DEF Outcome, OutcomeOf
  <2>5. held' = held \cup {q \in Runs : Target[q] = Target[r]} BY <1>4 DEF Happens, Target
  <2>6. Results!Act(r) BY <1>2, <2>3, <2>4, <2>5 DEF Results!Act, Results!Hold, Target, Outcome, Acted
  <2> QED BY <2>6 DEF Results!Next
<1> QED BY <1>3, <1>4 DEF Platform, Handle, Query

LEMMA StepResults == ConnectorsInv /\ ConnectorsInv' /\ [Next]_vars => [Results!Next]_(Results!vars)
<1> SUFFICES ASSUME ConnectorsInv, ConnectorsInv', [Next]_vars
             PROVE  Results!Next \/ UNCHANGED Results!vars
  OBVIOUS
<1>1. ASSUME NEW t \in Targets, OwnerDoes(t) PROVE Results!Next
  <2>1. held' = held \cup {r \in Runs : Target[r] = t} /\ run' = run /\ applied' = applied
    BY <1>1 DEF OwnerDoes, Happens, Target
  <2>2. Target' = Target /\ Outcome' = Outcome /\ Acted' = Acted
    BY <2>1 DEF Target, Outcome, OutcomeOf, Acted
  <2>3. Results!OthersAct(t)
    BY <2>1, <2>2 DEF Results!OthersAct, Results!Hold, Target, Outcome, Acted
  <2> QED BY <2>3 DEF Results!Next
<1>2. ASSUME UNCHANGED <<run, applied, held>> PROVE UNCHANGED Results!vars
  <2>1. Target' = Target /\ Outcome' = Outcome /\ Acted' = Acted
    BY <1>2 DEF Target, Outcome, OutcomeOf, Acted
  <2> QED BY <1>2, <2>1 DEF Results!vars, Target, Outcome, Acted
<1>3. ASSUME NEW t \in Targets, OwnerUndoes(t) PROVE UNCHANGED Results!vars BY <1>2, <1>3 DEF OwnerUndoes
<1>4. ASSUME NEW r \in Runs, ProcessExits(r) PROVE UNCHANGED Results!vars BY <1>2, <1>4 DEF ProcessExits
<1>5. CASE UNCHANGED vars BY <1>2, <1>5 DEF vars
<1> QED BY <1>1, <1>3, <1>4, <1>5, BeginResults, AdvanceResults, PlatformResults DEF Next

\* execute_with_verification: whatever requests, answers, timeouts and processes do,
\* whoever awaits an execution gets one result that stays, a success that was seen where
\* it can be seen, and at most one act, be it after the result.
THEOREM ResultsTheorem == Spec => KeepsResults
<1>1. Init => Results!Init
  BY DEF Init, Results!Init, NotBegun, OutcomeOf
<1> QED BY <1>1, StepResults, ConnectorsInvariant, PTL DEF Spec, KeepsResults, Results!Spec
=============================================================================
