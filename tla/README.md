# Kimchi Workflows: the verification project

TLA+ specifications of the workflow engine and of its host adapter, the TLC runs that
check them on small instances, and TLAPS proofs of what matters most. Source paths are
relative to the repository; `src/` is its implementation.

## The system

A *workflow* is a committed tree of nodes: steps, branches, loops, foreach and parallel
fan-outs and nested workflows. `/workflow run` walks it (`src/engine`), records every
transition as an event in an append-only JSONL log (`src/host/fs-store.ts`), and stops when
it is completed, crashed, cancelled or *blocked* on a human. Everything that outlives an
engine call is derived from the log: step states (`step-state.ts`), the run's status
(`run-status.ts`), what a resume skips (`resume-workflow.ts`), the progress panel
(`progress/project.ts`) and the telemetry (`telemetry-bridge.ts`). A lease file says which
process executes a run; a process that died is detected by the next command. `/workflow
create` is itself a workflow, which writes files and prepares the package that all workflows
of a project share.

| component | state it keeps | operations | correct when |
|---|---|---|---|
| tracked execution (`active-runs.ts`, `context.ts` runTracked, `host-port.ts`) | cancel/settle state, cancellation promise, abort signal, event filter | start, emit, cancel, settle, finish | one decision per execution, taken once; nothing follows a recorded cancellation; the abort comes after the flush; everyone is answered |
| execution lease (`fs-store.ts`, `run-lease.ts`, `reconcile-runs.ts`) | lease file, retirement marker | acquire, inspect, retire, release | one executor per run over all processes; a dead owner's lease is reclaimed; commands end |
| event log (`fs-store.ts`) | one file per run, append queues | append, load, list | readers never skip an event, what was appended is read |
| concurrency gate and lanes (`scheduler.ts`) | slot counter, waiters, claimed index | acquire, release, runConcurrent | the ceiling holds, no lost wake-up, nobody overtaken, nothing claimed after a crash |
| fan-out constructs (`concurrent-nodes.ts`) | results, still-blocked siblings, drained items | fresh round, re-entry, settlement | reports agree with the log, recorded work is kept, outputs are whole, siblings untouched |
| node walker (`execute.ts`, `node-path.ts`, `engine/context.ts`) | outputs in memory, re-entry path, call stack | sequence, branch, foreach, loop, nested | answers re-enter the position that asked, reads come back as they were, reports agree with the log |
| resume (`resume-workflow.ts`, `run-workflow.ts`) | none: rebuilt from the log | restart, answer, respond | skips exactly what is recorded; answers only what is still asked |
| status derivation (`step-state.ts`, `run-status.ts`) | none | fold over the log | one status per log, agreeing with what was reported |
| step runner (`step-runner.ts`, `engine/context.ts`) | attempt counter, elapsed time, tokens | attempt, retry, steer, time out | bounded attempts, budgets carried over blocks, late attempts harmless |
| run commands (`host/commands`) | none | run, resume, cancel, delete, list | interleavings of commands on one run lose nothing |
| agent bridge, subagent process | in-session turn, child process, claims on resume files | start, abort, settle, claim, release | one turn at a time, the right turn's output, one writer per file, no orphan |
| workflow builder (`create-workflow.ts`, `isolation.ts`) | a draft until commit | commit | two agent steps that can be under way at once neither share the session nor ask in it; no two of them hold a static resume key |
| progress view and panel (`progress/`, `progress-widget.ts`) | a fold of the log, a timer | project, collapse, sync | the view tells the state the log derives to; an ended run is still |
| telemetry (`telemetry-bridge.ts`) | what a mapper learned of each run | learn, publish | every payload complete, the last one heard is how the run ended |
| creation (`create.workflow.ts`), project package (`workflow-package.ts`) | workflow files; manifest, lockfile, node_modules | design, review, reserve, prepare, implement, check | files keep their owner, completion means proven, the toolchain matches the manifest |
| questionnaires, catalog, verification CLI, test driver | forms, files | | see `PROJECT.json` |

Components interact through the log (every component), through `AbortSignal`s (cancellation
reaches lanes, steps and subprocesses), through the gate (steps of all constructs of a run)
and through files (processes). The hard behaviours are the interleavings of cancel, events
and settlement inside one process; system calls of several processes on the lease and on the
project's package; lanes that block, crash and drain in any order, with restarts and answers
over the run's life; answers that re-enter nested constructs over outputs rebuilt from the
whole log; and process death between any two of these, or in the middle of a line of the log.
`PROJECT.json` lists them as hazards, each at its line.

## Modules

| module | models | state and actions |
|---|---|---|
| `CancelDecision` | what an execution promises its cancellers and its reporter: one decision | abstract |
| `ActiveRun` | one execution inside its process | `state`, `cancellation`, `aborted` are ActiveRun's fields; `stream` is the append queue and the log in one; `phase` is where runTracked and the walker are. `Cancel`, `SettleBeforeReport`, `SettleInFinally` are cancel() and the two settle() calls, `AppendSucceeds`/`AppendFails` the completion of the append at the head of the file's queue with every promise continuation it triggers, `EmitStepEvent`/`EmitBackgroundEvent`/`EngineReturns` the engine's side |
| `ActiveRunProofs` | inductive invariant, proofs | |
| `ExclusiveLease` | an exclusive lease: taken when free, given up by its holder or taken from it when it does not execute | abstract |
| `ExecutionLease` | the lease file protocol | one action per system call of acquire, inspect, retire and release; `pc` is the agent's place in the code, `seen` what it read last (possibly stale), `Crash` kills a process between any two |
| `ExecutionLeaseProofs` | inductive invariant, step simulation of `ExclusiveLease`, proofs | |
| `EventLog` | the log files of a project's runs | `file` is each log's lines and what follows its last newline, `queue` the appends a process has accepted, `at` the run its command works on; `Command` (which lists and loads), `appendEvent`, `Appended`, `Returns`, and `Dies`, which may cut a line short |
| `EventLogProofs` | inductive invariant, proofs | |
| `ConcurrencyGate` | the run-wide semaphore | `acquire`, `release`, and `Enter`, the continuation of a resolved acquire |
| `ConcurrencyGateProofs` | inductive invariant, proofs | |
| `FanOut` | foreach and parallel over a run's life | `pc`, `at`, `outcome`, `toRun`, `stopped`, `still` are one engine call's memory, `steps`, `outputs`, `history`, `nodeDone`, `terminal` what is derived from the log; the items nobody claimed yet are a set, and a lane claims the `First` of them. `Answer`, `Resume`, `Cancel`, `Crash`, `Reconcile` are the commands and the process |
| `FanOutProofs` | inductive invariant, proofs; the theorem on what every committed definition keeps apart of what a fan-out runs at once | |
| `AgentBridge` | what the sessions of one agent step share | `inFlight`, `tools`, `narrowed`, `claim` are pi-agent.ts's `inFlight`, the harness's active tools, the sessions' `toolBaseline` and `liveResumeFiles`; `children` the subprocesses, `leaked` (history) who threw between its claim and its child. Its operators are conjoined to StepRunner's actions |
| `StepRunner` | one function or agent step from start to settlement, over blocks and answers | `pc`, `n`, `timer`, `carry` are the retry loop and withTimeBudget; `att`, `repair`, `total`, `verdict` one record per attempt of runAgentSession, abandoned ones included; `queue` and `state` the log. `CallBegins`, `RetryWritten`, `BackoffOver`, `Timeout` are the loop, `ModelSelected`, `TurnEnds`, `ChildExits`, `UsageBilled`, `Steered`, `ErrorRecorded`, `FunctionEnds` an attempt, `Answer` and `Cancel` the user |
| `StepRunnerProofs` | lemmas on the append queue, inductive invariant, proofs | |
| `RunLifecycle` | the commands on one run, issued in several processes | agents are command invocations; `pc`, `cmd`, `seen` (the events a command read, possibly outdated), `shown`, `target`, `ctl`, `ex` are their locals and their entry in ActiveRuns; `log` is what the commands derive from the event log, `lease` and `marker` the lease files. `Acquire` to `Settle` are runTracked around the engine, `Mark` to `Unmark` retire, `Resolve` to `Judge` what resume, cancel and delete have in common (resolve, reconcile, load, inspect), `CancelActive`, `ColdCancel` and `Delete` their effects |
| `RunLifecycleProofs` | inductive invariant in two layers, proofs | |
| `WorkflowTree` | a committed definition and its three addresses: node path, static key, the name a callback reads | operators: `StaticKey`, `ScopeOf`, what a name resolves to from where, `Committed` |
| `RunLog` | the log as its readers fold it | `Record` advances deriveStepStates, the terminal event, rebuildStepOutputs, the open questions and the item history by one event; `deriveRunStatus` |
| `NodeWalk` | a run of a whole workflow over its engine calls | `stack` is the walker's call stack (frames of `runNodeSequence`, groups of arms or items), `memory` its stepOutputs, `reentry` the path an answer has left to go, `log` the `RunLog`. `Run`, `resumeWorkflow`, `resumeWithAnswer`, `resumeWithInteraction`, `Cancel`, `Reconcile` are the commands; `StartStep` to `CloseRoot` the walk; `LosesPosition` the drift checks; `Edit` the author, `Crash` the process |
| `Progress` | outline, fold, states, counts, collapse | operators: `Advance` (foldEvents), `project`, `Drawn`, `hasWorkInFlight`, `stepsSettled` |
| `Telemetry` | what a mapper learns and publishes of one event | operators: `Learned`, `Publish`, `blocked`, `Heard` |
| `ObservedRun` | `NodeWalk` watched by the panel and a telemetry subscriber | composes the three: every action of the run also advances the observers by the events it sent |
| `WorkflowCommit` | the checks of commit() on a definition's shape and the isolation walk | operators: `commit`, `Isolated`, `resolveIsolation`; `AtOnce` says which executions may overlap, `OneFile` which continue in one resume file |
| `ProjectPackage` | the shared pnpm package and its preparation by several processes | `manifest`, `installed` are the disk, `prep` each preparation's place; `reads` what its pnpm read when it started; `Inspect` to `InstallFails` its steps, `Abandon` its end when its process dies or its run is aborted; `strays` are pnpm processes that outlive who started them (`StrayReads`, `StrayEnds`) |
| `WorkflowCreation` | the workflow behind `/workflow create`, several at once | `run` is where each creation is and the plan it holds, `files` the workflow directory; one action per step of `create.workflow.ts`, `check` with the stages of the candidate validator and of the verifier and how each outcome is classed; `Stop`, `CancelWaiting`, `Resume` are the engine, `Launch` other commands, `Author` the user |
| `WorkflowCreationProofs` | inductive invariant, proofs | |
| `MCActiveRun`, `MCExecutionLease`, `MCConcurrencyGate`, `MCFanOut`, `MCStepRunner`, `MCRunLifecycle`, `MCNodeWalk`, `MCObservedRun`, `MCWorkflowCreation`, `MCWorkflowCommit` | instances for TLC | `MCWorkflowCommit` holds three assumptions over a set of definitions, evaluated by the run `Walk` |

Abstractions. Data is kept only as far as control depends on it: events are their types,
outputs are presence (in `NodeWalk`, one of a few values), items are numbers, an execution id
is a counter. A stretch of JavaScript without an await is one action.

* `ActiveRun`: between the engine's return and the end of the second settle() only promise
  continuations run, so no file-system callback comes between.
* `ExecutionLease`: the exclusive creation of a file and the write of its content are two
  steps; process identity (pid and start time) is exact; every process is on one machine in
  the run, while leases of other machines are never judged dead by the code and by
  `ProvablyDead`.
* `EventLog`: a line parses as its event or does not parse; one that was cut short parses when
  only its newline is missing. A reader does not meet a line that is just being written.
* `FanOut`: an event counts once its append finished, and one engine call is in progress at a
  time, which is what `ExecutionLease` is about.
* `StepRunner`: prompts and replies are the verdict checkAgentTurn gives them, time is counted
  in units, appends succeed (their failures are `ActiveRun`'s), and a cancellation is recorded
  when everything accepted before it is, which `ActiveRunProofs` proves; whatever an attempt
  that was refused an event does next comes before the next callback of the host (`Quiet`).
* `RunLifecycle`: the workflow is one step, the lease file is created and read whole, an
  orphaned marker is replaced in one step and one execution settles in one step
  (`ExecutionLease` and `ActiveRun` look closer there); `blind` records that a command acted
  on events that had changed since it read them.
* `NodeWalk`: a step starts and ends (`StepRunner` looks inside), a construct's opening events
  are one action, one question is open at a time (`FanOut` has several), concurrent foreaches
  and parallels are left to `FanOut`. `interrupted` keeps, for two properties and for no
  action, where the call that asked was.
* `ObservedRun`: a clock is running, stopped or not there; one fold stands for the panel, the
  card and `/workflow status`, which project the same events.
* `WorkflowCreation`: the engine is what it promises a workflow: a run that stopped goes on at
  its first top-level node without a checkpoint. A file is who wrote it, for which plan and how
  good it is; the agent may write any quality. A truncated manifest is `Torn`, a manifest is the
  framework version it pins. An install reads the manifest when its pnpm starts and takes effect
  when it ends; how pnpm writes `node_modules` in between, and what two of them at once make of
  it besides the last one's result, is left out. `orphaned`, `unfinished` and `overtaken` are
  history that no action depends on.

An operator whose comment begins with "Bug" is the code with a plausible mistake in it; no
specification uses it. Each property is violated when one of them takes the place of the
definition it varies.

## Runs

| run | question | result |
|---|---|---|
| `ActiveRun` | two cancellers, two emitted events, up to two failing appends, a fresh run | passes |
| `Lease` | three commands in three processes, one process may die, one retry | passes |
| `Lease_retirement` | is the run executed once at a time even when a retirement marker is orphaned? | violated, see Findings |
| `Gate` | five steps, two slots | passes |
| `FanOut` | three items with two lanes (so that a lane is short), items that ask, one optional, one that can only succeed or crash; four engine calls, one dead process, one cancellation | passes |
| `FanOut_siblings` | does answering one foreach item leave the others untouched? | violated |
| `Step` | seven kinds of step (in-session ones that ask, select a model or declare no contract; resumable and plain subagents; functions), two attempts, a budget of two units and two tokens, one correction, two answers, a cancellation at any point | passes |
| `Lifecycle` | a run and two further commands of two processes (two agents in one, one in the other), one question, one dead process | passes |
| `Walk` | six workflows over three engine calls: a branch of three arms behind an optional step, a branch inside a loop behind an interactive step, a foreach inside a nested workflow inside a loop, two arms, two items, a failed draft ahead of two arms; one edit, which removes arms (of three and of two), adds one, drops an item, or changes steps; with panel and telemetry | passes |
| `Walk_report` | does the log derive to what the call reported? | violated |
| `Creation` | two creations over two names, two plans and two authoring rounds, a launch of a newer framework, a file of the user, one stop, one pnpm that outlives its process | passes |
| `EventLog_torn` | is what was reported as appended read by later commands, when a process died in the middle of a line? | violated |

Bounds. Two cancellers are enough to have a first and a shared one, and two failures to have
a cancellation fail twice. Three agents are what a race of two reclaimers against a new owner
takes; every agent may issue all the commands there are. One retry shows both sides of the
retry guard. Three items and two lanes give an item that is claimed late, one that drains and
one that blocks; four calls are run, answer, restart and answer. Two attempts are what an
abandoned attempt and its successor take, two answers a budget carried over two blocks; a turn
may use the whole token budget, so that it is passed by one turn, by a correction or after an
answer. Two commands on a run are what it takes to cancel it and to answer, resume or delete
it meanwhile; two processes, one of which may die, what it takes to reclaim. In `Walk`, three
calls are run, restart and answer, or two answers in one loop; two iterations and two items
are a first and a later one; three workflows nest every pair of constructs the walk treats
differently: an arm in a loop, a foreach and its question in a nested workflow in a loop, two
arms taken together; the others are small ones in which an edit meets a stopped run, or a
discarded attempt turns a condition. In `Creation`, two plans are a first and a revised one, two rounds a
failed check and its repair, two names the target and the one it falls back to when the user
or a second creation took the first (a creation that finds both taken goes no further); one
stop reaches every position once, and one stray pnpm is all that one stop leaves behind.

In `EventLog_torn` one death and two events would do; two runs show
that one log's damage reaches the commands on the other.

Deadlock is checked in `Gate`, which never stops. In the others the system may stop: the
execution is done, the commands are issued, the run is completed, every bounded creation over.

Fairness. The process goes on: an append finishes (or fails), a resolved promise's
continuation runs, a command that began goes on. A step ends, because its time budget and its
retries are bounded (`step-runner.ts`); a process need not die, a user need not issue a
command or cancel. In `StepRunner` appends finish, timers fire and promises go on; a turn or a
child ends only once its attempt was aborted (the harness is told to stop and watched until it
is idle, the child is killed), and a function step's own code never has to. So a step ends
because its budget's timer does not wait for the attempt, or because it was cancelled. `Gate`,
`Walk` and `Creation` check safety only and assume none.

## Properties

Each property's comment in its module states it and names the code it is about. In short:

* one execution: `NothingFollowsCancellation`, `FlushedBeforeAbort`, `ReportMatchesLog`,
  `RunEnds`, `CancellersAnswered` and the refinement `ImplementsDecision`;
* the lease: `LeaseCoversExecution`, the refinement `ImplementsExclusiveLease`, `CommandsEnd`;
* the gate: `CeilingHolds`, `NoIdleSlot`, `FirstComeFirstServed`;
* fan-outs: `ReportMatchesStatusOtherwise`, `BlockedArmsUntouched`, `CompletedWorkIsKept`,
  `OutputIsWhole`, `DrainClaimsNothing`, `CallReturns`;
* a step: `OneConversation`, `BudgetsSpanBlocks`, `CompletedOrBlockedStands`, `StepEnds`;
* the commands: `ExecutionsAreSerial`, `EndStands`, `OneAnswerPerQuestion`, `GhostsAreReclaimed`;
* a walk: `ReportMatchesStatusOtherwise`, `CompletedNodesFormPrefix`, `RestoresPosition`,
  `AnswerReachesStepOtherwise`, `ReadsAreRecovered`;
* its observers: `ClockMatchesState`, `EndedRunIsSettled`, `PanelFollowsRun`,
  `PublishedIsSelfContained`, `SubscriberFollows`;
* creation: `OwnersKeepTheirEntry`, `CompletedAsApproved`, `PreparedPackageMatchesOtherwise`,
  `RefusedByOthersOtherwise`.

Where the code breaks a property in a way that is a finding below, the passing run checks the
property with that exception named, so that it still catches every other way to break it:

* `OpenInArm`, `LeftBehind` (`NodeWalk`): a step in a taken arm is left open; an edit removed a
  taken arm before its turn came, or dropped an item whose step was under way when its process
  died;
* `BlockedButRecovered` (`FanOut`): an arm blocked again over the output of a discarded attempt;
* `ReadsAsAsked` (`NodeWalk`): memory rebuilt from the log reads as it did at the question;
* `ArmLeftOpen`, `StoppedBetween`, `UnderClosed`, `UnderUnannounced`, `DroppedItem`
  (`ObservedRun`): the panel's rows of arms and constructs that were cut short or ran before, of
  arms that re-entry took without recording it, and of items an edit dropped;
* `unfinished`, `overtaken` (`ProjectPackage`): an install that was cut short or failed, a
  manifest that was rewritten under an install of another, each until somebody installs what
  the manifest pins and nothing else is under way;
* `orphaned` (`WorkflowCreation`): a reservation that was not checkpointed;
* `leaked` (`AgentBridge`): a session that threw between its claim on the resume file and its
  child;
* `blind` (`RunLifecycle`): a command that acted on an outdated reading. The code loads the log
  before it takes the lease, or takes none (cold cancel, delete).

## Findings

Each of these has a run that ends in its counterexample:

* An orphaned retirement marker is removed by path after two awaits; two reclaimers can then
  retire a lease that was acquired since, and a run executes twice (`fs-store.ts:182`, run
  `Lease_retirement`).
* Re-entry of a concurrent foreach looks blocked siblings up by the item's key while they are
  stored by the step's; every other blocked item is restarted (`concurrent-nodes.ts:399`, run
  `FanOut_siblings`).
* A run blocked inside a branch arm derives as in progress, because the taken arm does; the next
  command takes it for abandoned and records run-crashed (`step-state.ts:81`, run `Walk_report`).
* A line that a dying process cut short is continued by the next append: that event is dropped
  with it although its append succeeded, and the event after it makes the log unreadable, and
  with it `list()` and every command that resolves a run id, of any run (`fs-store.ts:212`, run
  `EventLog_torn`).

Met while modelling, some as counterexamples to stronger forms of the properties, without a
run of their own:

* Execution. A cancellation whose append fails loses the checkpoints refused while it was being
  written (`active-runs.ts:66`). A cancel is accepted until settle() is called, also when
  run-completed is already in the log, and the completed run becomes a cancelled one
  (`active-runs.ts:57`); the same happens through an outdated reading (`reconcile-runs.ts:73`,
  `commands/resume.ts:128`, `commands/lifecycle.ts:131`). A release that meets the live marker
  of a late reclaimer leaves its lease behind until its process ends (`fs-store.ts:181`).
* Steps. An attempt whose time budget fires while its reply is being billed still steers:
  `agent-steer` lands after the step's or the run's last event and the run derives as in
  progress (`step-runner.ts:535`). Carried tokens survive a continuation whose time budget is
  exhausted (`step-runner.ts:191`). An answered attempt is numbered 1 again although
  `engine/types.ts:255` keeps it on its number. A retry after an answer is seeded with the
  blocked conversation although spec 9.1 asks for a fresh session. A claim on a resume file
  leaks when the bridge throws before it spawns (`pi-agent.ts:604`, thrown from 616 to 643, ahead
  of the `try` at 649): every later execution of that key is refused for the life of the process,
  its own retries included. The model does this (`ThrowBeforeSpawn`); without the exception
  `leaked` TLC violates `OneConversation`. A session abandoned by its
  time budget restores the active tools under its successor's turn (`pi-agent.ts:563`). An
  answer to a step that was edited into a function is dropped (`execute.ts:333-347`).
* Resume files. commit() refuses a static string key where executions can overlap, and advises
  `resumable: true` instead (`isolation.ts:82-86`). But that is keyed by the step's name
  (`step-runner.ts:86`), so the items of a concurrent foreach share one file as well: commit()
  accepts them (`ItemsShareAName` in `MCWorkflowCommit`), and the second item fails at run time,
  by the claim. `step-runner.ts:404-408` has it that commit() established one writer at a time,
  `create-agent-step.ts:14` that static keys cannot be shared by executions that may overlap;
  `types.ts:274` knows of the pooling.
* Resume. Outputs are rebuilt from the whole log, discarded attempts included
  (`resume-workflow.ts:133`): re-entry of a parallel takes such an output for the result of a
  blocked arm (`concurrent-nodes.ts:592`), a branch condition read over it can turn and the
  answer is dropped (`execute.ts:598`), and the prefix a restart skips counts it
  (`resume-workflow.ts:517`). Re-entry of a concurrent foreach goes on starting items after the
  answered one crashed (`concurrent-nodes.ts:437`). Between two steps of a resumed run the old
  terminal event decides its status (`run-status.ts:39`). Arm names are declared readable but
  have a value only after a resume.
* Edits. What an edit removes is never closed: a taken arm removed before its turn, or a step
  under way in an item that was dropped, stays in progress, so that the run's status does
  (`step-state.ts:81`). An arm that re-entry takes although it was not recorded as taken (an edit
  added it, or its condition turned) runs without a branch-arm event; the panel does not draw its
  steps, or draws them as skipped (`execute.ts:605`).
* Progress. What a construct closed is never opened again: in a loop's second iteration, or
  after a restart, it reads completed and collapses while its step runs. A construct that
  stopped between two of its nodes reads in progress for ever (`project.ts:611`). The panel's
  timer turns while a run waits inside an arm. The bar goes backwards when a skipped arm is
  taken or a run resumed. A taken construct's clock is not started again (`project.ts:272-293`).
* Telemetry. The comment at `telemetry-bridge.ts:283` has waiting end with `run_resumed`, which
  an answer does not emit.
* Creation. An install that fails, or is cut short, after the manifest was rewritten is not
  repeated: an old lockfile and an old verifier pass for it (`workflow-package.ts:71`). An
  install that read an older manifest may be the last to end, successfully, after another process
  rewrote the manifest and installed it: both report a ready package, and what is installed is
  the older version (`workflow-package.ts:84-98`, nothing is locked). TLC violates
  `PreparedPackageMatches` both ways; the run `Creation` checks it with the two exceptions, and
  needs each.
  `reserve` is not idempotent, which spec 8.3 asks of a function step: stopped between
  the exclusive write and its checkpoint, every resume is refused by its own file, and as the
  review loop is checkpointed the plan cannot be revised as the message advises
  (`create.workflow.ts:220`). A process that dies while it truncates the manifest leaves a file
  that every later preparation fails on (`workflow-package.ts:84`). A toolchain that cannot be
  resolved counts as the candidate's TypeScript error and burns authoring rounds
  (`workflow-candidate-validator.ts:206`), while `verify.ts:87-91` has it as infrastructure; so
  does a compiler that cannot be started, is killed or exceeds its time limit (266, 290), also
  for an entry that has no fault.

## Proofs

Eight modules hold theorems, each about every value of its component's constants. Every
inductive invariant below was checked by TLC on the component's instance before it was proved
(those of the commands and the step runner also on larger bounds than their runs). Each proof
has the same shape: `Init => IInv`, one lemma per action or per kind of action for
`IInv /\ [Next]_vars => IInv'`, and the theorems as consequences.

`ActiveRunProofs` proves, for any set of cancellers and any number of events and failures,
`TypeOK`, `NothingFollowsCancellation`, `FlushedBeforeAbort`, `ReportMatchesLog` and
`ImplementsDecision`. None but the first is inductive: `IInv` adds what the process-local state
says about the queue (a queued cancellation is the one being persisted), about the waiting
cancellers and about runTracked's place. `Reported` adds for the report that the engine's
terminal event is unique, that a recorded cancellation is on disk and not only queued, and what
settled the execution; it is inductive relative to `IInv`.

`ExecutionLeaseProofs` proves, for any commands, processes, machines, retries and deaths,
`TypeOK`, `LeaseCoversExecution`, mutual exclusion, and that the lease files implement
`ExclusiveLease`, all but the first until a marker is orphaned (finding `Lease_retirement`: from
then on it is false). What `LeaseCoversExecution` lacks is why nobody removes the executor's
lease: it is removed only under the retirement marker, which one command holds (`Markers`), and
only by a command whose target it is, which is its own lease or a dead process's (`Targets`). That a
target read long ago is still dead rests on execution ids and processes not being used twice
(`Ids`, `Alive`).

`RunLifecycleProofs` proves, for any commands, processes, questions and deaths, `TypeOK`,
`ExecutionsAreSerial`, `EndStands` and `OneAnswerPerQuestion`. The invariant has two layers:
`Serial` (the lease argument again, and that the executor is who recorded last) holds always;
`Coherent` (what the log's parts and a command's copy of them say together, and how far an
execution can be from them) only until a command acts on stale events, which is what `blind`
records. The core of it is `Judged`: who found a run free and whose copy of the log is still the
log meets no execution. The attempt found `EndStands` false beyond its run's bounds: the
cancellation of an answer that was admitted after a deletion records run-cancelled in the log of
a deleted run. Of a deleted run it now says that its log has no run any more, no question, and
no step but a cancelled one; nothing was weakened for runs that are not deleted.

`StepRunnerProofs` proves, for steps of every kind, any budgets, retries, corrections and
answers, `TypeOK`, `OneConversation`, `BudgetsSpanBlocks` and `CompletedOrBlockedStands`. The
first rests on `Abandoned`: every attempt but the awaited one was asked to stop, so none but
the awaited one sends; its other half, that a claim is that of a running child, has the
sessions that threw after they claimed (`leaked`, `ThrowFacts`) as its only exception. The
second on what the question recorded (`Tokens`, `Time`: an attempt counts at least what it
used, over a block). The third on the order of the append queue: an abandoned attempt may still
correct its session while its reply is ahead of the retry in the queue (`Overtaken`), and not
after (`SteersFirst`, `Awaited`); `AttemptQueue` and `StopsQueue` say what a step does to the
queue, once for all actions. `TypeOK` is a theorem because attempts are bounded:
`StepAssumption` has `MaxSessions` no smaller than the attempts the retries and the answers
allow, so that this bound never cuts a behaviour off.

`WorkflowCreationProofs` proves, for any creations, launches, names, plans, rounds and stops,
`TypeOK` and the four properties of the run `Creation`. The invariant follows a file from its
reservation through every restart: whose it is (`Owns`, `Reservations`), what was last written to
it and how good that was (`Written`), and where a run may be in each status (`Places`). For the
package it says that whatever its manifest is not installed for has somebody still at it, but
for the two exceptions (`PackageSettles`). That an install's end does not undo this rests on what
the installs under way have read: the manifest, as long as none was overtaken (`ReadersCurrent`),
and where it is torn, its writer goes on to install it (`TornIsBeingWritten`). `OneGoesOn`,
`InstallEnds` and `CutShort` are the three ways a preparation or a stray pnpm moves this, stated
once for all actions. It assumes that creations and launched commands are different
invocations (`ActorsPrepare`) and that the user is none of them (`AuthorsDiffer`).

`ConcurrencyGateProofs` proves `TypeOK`, `CeilingHolds`, `NoIdleSlot`, `WaitsOnce` and
`FirstComeFirstServed` for any set of steps and any limit (the author's limit may be any
integer: `GateAssumption`). The counter is exact only because a step neither waits while it
holds a slot nor is granted one while it executes, so the properties are proved together,
with the disjointness of granted and executing steps.

`EventLogProofs` proves, for any runs, processes and deaths, `TypeOK` and
`HistoryIsNotRewritten`: a log that can be read at all reads as the beginning of what was
written to it. It is not inductive: it says nothing of what a badly ending log may have lost besides
its last event. `Faithful` says that up to the first
line that does not parse every line is the event written in its place, and that without such a
line nothing is lost. `WriteLines` reduces a write, whole or cut, to one more line or a last
line that does not parse. TLC checks the same on the bounds of `EventLog_torn.cfg`.

`FanOutProofs` proves, for foreaches and parallels with any number of items, lanes and steps
per item, over any number of calls, answers, restarts, process deaths and cancellations,
`TypeOK`, `ReportMatchesStatusOtherwise`, `BlockedArmsUntouched`, `CompletedWorkIsKept`,
`OutputIsWhole` and `DrainClaimsNothing`. What they lack is a relation between what a call
has in memory and what the log has recorded by then; `IInv` is that relation, in parts:

* an item is unclaimed, in a lane's hands, or settled with one outcome, and between calls the
  memory is empty (`ItemsSettleOnce`, `LanesKeepGoing`: a lane ends only when nothing is left to
  claim or an outcome stopped it);
* what ran well, now or in an earlier call, has its place in the output (`NothingIsLost`), and
  an item's recorded steps are a prefix of its body (`StepsInOrder`), which `OutputIsWhole` needs
  when a call completes a construct that earlier calls began;
* a step the log has in progress is one the call has in memory, and one it left blocked can
  still be answered (`OpenStepsAreHeld`), which is why the report and the status agree
  (`ReportsTheLog`);
* nothing ahead of the lanes was done before or waits for another answer (`NothingTwice`); for a
  foreach without lanes this rests on its items being taken up one after the other (`OneAtATime`).

`ResultsAreWhole` and `NothingInProgress` carry the settlement of a round. That a set of items
has a least one, which the lanes claim, is `LeastItem`, from the well-foundedness of `<`. Every
part of `IInv` was checked by TLC first, on the instance of the run `FanOut` and on larger ones.
Nothing is assumed but `FanOutAssumption`.

`FanOutProofs` also proves `CommitIsolatesOverlap`, for every definition, ceiling, pair of node
paths and whatever the author's functions return: when commit() accepted a definition, no agent
step that can be under way together with another execution is in the parent's session, asks, or
holds a static resume key (`OverlapIsIsolated`). It does not follow that two of them never come
to one resume file, and the theorem says when they still may (`LeftToTheClaim`): by a key that a
function returned, or as items of one concurrent foreach whose steps are known by one name
(`resumable: true`). There the claim of `pi-agent.ts` refuses the second writer when it runs,
which is `OneConversation`'s claim between the attempts of one step; between items it is not
modelled. `FanOut` relies on the first part: its lanes run their steps without regard to each
other. The walk of `isolation.ts` goes down the definition, an overlap is a matter of two paths;
`ScopesAlongPath` relates a path to the scopes it passes, `WalkFindsConstruct` finds the
concurrent construct where the paths part among those the walk saw, `AtOnceIsMutual` gives the
same for the other execution, and `NamesakesAreItems` that arms of a parallel have names of their
own. It assumes nothing of the definition but what `commit` checks; that arms are bare steps, as
their type has it, is in `ArmsAtOnce`.

Only model-checked:

* the liveness properties `RunEnds`, `CancellersAnswered`, `CommandsEnd`, `CallReturns`,
  `StepEnds` and `GhostsAreReclaimed`: fairness and ENABLED are out of the prover's reach;
* the walk and its observers (`NodeWalk`, `ObservedRun`): `ReportMatchesStatusOtherwise`,
  `CompletedNodesFormPrefix` and the properties of a walk and of its observers listed above. A
  step of theirs records its events with a fold over a sequence whose length depends on the
  definition, rows and their states are recursive functions over the tree. That such a recursion
  has the values its equation says, and what it computes for every input, are inductions over
  data, whose theorems take the operator that is folded as a parameter.

## Not modelled

The agent's prompts and the plan's text; schemas; questionnaire forms and the assembly of
answers (one user, one form); rendering, frames and plain output; the catalog and module
loading; the harness's message history and the correlation of its retries; pipes of a
subprocess; the test driver. `PROJECT.json` says so per component.

## Plan

Done: the lease, the commands, creation, the step runner, the report of `ActiveRun` and the fan-outs, in the
modules named above. Left:

1. Lemmas on `RunLog` (what `Record` leaves alone; a log that ended has nothing open) for a log
   of any length, one event at a time, and from them what no step of a walk can undo.
2. Appends that fail in the commands, the subprocess's pipes.
