# FlashOS in TLA+

FlashOS is a distribution built around **Flash**, a shell with its own language
(the Rust workspace `src/components/flash`), on top of the **cookbook**, the
build tool that turns recipes into packages (`src/src`). This directory holds
TLA+ models of the concurrent and stateful parts of both, the TLC runs that
check them, and TLAPS proofs about the shell's job control, its external and mixed
pipelines, its evaluator, the language server, the interactive cook and the cook of one
recipe.

    tlc -workers 2 -config BackgroundJobs.cfg MCBackgroundJobs.tla   # a run
    tlapm BackgroundJobsProofs.tla                                   # a proof

Contents: [the system](#1-the-system) ·
[modules](#2-modules-and-the-code-they-stand-for) ·
[runs](#3-the-runs) · [fairness](#4-fairness) ·
[disagreements](#5-where-the-code-and-its-words-disagree) ·
[proofs](#6-what-is-proved) · [limits](#7-what-is-only-checked-and-what-is-not-modelled) ·
[plan](#8-plan)

## 1. The system

Paths below `flash/` are below `src/components/flash/crates/`.

### 1.1 Components with state of their own

**Job lifecycle** (`flash/flash-runtime/src/job.rs`). A `Job` is the record of
one pipeline that runs under job control: its members with their latest
observed states, the aggregate state, the placement, and whether a notice is
owed. Ten methods change it; each returns an error and changes nothing when the
state does not allow it. *Hard:* the aggregate, the notice and the resume
placement are derived from the members, and two methods (`move_to`,
`continue_in`) write them without deriving. *Correct when* no sequence of calls
makes them tell different stories, and a terminal status is never overwritten.

**Background jobs** (`flash/flash-runtime/src/background.rs`, called from
`session.rs`). The session's job table: records, the notice queue, one observer
thread per child that blocks in a wait and sends what it saw through a channel,
and the operations start, start in the foreground, fg, bg, kill, wait, jobs,
show a notice, join all (a script's end) and hang up (an interactive end). The
session thread alone touches the table. *Hard:* it always looks at the children
late: a transition is first the kernel's, then an observer's, then the
channel's, and the kernel keeps only the latest one per child. Signals, stops
from the terminal, failing waits and foreign continuations fall in between.
*Correct when* the table converges to what the kernel knows, notices agree with
records, the terminal comes back to the shell unless the host refuses, and nothing is left
unwaited or unreported at the end.

**External pipelines** (`execute.rs`). Pipes are opened, children spawned stage
by stage into one process group, the terminal handed over, the last stage's
output optionally drained by a capture thread with a size limit, children
waited in source order and automatically resumed a limited number of times.
*Hard:* every step may be refused when earlier ones are done; a descriptor the
shell keeps turns into a deadlock of two children it never looks at. *Correct
when* every way out ends and waits every child, the shell holds no pipe end
that a child waits on, a capture is never silently cut, and well-behaved
pipelines end.

**Mixed pipelines** (`session.rs`, `run_mixed_pipeline`). External children
alternate with *segments* of internal stages, each on a thread. Segments
prepare in source order under one mutex against one pending session state, then
drain concurrently; the first failure or `exit` cancels the rest. *Hard:* three
kinds of threads, one cancellation flag, a mutex held across a blocking read.
*Correct when* the session state is committed for all stages or for exactly
those before an exit, the reported error is the earliest genuine one, and
nothing outlives the pipeline.

**Process creation** (`flash/flash-platform-posix/src/lib.rs`). `spawn` clones
the requested descriptors to numbers no request names, forks through the
standard library, and in the child resets signals, joins the group and assigns
descriptors. *Correct when* the program finds exactly the requested descriptors,
never runs outside its group, and a failure before exec is an error and not a
child with a status.

**Language server** (`flash/flash-lsp/src/{server,workspace,query}.rs`). A
coordinator multiplexes client messages and worker results; a worker analyses
immutable snapshots; documents carry versions and the workspace a generation;
requests can be cancelled, overtaken, or lost to shutdown. *Correct when* each
request has exactly one answer for the right reason, no result of an older
generation is sent, and what the client shows converges to the issues of the
documents.

**Editor history** (`flash/flash-cli/src/history.rs`). Concurrent sessions
merge what they record into one file under an exclusive lock, rewriting it in
place. *Correct when* nothing recorded is lost, reordered or invented, also
when a session is killed half way.

**Interactive cook** (`src/src/bin/repo.rs`, `run_tui_cook`). A fetcher and a
cooker thread, an interface thread, two channels, and one shared atomic through
which a failed thread asks the user for retry, skip or exit. *Correct when* an
answer reaches the thread it was given to, the run ends, and the final report
says of each recipe what became of it.

**Cook of one recipe** (`src/src/cook/{cook_build,package,fs}.rs`,
`src/src/staged_pkg.rs`, `src/src/bin/repo_builder.rs`). Whether anything must
be rebuilt is decided from files and their times left by earlier cooks, any of
which may have failed or been killed between two of its steps. *Correct when* a
cook that ends well leaves packages of the current source and dependencies,
with their own metadata, in the target and in the repository.

**Source fetching** (`src/src/cook/{fetch,fs}.rs`). The source of a recipe is a
git repository, an archive, a part of this repository, a directory, another
recipe's source or a server's packages. `source_info.toml` records what the
last fetch brought; the next one compares it with the recipe, in one of four
modes of which only one is *checked*. *Hard:* source, archive, patches and
record are replaced one after the other while the origin and the recipe change,
and change back; the record is compared for equality and written last but not
removed first; an interrupted download is continued; `git reset` leaves what
git does not track. *Correct when* a checked fetch that ends well has brought
what the recipe asks for, patched once, and any fetch after a failure can
recover.

**Evaluator and session** (`flash/flash-runtime/src/{eval,scope,session}.rs`).
A recursive walk over the tree, with a stack of scopes, a host state
(environment, directory, status) and two budgets. A submission works on clones
that are committed statement by statement; `try` adds a checkpoint. *Hard:* a
body may leave by a value, an error, three control transfers, a cancellation,
an exit, a stop and host failures, through one result type and frames that are
pushed and popped by hand. *Correct when* frames, scopes and budgets match, an
error leaves nothing of a `try` block, what is not an error is not caught, and
a cancellation or a limit ends the submission.

**Module programs** (`flash/flash-runtime/src/{module,script}.rs`). A program
of several files: every static import is discovered depth first under limits
and a cancellation, five phases analyse the whole, and the modules run once
each, dependencies first, in one session whose jobs are joined at the end.
*Hard:* each phase answers with a partial table when it is stopped; the
execution relies (by `expect`) on what phases over other tables established.
*Correct when* a program is built from the whole graph or not at all, an answer
says why, and no module runs before what it is seeded with.

### 1.2 How they interact

    flash-cli ── submits lines ──> flash-runtime session
       │ history file                 │ plans, evaluates, commits
       │                              ├─ external pipelines ─┐
       │                              ├─ mixed pipelines ────┼─> flash-platform-posix spawn ─> children
       │                              └─ background jobs ────┘        ^ waits: observers, executor
    fsh FILE ──> module analysis ──> one module after the other ──> evaluator ──> session
    editors ── LSP messages ──> flash-lsp ──> module analysis (limits, cancellation)
    repo cook ── channels/atomic ──> fetcher (source fetching), cooker (cook of one recipe) ──> repository

The session hands a background pipeline's children to observers, which report
through one channel; a foreground pipeline is either an ordinary one (the
executor waits itself, without job control) or a foreground *job* (the table
waits). Everything that starts children goes through the platform's `spawn`.

### 1.3 Components without a model

Listed with their reasons in `PROJECT.json`: the FlashOS platform adapter (no
signal capability, a subset of the POSIX behaviour), lexer and parser, capsules,
resolution and formatting, configuration and completion, the interactive loop
and editors, migration, recipes and dependency order, build terminal, web pages, image
build, qualification scripts, and data. Pure functions over text are left to
the repository's conformance tests; the stateful ones are in the plan (§8).

## 2. Modules and the code they stand for

Definitions keep the source's names where TLA+ allows it; `PROJECT.json`
("map") gives the lines each stands for. Definitions whose name ends in
`Mutant` are the broken variants against which each property is tried.

| module | stands for | how state corresponds |
|---|---|---|
| `JobLifecycle` | `job.rs`: `Job`, its guards (`Can…`) and effects, as operators on a record | `members` maps a process to Running, its stop signal, its status, or Absent |
| `JobMachine` | one record under every order of calls | one action per public method |
| `JobPromise` | the abstract record without members | refined by `JobMachine` (`ImplementsPromise`) |
| `JobObservers` | children, kernel wait status, observer threads, the channel | `proc` is the kernel's truth, `unreported` the one transition `waitpid` still holds, `observer` what a thread has in hand, `events` the channel |
| `BackgroundJobs` | `background.rs`: table, notices, all operations and the session thread | `session.at` is the point inside an operation the thread is at, `session.previous` the terminal guard's memory of the owner before it, `tty.refused` whether the host ever refused to give the terminal back; one receive, one signal or one table update per step |
| `StageProcesses` | children, pipes and the terminal's stops as the kernel runs them (external) | a pipe is how many tokens it holds; `held` is what the shell holds open |
| `PipelineRun` | `execute.rs`: start, hand-over, capture, wait, cleanup | `main` is the executor, `drain` the capture thread, `retained`/`exceeded` are `BoundedCapture` |
| `MixedPipeline` | `session.rs` `run_mixed_pipeline` over `execute.rs` `MixedPipeline` | `seg[s]` is the thread of a segment, `lock`/`turn` the preparation mutex, `pending` the session state it builds, `state` the committed one |
| `ChildSpawn` | `PosixPlatform::spawn`, `PosixChild`, and `std::process::Command` (external) | two descriptor tables, the shell's and the child's, as functions from numbers to files |
| `LanguageServer` | `server.rs`, `workspace.rs`, `query.rs` | `pending`, `slot`, `working`, `event` are where a job is; `docs`, `owners`, `generation`, `published` are `Workspace` |
| `HistoryFile` | `history.rs` | a file is a sequence of bytes, so that a torn rewrite is a splice |
| `CookTui` | `repo.rs` `run_tui_cook` with its threads | `prompting` is the shared atomic, `status` the channel to the interface, `shown` and `prompt` are `TuiApp`; `answered` (history) is an answer with what the atomic held when it was given |
| `LexicalScope` | `scope.rs`: `ScopeStack` | a sequence of frames from names to cells |
| `Evaluator` | `eval.rs` under `submit_parsed` and `SessionEvaluationHost` | `control` is the Rust call stack, one frame per block, loop, `try` and call; `signal` is the result that unwinds it; which statement comes next is free, so that a behaviour is a run of some program |
| `NestedTransactions` | the abstract promise about the language state | refined by `Evaluator` (`ImplementsTransactions`): `layers` are the session, the checkpoints of open `try` blocks, and the state worked on |
| `ModuleProgram` | `analyze_internal`, `discover_module`, the alias, name and effect tables, `execute_module_program_outcome_with_limits` | `stack` are the calls of `discover_module` that have not returned, `edges` and `known` the graph, `sources`/`retained` the registries, `entry` the loop of the current phase, `queue` the modules still to run |
| `SourceFetch` | `fetch`, `fetch_offline`, `fetch_remote` and their helpers | `source`, `archive`, `git`, `tmp`, `pair`, `info` are what is on disk, each with the versions it was made from; `git.left` are the files patches created; `pc` is the step of the running fetch; `interrupted` (history) is the record an interrupted fetch did not come to write |
| `CookBuild` | `build`, `build_deps_dir`, `build_remote`, `package`, `publish_packages` | a file is absent, torn or whole and carries the versions it was made from; `newer` is what comparing times answers |

`StageProcesses` is shared by the two pipeline modules, `JobLifecycle` by the
record machine and the job table: the latter composes the record, the observers
and the session thread. The `MC…` modules hold nothing but the instances.

**Setups.** A component that can be used in several ways (a background
pipeline or a captured one, one recipe or three) has an immutable variable
`setup`, chosen in `Init` from the constant `Setups`. One run then covers
several instances, each with the bounds its question needs, and a property that
does not hold in one of them says so in its own text. The `ASSUME` of each
module states what a setup must satisfy.

**What a step is.** Code that runs on one thread without touching what others
see is one step. A step ends at every send, receive, lock, wait, signal and
file-system call that another actor, a failure or a kill may fall beside. The
session thread in `BackgroundJobs` therefore takes one step per observation it
receives and one per signal it sends. Which operation it is performing while it
drains the channel matters only once the channel is empty, so it is chosen
then.

**The environment.** Children, the kernel, the terminal's user, editors and
users of the prompt are nondeterministic. The wait status of a child is its
*latest* transition only, reported once, as POSIX says of `waitpid` with
`WUNTRACED | WCONTINUED`; a child leaves its group when it is waited. Faults are
the refusals the code handles (a `Result` on a platform call), enabled per setup.

## 3. The runs

Each property names the code behaviour it is about in the comment before it.

| run | states | what is asked |
|---|---|---|
| `job_machine` | 948 | `RecordConsistent`, `ImplementsPromise`: every order of the ten methods on one record |
| `jobs` | 288 000 | the job table beside its children and observers: `TableConsistent`, `TableSettles`, `TerminalReturned`, `ResumeAnswersThisStop`, `DrainForgetsOnlyReported`, `AwaitEnds` |
| `pipeline` | 40 000 | external pipelines with refusals at every step: `PipelineConsistent`, `NoTruncatedSuccess`, `PipelineEnds` |
| `mixed` | 63 000 | segments beside children: `MixedConsistent`, `EarliestFailure`, `CommitAllOrNothing`, `MixedEnds` |
| `evaluator` | 417 000 | every run of statements, with every way to leave a body at every point, under both language policies: `EvaluatorConsistent`, `ImplementsTransactions`, `ControlPasses`, `CancelEnds`, `LimitedEnds` |
| `modules` | 30 000 | 2 200 programs, each analysed and executed: `ProgramConsistent`, `AnalysisIsRight` |
| `server` | 487 000 | the language server against any client: `ServerConsistent`, `AnswersMatchTheDocuments`, `PublicationsAreComplete`, `EveryRequestAnswered`, `DiagnosticsConverge` |
| `spawn` | 187 000 | one spawn over all placements of descriptors: `SpawnConsistent`, `ProgramSeesTheRequest` |
| `history` | 113 000 | two sessions on one file, with kills: `HistoryConsistent` |
| `tui` | 515 000 | two threads and a user: `InterfaceConsistent`, `AnswerReachesItsRecipe`, `RunEnds` |
| `fetch` | 264 000 | sources of every kind, with an origin and a recipe that change and return, stops and torn writes: `FetchConsistent`, `CheckedFetchDelivers`, `FetchRecovers` |
| `cook` | 217 000 | repeated cooks with failures and kills between their steps: `CookConsistent`, `FreshDependencies`, `CookRecovers` |

An invariant named `…Consistent` (and `TableSettles`) is the conjunction of the
type invariant and named safety properties, each stated with its own comment:
`PipelineConsistent` of `TerminalBack`, `NoStrays` and `HoldsOnlyTheDrain`,
`HistoryConsistent` of `FileIsTheLog` and `RecordsSurvive`, `CookConsistent` of
`BuildsAgainstDependencies`, `FreshPackages` and `PackagesAgree`,
`EvaluatorConsistent` of `Nested`, `InContext`, `Committed` and `WithinLimits`,
`FetchConsistent` of `AnswersAreWhole` and `ExtractsWhatWasVerified`, and so on.

Bounds, and why they are enough:

* **job_machine**: three processes, two stop signals, two statuses. Three
  members let one run, one stop and one complete, which is every case
  `reconcile` tells apart; the proofs (§6) remove the bound.
* **jobs**: eight setups. One job of one child under all commands; one with
  failing observers; a pair under fg, bg and kill; a pair without pipefail; a
  pair waited and continued; a pair hung up with failing observers; two jobs
  and a wait for both; two jobs in the foreground of a host that may refuse to
  give the terminal back. One stop per child that the shell did not ask for
  (`max_stops`), besides the stops `kill` sends. Two children are needed for
  observations to arrive in either order and for a job that is half stopped;
  two jobs for a wait that looks at one while the other changes. A third of
  either would add an actor but no new pair.
* **pipeline**: two or three stages and pipes that hold one token, so every
  writer meets a full pipe and every reader an empty one; three stages give a
  child both a producer and a consumer. Up to three writes cross a capture
  limit of one and of two. The code's resume limit is cut to one, so that it is
  reached.
* **mixed**: four stages, the least that puts a segment between two children
  and a second segment after them; a setup has a two-stage segment before two
  children and a capture.
* **server**: two documents, one importing the other, on up to three accepted
  changes and two requests. Two changes already let a result be two generations
  old; a second request lets one wait behind the other.
* **tui**: three recipes put one in the fetcher's hands, one in the channel and
  one in the cooker's. Up to three failures make a retry fail again.
* **history**: two sessions and a capacity of two with four submissions, so the
  oldest entries are forgotten; a capacity of four with three submissions and
  two stops in the middle of a rewrite. Submissions contain a line feed and a
  backslash, the two characters the file escapes.
* **spawn**: twelve descriptors, two open files placed anywhere among the
  numbers in question, and requests that name standard, adjacent and closed
  descriptors.
* **evaluator**: one name, one function that may call itself, two statements in
  a `try` block (one may fail after another took effect) and one in any other,
  nesting up to the depth the budgets allow, a step and a call limit that are
  reached, and a submission of `MaxTop` statements. A `for` runs over up to
  `MaxItems` items or over a range, of which there may be 2^63 and whose items
  are therefore not counted (`Rest`).
* **modules**: every graph of three modules in which the root has at most two
  imports, named or load-only, and the others one, cycles and missing targets
  included; a diamond with every end of its modules and jobs; chosen programs
  for every kind of name conflict, every pair of faults in two modules, alias
  façades with re-exports, and each limit at, below and above what the program
  needs. Three modules close every kind of cycle and give a module two
  importers; the fourth makes the diamond.
* **fetch**: two branches, files or packages, two versions of the origin, of
  the pinned rev or blake3 and of the patches, any of which may follow any
  other, so that what was there returns; one or two faults (`faults` of the
  setup); twenty-three recipes. Two versions are the one the record names and
  another one, which is all that comparing for equality tells apart. That a
  file keeps its old time when it changes ("backdate") is no event of these
  recipes.
* **cook**: two packages, two dependency directories, two versions of source
  and dependencies, two faults. A second fault may hit the cook that recovers
  from the first.

Runs say `CHECK_DEADLOCK FALSE` where the component may stop by design (a record
that is reaped, a pipeline that has returned, a server that has exited, a
process that has been waited) or, for `jobs` and `tui`, where a wait blocks for
ever in the way §5 shows; a liveness property then says what does not stop.

Every property has a mutant: a variant of one modelled definition, as a
plausible bug would change it, under which TLC finds the property violated with
the run's own configuration.

## 4. Fairness

Threads of the program are weakly fair where nothing but the scheduler keeps
them waiting, and nothing is assumed of anybody who may simply not act.

* **jobs**: weak fairness of `Working` (the session thread inside an operation;
  nothing is assumed at the prompt, where it waits for the user), of showing
  notices while the end of the session drains them, of each observer's two
  steps, and of a running child's exit. The last is an assumption about
  children: the shell waits without a deadline, so nothing is promised of a
  child that runs for ever. Stops and foreign continuations are never fair.
* **pipeline**, **mixed**: weak fairness of the executor or coordinator, of the
  capture thread, of each segment thread, and of `WellBehaved` children, which
  write, read, end on end of file or a broken pipe, and exit. Children in
  `endless` have no fairness, stops and refusals neither.
* **server**: weak fairness of the worker's receiving and finishing and of the
  coordinator's handling of a result. The client may fall silent at any time.
* **tui**: weak fairness of both threads and of the interface loop, strong
  fairness of the user's answer: a prompt that is shown again and again is
  answered at last. Strong, because a prompt may be replaced while it is read.
  The user answers whatever is shown, at once if he likes, so also before the
  failed thread has set the atomic; such an answer is lost, and nothing promises
  that the prompt is shown again.
* **cook**: weak fairness of beginning another cook and of its steps; a fault
  is a step of its own that nothing makes happen, and there are at most
  `MaxFaults`.
* **evaluator**: weak fairness of `Step`, the shell's own thread. A
  cancellation and what a statement turns out to do are not fair. `CancelEnds`
  and `LimitedEnds` hold although nothing bounds loops: they say that every
  cycle of steps polls, and that every cycle charges but the one from item to
  item of a range in a `for` whose body has no statement (§5).
* **modules** checks safety only: the analysis is sequential code over finite
  sets, and a module is assumed to end when it is submitted.
* **fetch**: weak fairness of the steps of a running fetch, and strong fairness
  of starting a checked one: somebody asks for the source again and again,
  possibly between other fetches. Changes, stops and torn writes are not fair.
* **history**, **spawn** and **job_machine** check safety only.

## 5. Where the code and its words disagree

Disagreements met while modelling. Each can be shown by TLC: either a
configuration here ends with the counterexample (`tlc -config <file>
<module>`), or the configuration of the component does when its `Setups` is
replaced by the named definition of the MC module and its properties by the
one named. The passing properties state precisely where they stop holding.

| configuration or setups (module) | property | what the code does |
|---|---|---|
| setups `WaitForBoth` (MCBackgroundJobs) | `WaitEnds` | `wait` for two jobs may block for ever: the stop of the first can be applied while the second is examined, after which the wait blocks without resuming it (`background.rs:1902`; `docs/scripting.md:1157`) |
| setups `EagerStage` (MCMixedPipeline) | `FailureEnds` | a failing segment waits for the preparation mutex before it cancels, and an eager segment may hold that mutex while it reads from a child that goes on for ever (`session.rs:2787`; `docs/architecture.md:734`) |
| setups `FetchFails` (MCCookTui) | `UnreachableStays` | leaving the interface while the shown log has no active job reaches the `unreachable!()` of `main` (`repo.rs:263`) |
| `JobsJoinHang.cfg` (MCBackgroundJobs) | `JoinEnds` | a child that stops again after the exit path resumed it, before its continuation was waited, is never resumed again: the flag set by `resume_stopped` (`background.rs:2016`) is reset only by a continuation or a new stop of the aggregate, and the kernel reports neither. The comment at 1766 says resuming first "is what keeps the wait from deadlocking" |
| `JobsSilent.cfg` (MCBackgroundJobs) | `SuccessIsSilent` | a job that exited successfully, waited by its observer and not yet applied, is refused the resume signal and listed as a failure (`background.rs:2041`; `session.rs:319`: "A successful job produces no entry") |
| setups `JoinBoth` (MCBackgroundJobs) | `ReportedInOrder` | signal failures are listed before the others, unsorted (`background.rs:1769`; `session.rs:319`: "in job-identity order") |
| setups `Refused` (MCBackgroundJobs) | `RestoresTheShell` | the guard gives the terminal back to the owner it found, which after a refused restoration is an earlier job: the next foreground job "returns" the terminal to that job (`flash-platform-posix/src/lib.rs:1823`, 431; `background.rs:1505`: "restores the shell on completion, another stop") |
| `JobsPlacement.cfg` (MCBackgroundJobs) | `ForegroundOwnsTerminal` | a suspended foreground job that somebody continues runs in Foreground placement while the shell owns the terminal (`job.rs:243`; `docs/scripting.md:1229`) |
| `PipelineCaptureHang.cfg` (MCPipelineRun) | `EveryPipelineEnds` | a captured pipeline stopped before its first byte is not waited, hence never resumed (`execute.rs:164`, 763-766) |
| `PipelineStrays.cfg` (MCPipelineRun) | `NothingIsLeft` | a refused terminal hand-over returns without ending or waiting the children (`execute.rs:517`; `docs/architecture.md:1132`) |
| `MixedStopHang.cfg` (MCMixedPipeline) | `EveryMixedPipelineEnds` | children are waited only after every segment has ended: a stop while a segment reads from one is never observed (`execute.rs:1023`, 999) |
| `ServerOwners.cfg` (MCLanguageServer) | `OneOwnerPerModule` | identities are resolved at open only; a link changed later gives one module two open owners (`workspace.rs:553`; `docs/architecture.md:415`) |
| setups `BothFail` (MCCookTui) | `EveryAnswerObeyed` | a second failure replaces the shown prompt, and its answer is taken by the thread that asked first (`repo.rs:1490`) |
| setups `BothFail` (MCCookTui) | `EveryRunEnds` | an exit is consumed by one thread; the other then asks an interface that is gone (`repo.rs:1508`, 2149) |
| setups `FetchFails` (MCCookTui) | `EveryRunEnds` | an answer given between the message of a failure and the thread's own `swap(1)` is overwritten by it, and the prompt is gone: the thread asks for ever, and the run is not joined (`repo.rs:1478-1492`, 1587-1600, 1897) |
| `Evaluator.cfg` (MCEvaluator) | `ExecutionIsBounded` | an item of a range costs no step: a `for` over 0..9223372036854775807 with an empty body is ended by no limit (`eval.rs:2532-2573`; `docs/flash-2-foundation.md:218-225`) |
| setups `Full` (MCHistoryFile) | `DurablyRecorded` | at capacity a rewrite in place that stops half way splices old and new bytes (`history.rs:267`) |
| setups `Repeating` (MCHistoryFile) | `OnlyRepeatsAreLeftOut` | a submission is compared with the newest entry this session knew, not with the newest on file (`history.rs:192`) |
| `SpawnReport.cfg` (MCChildSpawn) | `NoManufacturedStatus` | a requested descriptor may coincide with the standard library's exec report: a failing exec is then reported as a started child (`flash-platform-posix/src/lib.rs:1048`; `docs/scripting.md:924`) |
| setups `FailedInstall` (MCCookBuild) | `RebuildsForDependencies` | that a dependency directory was renewed is known only from a return value: a cook that fails after it leaves the next one to answer "cached" (`cook_build.rs:274`, 283) |
| setups `Edited` (MCCookBuild) | `RebuildsForSource` | a source saved while the script runs is older than the package made without it (`cook_build.rs:548`) |
| setups `CleanOrNot` (MCCookBuild) | `EmptiedIsInvalid` | directories emptied by `clean_target` keep their tags; a cook without it finds them up to date (`cook_build.rs:690`, 300) |
| setups `TornRemoval` (MCCookBuild) | `DirectoriesAreReplaced` | a removal stopped after the tags were deleted leaves a directory that rename cannot replace (`cook_build.rs:685`) |
| setups `KilledRemote` (MCCookBuild) | `MetadataIsRebuilt` | killed between removing the package and its metadata, a downloaded recipe keeps the older metadata (`package.rs:61`) |
| setups `OfflinePatched`, `DepsPatched` (MCSourceFetch) | `EveryFetchDelivers` | a fetch offline or of a dependency does not apply changed patches but records them: the next checked fetch finds its record current (`fetch.rs:270`) |
| setups `OfflineTorn` (MCSourceFetch) | `EveryFetchDelivers` | an offline extraction that is stopped leaves a part that the next offline fetch takes for the source and records |
| setups `BranchStopped`, `PatchReverted`, `WorkspaceReverted` (MCSourceFetch) | `EveryFetchDelivers` | the record of the last fetch stays while the next one replaces the source (`fetch.rs:266`, 531-563, 651): stopped there, and with the recipe or the worktree back to what the record says, a fetch answers "cached" (`fetch.rs:411`, 491) |
| setups `WorkspaceReverted`, `UnfetchTorn` (MCSourceFetch) | `EveryAnswerIsWhole` | likewise when the removal of the source was stopped: the answer is about the files that were left |
| setups `WorkspaceRaced`, `PackageRaced` (MCSourceFetch) | `EveryFetchDelivers` | a worktree is hashed and then copied, a package is known by the toml that was downloaded before it: what changes in between and changes back is recorded as what it is not |
| setups `PathStopped`, `PathEdited`, `PathBackdated` (MCSourceFetch) | `EveryFetchDelivers` | a directory is compared by its newest time only: a copy that was stopped or that a file changed under is not noticed, nor an edit that keeps an old time (this one violates `CheckedFetchDelivers` too) |
| setups `ArchiveLost` (MCSourceFetch) | `EveryFetchDelivers` | a lost archive without a blake3 is replaced by today's, and a fetch stopped before the extraction leaves the old source to be found current |
| setups `PatchDropped` (MCSourceFetch) | `NothingIsLeft`, `EveryFetchRecovers` | `git reset` is called for recipes with patches only: patches that were dropped stay applied, and stand in the way of every later checkout of another commit (`fetch.rs:531`) |
| setups `PatchesAdd` (MCSourceFetch) | `NothingIsLeft`, `EveryFetchRecovers` | `git reset --hard` leaves files that patches created: the same patches do not apply again, and every later fetch fails until the source is unfetched (`fetch.rs:531-540`, 1044) |
| setups `UnfetchTorn` (MCSourceFetch) | `EveryFetchRecovers` | an unfetch that was stopped inside `.git` leaves a directory that is neither a repository nor absent (`fetch.rs:481`) |
| setups `Shallow` (MCModuleProgram) | `DepthIsBounded` | the depth of a module is that of its first visit, so whether a program is within the depth limit depends on the order of its imports (`module.rs:8530`) |
| setups `Aliased` (MCModuleProgram) | `EffectsAreAnnounced` | the transitive effects follow named imports only, the initialization aliases as well: effects of aliased modules are not announced (`module.rs:6531`, `script.rs:453`; `docs/architecture.md:345`) |

## 6. What is proved

TLAPS checks the following for every value of the constants, from the
assumptions the modules state: `MemberStatesDistinct` (statuses, signals,
Running and Absent differ), `JobAssumption` (job identities are positive
naturals, and there is a status besides success), `TableAssumption` (no status
is `None`, pipelines are finite), `ServerAssumption`, `StageAssumption`,
`RunAssumption`, `MixedAssumption`, `TuiAssumption` and `CookAssumption` (the shape of the
setups: a recipe has at least one package and one dependency directory, each once),
`CookBounds` (versions and faults are counted from one and from none), and
`EvaluatorAssumption` (limits and bounds are naturals, there is some datum, no
name is that of a variable and of a function).

| theorem (module) | statement |
|---|---|
| `JobConsistent` (BackgroundJobsProofs) | `RecordSpec => []RecordConsistent` |
| `AggregateCorrect`, `NoticeCorrect`, `ResumeCorrect` | its three conjuncts, each for itself |
| `TerminalFinal` | `RecordSpec => TerminalStatusFinal`, an action property that no run repeats |
| `RecordRefinement` | `RecordSpec => Promise!PSpec`: a record with members implements the one without |
| `TableInvariant` | `Spec => []IInv` of the job table |
| `TerminalAlwaysReturned` | `Spec => []TerminalReturned` |
| `ResumeAnswers` | `Spec => []ResumeAnswersThisStop` |
| `FullInvariant` | `Spec => []FullInv`: the table with its queue, children and exit path |
| `TableAgrees` | `Spec => []TableConsistent`: `TypeOK`, `NoticeQueueAgrees`, `CompletionAgrees`, `EveryObservationCounts` |
| `TableConverges` | `Spec => []TableSettles`: `ViewConverges`, `EndLeavesNothing` |
| `NothingForgotten` | `Spec => DrainForgetsOnlyReported` |
| `ServerInvariant` (LanguageServerProofs) | `Spec => []IInv` of the language server |
| `ServerCorrect` | `Spec => []ServerConsistent`: `TypeOK`, `OverlayAgrees`, `WorkConserving`, `OneAnswer` |
| `AnswersMatch` | `Spec => AnswersMatchTheDocuments` |
| `Publications` | `Spec => PublicationsAreComplete` |
| `PipelineInvariant` (PipelineRunProofs) | `Spec => []IInv` of an external pipeline |
| `PipelineCorrect` | `Spec => []PipelineConsistent`: `TypeOK`, `TerminalBack`, `NoStrays`, `HoldsOnlyTheDrain` |
| `CaptureIsWhole` | `Spec => []NoTruncatedSuccess` |
| `MixedInvariant` (MixedPipelineProofs) | `Spec => []IInv` of a mixed pipeline |
| `MixedCorrect` | `Spec => []MixedConsistent`: `TypeOK`, `SlotsFilled`, `NothingOutlivesIt` |
| `FailureIsEarliest` | `Spec => []EarliestFailure` |
| `OneTransaction` | `Spec => []CommitAllOrNothing` |
| `InterfaceInvariant` (CookTuiProofs) | `Spec => []IInv` of the interactive cook |
| `InterfaceCorrect` | `Spec => []InterfaceConsistent`: `TypeOK`, `WaitIsShown`, `ReportsTheOutcome` |
| `AnswersObeyed` | `Spec => AnswerReachesItsRecipe` |
| `Invariance` (CookBuildProofs) | `Spec => []IInv` of the cook of one recipe |
| `CookIsConsistent` | `Spec => []CookConsistent`: `TypeOK`, `BuildsAgainstDependencies`, `FreshPackages`, `PackagesAgree` |
| `DependenciesAreFresh` | `Spec => FreshDependencies` |
| `EvaluatorInvariant` (EvaluatorProofs) | `Spec => []IInv` of the evaluator |
| `EvaluatorCorrect` | `Spec => []EvaluatorConsistent`: `TypeOK`, `Nested`, `InContext`, `Between`, `Committed`, `WithinLimits` |
| `AbortsPass` | `Spec => ControlPasses` |
| `EvaluatorRefines` | `Spec => ImplementsTransactions`: the evaluator implements `NestedTransactions` |

**The record.** `JobOK` (type, aggregate, notice, resume placement) is
inductive only as a whole: `continue_in` does not look at the members, so that
the aggregate it leaves is right needs the resume conjunct and the fact that a
stopped job has a stopped member; that a notice survives `reconcile` rightly
needs the aggregate before it. There is one lemma per method: `ReconcileOK` for
the fold, then `StartupOK`, `FinishStartingOK`, `ObserveOK`,
`ObserveContinuedOK`, `PlacementOK`, `AcknowledgeOK`; `JobConsistent` combines
them, one step per action, and the proofs of the table cite them again. The
refinement maps each action to a step of `JobPromise` or to a stutter, with
`ReconcileOutcome` naming the outcomes.

**The table.** `ResumeAnswersThisStop` is not inductive. That the flag is gone
when a job runs again needs that a stopped job hears of a member running before
it runs (`StoppedStays`, from `JobOK`); that it is set only on stopped jobs
needs that nothing changes between the moment the exit path fixes the list of
stopped jobs and the signals it then sends one by one. `IInv` therefore has, for
every job, the consistency of its record, the meaning of `completion` and of the
flag, and that identities from `next_job` on are unused (`TableInv`); and, for
the session thread, that wherever it is about to continue a job the job is
stopped (`SessionInv`). One lemma shows what applying an observation preserves
(`ReceiveKeepsTable`), others what continuing, publishing, consuming and
acknowledging do; then there is one lemma per operation (`DrainKeeps`,
`AskedKeeps`, `ForegroundKeeps`, `SignalKeeps`, `WaitKeeps`, `ExitKeeps`,
`ChildrenKeep`), and `NextIInv` splits on the disjuncts of `Next`. Nothing is
assumed about the number of jobs, children or stops, and the kernel's part is
not constrained at all: the lemmas use of an observation only that it names a
job, a process and a state.

**The table, its queue and its children.** `TableConsistent` and `TableSettles`
need the other half of the component, and `FullInv` adds it to `IInv`. *The
queue* (`NoticesFor`): for each job at most one Stopped and one Completed notice,
there exactly when the record says so, and the completion last, so that
acknowledging it, which removes the record, leaves no notice of the job behind.
`InOrderOf` shows that a finite set of naturals has its increasing enumeration,
`OfRetained` what a `retain` leaves of each kind in which order. *The children*
(`Linked`): what the record says of one member, what the kernel knows of the
child, what its observer holds, what is in the channel and whether a transition
is unreported, as one relation. Its heart is that the *last* observation on its
way is the kernel's latest unless a newer one is still unreported, and that a
terminal one is the observer's last; `ViewConverges` is its last conjunct, but a
continuation that `continue_in` writes without an observation and a continue that
`resume_stopped` sends without writing preserve it only with the others. Ten
lemmas (`LinkedPassed` to `LinkedContinued`) say what each kind of step does to
one child, `ChildrenStep`, `GroupKeeps` and `ReceiveChildren` lift them.
*Records* (`Recorded`): a completion is there exactly from the last member's
completion on, and is `aggregate_statuses` of finitely many members
(`AggregateOf`, with `GreatestOf`). *The exit* (`ExitInv`): who was collected was
quarantined for it, nobody still to be signalled is, so no job is collected twice
(`Quarantined`, `CollectedOf`, `SortedOf`); from the drain on no job is live and
every unsuccessful record is among the reported. `ReceiveTable`, `ContinueTable`,
`PublishTable`, `ConsumeTable`, `AcknowledgeTable` and `MoveTable` treat the
table's own operations, `…Full` the operations of the session thread.

**The language server.** Nothing bounds the documents, the requests, the edits or
the queue. `OneAnswer` speaks of counts of controls; it is not inductive. `IInv`
adds what makes it so. *Jobs* (`JobsInv`): a serial names one job wherever it is
held (queue, channel, worker, result), no serial from `next_serial` on is used,
and a job of the current generation was made from the current documents, because
a change raises the generation past every job there is. *Flags*: an invalidated
control belongs to an overtaken job, and the worker stops only what is flagged
(`StoppedInv`), so that "stopped" reaches the client as RequestCancelled only if
the client cancelled. *Requests* (`RequestInv`): as long as a request has no
answer one of its jobs is tracked; two of its jobs are the same job; a tracked
job is cancelled exactly if the client revoked the request. *The client*
(`ClientInv`): it shows what was published, and nothing of what was not, which is
why sending only the differences suffices (`PublishShows`). `StartNext` says that
handing over a job loses none, `Queued` and `NewJob` what a new one preserves,
`WaitingKept` that replacing waiting diagnostics takes no request away; then
there is one lemma per action, and `NextIInv` splits on the disjuncts of `Next`.
The two action properties follow from `FinishAnswer` and `PublishShows`, with
`WhoSends` naming the only actions that change what is sent.

**External pipelines.** Nothing bounds the stages, the pipes, what is written or
the stops. Each property is about the moment the executor returns and rests on
what was true all the way there, which `IInv` adds. *The start* (`StartInv`):
stages from `index` on are not started, and of the pipes before it the shell has
dropped the ends that the started stages took, so that after the last one only
the reading end of the capture pipe can be left; nothing is heard of a child that
was never started. *The wait* (`WaitInv`): the stages before `index` are gone,
unless a wait may fail. *The capture thread* (`DrainInv`): it is joined only at
the end of the stream or with an error recorded, and at the end of the stream the
pipe is empty and nobody alive can write to it, which stays so because only the
last child writes to it and no step revives a child. *The bytes* (`FlowInv`): what
the last child wrote is in the pipe or was read, and what was read is retained up
to the limit, which `exceeded` tells. `CaptureIsWhole` is these two together.
`Reaping` and `ProcessKeeps` say what ending children and the children themselves
can do, `PushKeeps` what one chunk does to the retained bytes, `Waits` what every
step of the wait preserves.

**Mixed pipelines.** Nothing bounds the stages, the segments, the pipes or the
stops, and any fault may happen. What the properties say of a pipeline that has
returned rests on why it came to return, and that is what `IInv` adds. *The
coordinator* (`MainInv`): once it goes on alone every segment has ended. *The
children* (`ChildrenInv`): who trips the cancellation token waits for all of
them, so that a tripped token means that no child is left or that the one who
tripped it is still waiting; later failures need not wait. *The turn*
(`PlaceInv`): seen from `turn`, the segments before it are prepared, those after
it have not begun, and the one that holds the mutex is the one whose turn it is.
*Outcomes* (`OutcomeInv`): a segment that reports a cancellation was cancelled, a
skipped one followed a stop, an exit is the one recorded in `exit_at`. *The
culprit* (`SharedInv`): every stop and every cancellation has a segment that
failed or exited, or a capture that failed, so that a pipeline in which nobody
did has a status from each segment: this is `SlotsFilled`. *What is pending*
(`PendingInv`): the internal stages before the `Frontier` (the exit, or the
stage being prepared, or the segment whose turn it is), in source order; the
commit takes just these, and it happens only if no segment failed.

`HeadOf`, `LastOf` and `NextOf` say what the first, last and next stage of a
segment are (the least element of a set of stages exists by the well-foundedness
of `<`, `LeastExists`), `Applied` how a prepared stage extends what is pending.
`QuitPreparing`, `QuitDraining`, `StageDoneKeeps` and `CaptureMoves` treat what
several actions have in common, `JoinedOutcomes` says what the outcomes can be
when all threads have been joined; then there is one lemma per action, and
`NextIInv` splits on the disjuncts of `Next`.

**The evaluator.** Nothing bounds the program, the nesting, the limits or the
data. `Nested` and `InContext` speak of the innermost frames; when one is left
they must hold of what comes to light, so `IInv` says them of the whole stack.
*Frames* (`Stacked`): of two frames one inside the other, the inner one fits the
scope of the outer (`Joined`), and one that has something inside it is in its
body and is no catch waiting to bind its error. *Contexts*: each call keeps whose
code its caller was, which is the callee of the call below it or the script, so
that `leave_call` brings back the right source. *Signals* (`SignalInv`): only a
body is ever done or transferred out of. *Data* (`Typed`): scopes hold functions
that hold the scopes they captured, so that their type is not a fixed set; `IInv`
asks for *some* set of frames closed under capture, and a step that makes a frame
adds it (`FramesGrow`, `DeclareScope`, `AssignScope`). `ReplaceFacts` and
`PushFacts` say what becomes of a stack, `SimpleStep`, `EnterStep`, `LeaveStep`
and `ReplaceStep` what the kinds of step preserve, `Outside` what holds between
two statements; then there is one lemma per action, and `NextIInv` splits on
the disjuncts of `Next`.

`EvaluatorRefines` takes the two states of a step over one set of frames
(`BothSound`). The abstract `layers` are the saved states of the `try` frames in
the order they were entered: `SavedFacts` and `SavedPush` say that entering a
`try` puts its state on top and any other frame nothing (`RankExists` numbers the
`try` frames), and `LayersFacts` what the last layer is under each signal. A step
that keeps the saved states is work, or gives everything up, or unites it
(`SameSaved`); most actions are that (`SimpleTransacts`, `EnterTransacts`,
`LeaveTransacts`, `StayTransacts`). `try_statement` and `submit_statement` begin a
transaction, `pass_try` merges it, `catch` undoes it because the state it brings
back is the topmost saved one, and `finish_statement` merges, undoes or abandons
the outermost. `AbortsPass` needs no invariant.

**The interactive cook.** Nothing bounds the recipes, the failures or the answers.
What is reported at the end is what the interface has shown, which is what the two
threads have sent: each property relates the three. *Order* (`OrderInv`): recipes
are handed over in their order, and no recipe is in two places, so that the updates
on one recipe are sent by one thread at a time. *Leaving* (`LeftInv`): once the user
chose to leave, the interface takes no more answers. *The end* (`EndInv`): in a run
nobody leaves the fetcher ends after its last recipe, the cooker after the fetcher,
and the update that completes the run is the last one. *Truth* (`TruthInv`): the last
update on its way about a recipe, or what is shown of it if there is none (`Heard`),
is what became of it, from the moment the threads are done with it; when the run
is complete no update is on its way, and this is `ReportsTheOutcome`. *Questions*
(`QuestionInv`): where one thread fails and not the other, the shared atomic, the
shown prompt, the failure on its way and the given answer belong to the one thread
that asks, once it has asked: an answer that came before the question is remembered as
that (`Hasty`), and never obeyed; `WaitIsShown` and `AnswerReachesItsRecipe` are parts of
it. *Active jobs*
(`ActiveInv`): if only cooking fails, then before the interface shows a failure it has
shown the start of a fetch and of the cook and not its end (`FetchesBefore`,
`CooksBefore`), so that the user who leaves has a log to leave with: this is why
`unreachable!` needs a fetcher that fails, or nonstop. `HeardOther`, `HeardLast`
and `HeardNext` say what sending and showing an update do to what is heard,
`BeforeStays`, `BeforeSent` and `BeforeNext` what they do to the active jobs; the
other lemmas say what each action preserves, one part of `IInv` at a time.

**The cook of one recipe.** Nothing bounds the packages, the dependency directories,
the cooks, the versions or the faults: any set of faults may happen, and each property
says which it survives. What a cook concludes it concludes from what earlier cooks
left on disk, so each property about the end of a cook needs an invariant about the
time between cooks. *The lists* (`Walk`): the step is at the head of the rest of a
list without repetitions, so what is not in the rest (`Left`) is done; the `…Passes`
lemmas say where each step goes on. *Directories* (`DirectoriesFit`): without
`clean_target` the tags of a directory name what it holds; with it, a directory is
empty behind its tags until `build_deps_dir` has run once more, which is why a cook
that emptied one must install it before the script. *Files* (`RemovedBefore`,
`NothingTorn`, `StageIsMade`, `MetadataFits`): `newer_rebuild` deletes auto_deps.toml
first, then each package with its metadata, and only then does the script run; while
auto_deps.toml is there, a metadata file describes the package beside it. A downloaded
recipe removes no metadata, so this holds of it only if no cook was killed. *Age*
(`NewerTells`, `PackagesAreMade`): `build_is_source_newer` compares with the newest of
the packages, which tells the age of all of them only because all packages present
with auto_deps.toml are of the same age. *Agreement* (`OneStage`, `AllDescribed`,
`RepositoryFollows`): all packages that are there with auto_deps.toml are of one stage,
and what need not be published is already in the repository; without the first the
second would not be inductive, because a cached cook makes nothing. *Dependencies*
(`TagsFit`, `DependenciesFit`): where nothing but scripts fails, the tags say what the
packages were built against, and a directory without tags is one that will be
installed, so a failed script is repeated rather than forgotten. One lemma per part
of `IInv` treats every action; `StepHolds` combines them.

## 7. What is only checked, and what is not modelled

Liveness (`AwaitEnds`, `PipelineEnds`, `MixedEnds`, `EveryRequestAnswered`,
`DiagnosticsConverge`, `CancelEnds`, `LimitedEnds`, `RunEnds`,
`FetchRecovers`, `CookRecovers`) rests on fairness and is
checked by TLC only. So are the safety properties of the runs `spawn`, `history`,
`modules` and `fetch`. Some of those are out of the prover's reach: `FileIsTheLog` and
`RecordsSurvive` decode the file, whose encoding folds over characters, and
`ProgramConsistent` and `AnalysisIsRight` speak of a graph search that `ModuleProgram`
declares `RECURSIVE`; what such definitions compute would need induction over data.
Nothing is proved about `SourceFetch` yet (§8).

What the properties exempt, because §5 shows the code to fail there:
`AwaitEnds` speaks of waits for one job; `TerminalReturned` exempts a session to which
the host refused to give the terminal back; `LimitedEnds` exempts a `for` over a range
whose body has no statement; `NoStrays` exempts a refused terminal
and a failing wait; `PipelineEnds` exempts captures that are stopped, and stops
where a wait may fail; `MixedEnds` exempts stops and endless children;
`AnswerReachesItsRecipe` and `WaitIsShown` speak of runs in which one of the two
threads fails and not the other, `RunEnds` of those and of nonstop runs, `WaitIsShown`
and `RunEnds` of runs whose last answer did not come before its question (`Hasty`); `ReportsTheOutcome` of
runs nobody leaves, and of stages in the runs of `RunEnds`;
`RecordsSurvive` of a history below its capacity; `FailuresAreReported` of
requests whose extra descriptors are consecutive from 3; `FreshPackages` of
sources nobody edits during a script, and of downloaded recipes of no kill before a torn
file; `FreshDependencies` of cooks in which nothing but a script fails and that all set
`clean_target` or all do not, `BuildsAgainstDependencies` of cooks that all set
`clean_target` or all do not; `PackagesAgree` of kills between steps, and for
downloaded recipes of no kills; `CookRecovers` of failures and not of kills.
`AnswersAreWhole` and `CheckedFetchDelivers` speak of checked fetches, and exempt two things.
`Trusted`: the fetch found the record to be current and brought nothing, although one that
was interrupted after that record had begun to bring something else, or the record cannot
tell (a directory that changed while it was copied, files that changed while they were
brought and changed back, a fetch that recorded what it did not bring); a history variable,
`interrupted`, remembers the record that should have been written, and the exemption ends
with the next fetch that renews the source. `AsCommitted`: of a repository
without patches, only the commit is promised, because it is never reset. `FetchRecovers`
speaks of a repository that git can still work on (`Resettable`): not torn by an unfetch,
without files that patches created, without the changes of patches that were dropped.
These are the exemptions: `FetchConsistent`, `CheckedFetchDelivers` and `FetchRecovers` hold
of the setups named in §5 as well, except `PathBackdated`, for nothing is promised of a
directory whose files keep their old times when they change.
`RunsInOrder` compares the effects
that were announced with the modules that run in language 1 only.

What the models leave out:

* **jobs**: reservation and reuse of observer threads (`prepare`, `assign`,
  `shutdown`), the inline observers of targets without signals, names and times
  of jobs. Nor the reuse of a process-group identity by the kernel: once every
  member is waited the number may be given away, and a signal sent before the
  observation is applied (`background.rs:2241`) reaches a stranger; which number
  is given away is decided outside the shell.
* **pipelines**: what bytes are; feeding standard input; file redirections
  beyond their refusal; tracing and durations. A background start ends where
  its children are handed to the table.
* **mixed**: what an internal operation computes; it is lazy, eager, exiting or
  failing.
* **evaluator**: values and the operations on them, a command in the condition
  of a loop, streams and value pipelines, captures beyond their effect on the
  host, the supervised foreground, collection budgets, and the startup policy.
* **modules**: the type checker, the reference resolver and the pipeline
  analysis: a source is given the fault they would find; the limits on syntax
  nodes and type depth, which stop the analysis as the work budget does; the
  analysis of a REPL source. Those are functions of one module's tree and tables
  and change no state that others see.
* **fetch**: the lock files that git leaves when it is killed, `cargo fetch`, submodules, a changed remote URL, `repo.toml` with its
  eight hours, recipes without a build, and whether a git identity is dirty.
* **server**: framing, URIs and JSON; a query answers with the generation it
  was computed for; texts are of three kinds.
* **tui**: logs, scrolling and drawing.
* **history**: `EditorHistory::clear`, which has no caller.
* **spawn**: `std::process::Command` is external, modelled from its use and its
  documented order; environment and arguments are left out.
* **cook**: contents of packages beyond the versions they were made from;
  `handle_nonstop_fail` (it is in `CookTui`), `repo.toml` and the list of
  outdated packages; recipes cooked as dependencies count as runtime
  dependencies when they are published.

## 8. Plan

Model, in this order: the reservation and reuse of observer threads and the
inline observers (with `BackgroundJobs`); the interactive loop with its exit
warning and the bridge that prints notices while a line is edited; `repo.toml`
and outdated packages; the pull protocol of value streams; type identity and
the analysis of REPL sources; migration of a source tree; and the composition of a background start in `PipelineRun` with the table.

Prove, in this order: that every step of the table is a step of `JobMachine` or leaves the record
alone; `FetchConsistent`, whose invariant has to relate the record, the source and `interrupted`; the parts of `SpawnConsistent` that do not count descriptors.
