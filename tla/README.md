# moamcp in TLA+

Specifications of moamcp, model-checked with TLC and proved with TLAPS, kept beside the code.
moamcp is an MCP server: language-model agents of several harnesses hold debates through it,
share a blackboard, and work on a repository as a "tower" of workers and reviewers. Each MCP
client starts a server process of its own. The processes share one home directory; the first of
them (or a daemon) serves an HTTP "Bus" that the others reuse. Web pages follow debates, the
status of agents and the boards through that Bus. Most of what is hard about moamcp follows
from this: no process owns the files, calls of one process interleave at every `await`, any
process may be killed by its client at any time, and a page sees all of it late.

Paths are relative to `src/` of the source tree; `store.ts` without a directory is
`modules/tower/store.ts`, `board.ts` is `core/store/board.ts`.

- [1 Inventory](#1-inventory)
- [2 Plan](#2-plan)
- [3 The modules](#3-the-modules)
- [4 Runs, bounds and fairness](#4-runs-bounds-and-fairness)
- [5 What is proved](#5-what-is-proved)
- [6 Known divergences](#6-known-divergences)
- [7 What is not modelled](#7-what-is-not-modelled)

## 1 Inventory

### Components

| component | state it keeps | operations | what makes it correct |
|---|---|---|---|
| debate hub, `modules/debate/state.ts` | a task: status, round, turn, transcript, votes, a promise queue, parked waiters; an archive directory of four layers | moa_init, start, wait_turn, submit_turn, complete | strict rotation; early end only on the unanimous vote of a full lap; no waiter sleeps through its turn or the end; the archive tells what was said |
| debate feed, `core/bus/bus.ts` 560-760, `web/debate-card.ts` | a replay log per task, SSE streams, the card's transcript and stage | publish, post, subscribe, replay, load the verdict | a stream has no gap and no double; the card shows the debate and sees its end |
| run read model, archive index, `core/store` | a summary per live run; a scan of the archive directories | ingest, list; scan, summarise | the summary is the hub's state; what is listed was really in place |
| append lock, `core/store/append-lock.ts` | a lock file beside every shared log | withAppendLock | exclusion; no waiter removes the lock of a live holder; a dead holder does not wedge writers |
| board store, `board.ts` | a JSONL log per scope; in every process a cached fold, its size, a timestamp generator, waiters | write, delete, mutate, read, list, wait, poll | what a writer had read is older than what it writes; a skipped refold is current; views only advance; waiters are served |
| project registry and life cycle, `core/store/project-registry.ts`, `project-migration.ts`, `board.ts` 739-1070 | registry.jsonl and its projection in every process; board files and their archives | resolve a scope, adopt (migrate), detach, release, archive | no acknowledged record is lost or hidden from its workspace; no hash stays with an archived project; a detach brings back what the adoption moved |
| handoff, tips, `modules/handoff`, `modules/tips` | entries of the shared boards | send, claim, archive, list; capture, update, archive, list | one claim per handoff; a patch takes back nothing it does not name; listings are complete |
| board page, `web/pages/board.ts`, `web/control-plane-page.ts`, `adapters/control-plane.ts` | the list, the detail pane, the form, requests under way, a subscription | list, fetch, save, delete, reload, follow events | a save replaces only what its user has seen |
| bus ownership, `core/bus/*` | an instance registry (a file per pid), bus.port, a listening socket, an event sink per process | start with a port walk, reuse, host watch, takeover, release to a daemon, shutdown | sessions share one Bus; registry entries are true; events go to the Bus; nobody forwards into a dead port for ever |
| tower merge gate, `store.ts`, `git.ts` | missions, reviews, CI records, branches | merge, submitReview, startCi, status and scope patches | only reviewed, tested, in-scope work lands, in dependency order; objections are answered; a crashed merge can be finished |
| tower plan, `store.ts`, `tools.ts` | missions with scopes and dependencies; worktrees | boot, plan, spawn, rescope, teardown | missions under way share no path; teardown removes nothing uncommitted |
| tower crew, `store.ts` 780-1064, `identity.ts`, `hooks/tower-write-guard.mjs` | the roster; engine ids and verdicts on them; a mirror file for a write hook | spawn, register, verify, sync the mirror | slugs are distinct; the verified are the tower's own; the mirror shows the roster |
| tower waits and CI chain, `store.ts` 190-240, 1079-1460 | parked waits; a promise chain per worktree | waitForDeps, waitForMission, waitForCi, inbox; startCi, prune | an answer is true; a write between read and park is not lost; runs of one worktree never overlap |
| agent configuration, `modules/agentconfig` | TOML and Markdown files of a project | read, save whole, save bindings | no save replaces a version it was not made from; a patched binding leaves the rest alone |
| status stream, `modules/status` | tails of the debate hosts' logs, a fold, a dirty set, SSE connections | scan, pump, fold, flush, sweep, connect | the page shows the fold; only the idle are evicted |
| event stream, `modules/status/sse-source.ts` | a loop with a generation and an abort controller | start, stop, probe, read, back off | one subscription at a time; it connects in the end |
| agent status on pages, `web/status-model.ts`, `web/debate-card.ts` 1119-1626 | a tree of agents with orphans and pending children; probes, timers and a stream | frames, snapshots, evictions; probe, retry, hide, show | the tree is sound and hides nobody; the page always finds the server again |
| control plane routes, tool adapter, servers | - | one store operation per route or tool | - |
| web, `web/` | filters, selections, layout | render | - |

### Interactions

- Tool calls (adapters/mcp.ts) and HTTP requests (adapters/control-plane.ts) enter the stores as
  promises. Inside a process a store serialises what it must with promise queues (per debate
  task, per board scope, per worktree, per configuration file); across processes only the append
  lock and the size and hash checks of the files do.
- Debate notes, handoffs, tips and everything a tower knows are board entries; a workspace scope
  is first resolved by the project registry, so the life cycle of projects decides which file a
  board call uses.
- Every store emits domain events to the sink that BusOwnership maintains. The Bus replays them to
  pages and folds them into the run read model; the status service folds the debate hosts' own logs.
- The tower drives git in the main checkout; workers commit on their branches with their own git.
  It verifies its members against the status fold.

### What is hard to get right

The hazards of `PROJECT.json` name a line each. They fall into six groups:

1. *A check and its use are separated by an `await`.* The lock's stale check and unlink
   (append-lock.ts:98-102), mutate's fold and append (board.ts:524), the tip gate and `git merge`
   (store.ts:2241-2293), the migration's read and rename (project-migration.ts:183-240), the size
   remembered before the fold that it stands for (board.ts:1203-1204), the hash check and the
   rename of a configuration file (fs-utils.ts:38-45), a name's availability and its entry in the
   roster.
2. *One step of several fails.* The archive layers of complete, the appends of a mutation, the
   steps of a migration after the rename, a merge that stops on a conflict, a teardown that keeps
   one worktree.
3. *A process dies.* Lock files, registry entries and bus.port stay behind; a merge has landed
   but is not recorded; a project is archived but keeps its alias.
4. *Caches of another's state.* Folded boards, folded registry, last-seen sizes, a fold that lags
   behind the logs, a form that shows an old version.
5. *Answers and events out of order.* A parent after its children, a list after a newer list, a
   request that overtakes another on its way to the Bus, a stream that is cut and replayed.
6. *Somebody sleeps.* Turn waits, board waits, tower waits, host watches, passive watches, a page
   whose server went away.

## 2 Plan

The order follows how much else rests on a component.

| step | module | abstract specification or properties | state |
|---|---|---|---|
| 1 | TurnOrder, DebateHub, DebateSession | the hub implements TurnOrder; the archive is whole; cooperative debaters are dismissed | checked; safety and refinement proved |
| 2 | AppendLock | exclusion, recovery | checked, exclusion proved |
| 3 | BoardStore | causal order, current caches, views that advance, served waiters | checked, safety proved |
| 4 | BusOwnership | one Bus, true registry, sinks, no zombie | checked, safety proved |
| 5 | TowerGate | what lands is reviewed, tested, in scope, in order | checked, safety proved |
| 6 | ProjectBoards | nothing lost, visible, aliased to live, restorable | checked and proved |
| 7 | TowerCi, TowerWait, TowerPlan, TowerCrew | runs of a worktree never overlap; answers are true; scopes; roster and mirror | checked, safety proved |
| 8 | Notes (over an abstract board) | single claim, no lost patch, complete listings | checked and proved |
| 9 | StatusStream, StatusPage, OmkcSource, AgentCard | the page shows the fold; the tree is sound; the connection comes back | checked, safety proved |
| 10 | DebateFeed, ArchiveIndex | gapless streams, the card sees the debate and its end; listed summaries were in place | checked, safety proved |
| 11 | AgentConfig, TomlPatch | optimistic saves; a patch changes what it names | checked and proved |
| 12 | BoardPage | nothing unseen is replaced | checked and proved |

Still worth modelling: the other views of the control plane's page (agents, projects, tips,
handoffs), which repeat BoardPage's pattern with variations, and the tower's controller.

Conventions: parameters are CONSTANTS with named assumptions; one action per operation or per
stretch of code between two awaits; every bound is a constant named `Max...`; a module that is
proved about reaches no RECURSIVE operator. Definitions keep the source's names. A definition
`X_Y` is `X` as a plausible bug `Y` would have it; it is used by no action and serves to see that
a property notices.

## 3 The modules

### Side by side

Components that share no state are checked together where their instances are small: an MC module
EXTENDS one, INSTANCEs the others and adds a variable `part`, chosen at the start. Only the chosen
part moves, the others keep their initial values, every fairness conjunct and every property begins
with the part it is about. A behaviour of such a module is a behaviour of one component, the state
space is the sum of theirs, and a run of it shows what the separate runs would.
MCDebateAudience (DebateSession, DebateFeed, ArchiveIndex), MCSharedFiles (AppendLock, AgentConfig),
MCBusPage (BusOwnership, StatusPage, AgentCard, OmkcSource), MCTowerCamp (TowerGate, TowerPlan,
TowerCrew), MCTowerCalls (TowerWait, TowerCi), MCProjectBoards (ProjectBoards, Notes) and
MCStatusStream (StatusStream, BoardPage) are of this kind.

### TurnOrder, DebateHub, DebateSession: the debate hub

`TurnOrder` is what the hub promises: turns in strict rotation over N agents, no turn before the
debate opens or after it ends, an end only after the last round, on a unanimous last lap, or by the
orchestrator. `DebateHub` is one task of state.ts:

| code | module |
|---|---|
| `enqueue` (498), the task's promise chain | `queue`: start, wait, submit are one step at its head; `complete` keeps the head over its writes |
| `waitTurn` (269-298), its cap, `wakeAll` (489) | `parked`, `MustSuspend`, `WaitTimeout` |
| `submitTurn` (300-385) | `SubmitRejected`, `SubmitUnanimous`, `SubmitAdvance`; `Votes`, `RoundEnds`, `LastRound` |
| `complete` (387-430) with its writes | `job` names the write that is under way; `Truncate` empties a file that is there, `CompleteFail` at each step |
| `archiveTask` (board.ts:1080-1096) | `grabbed`, `notes`: the records read before the write, the scope dropped after it |

`DebateSession` adds cooperative clients: debaters that follow the submission protocol in the turn
prompts (state.ts:28), dispatched before or after the start, and an orchestrator.

Properties: `TurnsAreFair` (`RoundRobin`, `SignoffsAreTrailing`, `EarlyIsUnanimous`: an early end means that
each of the last N turns was signed off by a different agent), `WaitersAreServed` (`NoWaiterAfterEnd`,
`NoSleepThroughTurn`), `ArchiveAgrees` (a closed task's archive is whole and in step with the transcript;
while a repeated complete rewrites it in place, or after such a one failed half-way, a layer may be torn,
and those that are whole still agree; completes that failed before the task was closed leave no trace), the
refinement `TurnOrderSpec`; `GrantedTurnIsHonoured` and `EveryDebaterIsDismissed` of the session. Left out:
prompt texts, events (DebateFeed has them), several tasks (they share nothing but the map they are in).

### DebateFeed and ArchiveIndex: the audience of a debate

`DebateFeed` follows the hub's events to a browser: `Emit` publishes with a call when the hub lives in the
Bus's process (`Publish`, `Trim`) or posts each event on its own (`remote`, `wire`: `Deliver` in any order,
`Lose`). `Ingest` is the run read model, `Subscribe` replays the log and registers in one step, `Disconnect`
and `Takeover` break the stream. `Receive` is the card's `onEvent`; on the closing event it loads the
verdict from the archive (`LoadVerdict`, `FailToLoad`, `Retry`) and perhaps the full transcript. `Preset` is
the order of turns, of any number of debaters; a write of the archive may fail (`FailArchive`) and be asked
for again. A frame carries its number among the hub's events, so equal events are told apart; `Newest` is
what the replay log keeps, `Ingested` the summary after several events. Properties: `FeedIsGapless`,
`RunFollowsDebate`, `NoTurnTwice`, `TranscriptIsTheDebate`, `CardSeesTheEnd`. Left out: rounds, names,
texts, layout.

`ArchiveIndex` scans one task while moa_complete rewrites its files in place and somebody deletes
or replaces them: `List`, `Lstat`, `Open`, `ReadBlocks`, `CheckResult` are the scan's system calls,
and the file systems without inode numbers are the case `~numbered`. `SummaryWasInPlace`: a
summary comes from complete results that had their name while the scan was running, and the entry's
sizes and dates are of the file that the summary was read from.

### AppendLock

`withAppendLock` as the loop it is: `open('wx')`, on EEXIST `stat`, perhaps `unlink`, deadline,
sleep, then fn and release. Processes are killed anywhere, the file system fails with other codes,
a lock file grows old (`Age`). `Stalling` are the processes that may hold the lock past
staleMs. `HoldersOwnTheFile` says that as long as no lock file has grown old, whoever is inside owns
the file that exists; it implies exclusion. `AcquisitionSettles` and `NotWedged` are the liveness:
an acquisition ends, and a dead holder's lock is free again.

### BoardStore

One persistent scope, several processes. `file` is the log; `mem`, `loaded`, `size`, `lastEpoch` are a
process's ScopeState. Operations run one at a time per process (`enqueue`), in two steps: fold, stamp and
apply (`Write`, `Delete`, `Mutate`), then one append after the other (`PersistNext`, `Fail`); other
processes come in between. `Poll` is the 250 ms poll that folds for parked waiters. A record carries what
its writer had seen (`saw`, `base`, `whole`), which only properties read. Timestamps are numbers: `Tick`
moves the clock, and a process's generator runs ahead of it in a burst (board.ts:1548). `FoldsAreCurrent` is
`CausalOrder` (what a writer had seen is older than what it wrote), `SkippedFoldIsCurrent` (a fold that is
skipped because the size has not changed would have found what is in memory) and `OwnAppendsAgree`;
`ViewsAdvance` says that no fold takes an entry back.

### ProjectBoards

One workspace directory, some projects, requests in flight in several processes.

| code | module |
|---|---|
| registry.jsonl; a process's projection, fileBytes, lastRegistrySize | `reg`; `proj`, `fresh`, `sized` |
| `mutateUnderLock`, `appendRecord` | `Commit`: refresh and append are one step, under the registry's lock |
| `refreshRegistryForScope`, `parseScope`, then fold and persist | `Write`, `FoldRegistry`, `AppendRecord` |
| `migrateWorkspaceToProject` | `Migrate`, `Create`, `Copy`, `Adopt`, `Meta`, `Rename`, `Rotate`, with `Unwind` and `Rollback` |
| detachProjectAliasEntry, `releaseWorkspace`, `archiveProject` | `Detach`, `Release`, `Archive`, `Tombstone`, `Drop`, `ReleaseBoard`, `Pick`, `Restore`, `Shelve` |

A board is the set of the records in its file. `owed` are the records a reader of the workspace
must find: those acknowledged since the workspace was last rolled back on purpose (detach, release,
archive). A registry mutation is one step although the code reads the file inside it: whoever
looks at the projection in that window finds `sized` false and waits, so the window adds no outcome.
Properties: `NothingLost`; `BoardsReachable` is `Visible`, `AliasedToLive` and `Restorable`.
Left out: sidecars, names, several hashes, requests refused at their gate.

A failed fold of the registry is swallowed (board.ts:1205, 1216): `Misread` leaves the process with the old
projection or an empty one, and a write that resolves on it goes to the legacy file although the workspace is
aliased. Such a write is acknowledged and hidden: it is not in `owed` but in `astray`, and it stands in the
way of a restore, because `restoreWorkspaceBoard` leaves a live board alone (`Restorable` says so). Any request
may fold, or fail to (`Look`). Separations and archivals may end at any of their steps (`GiveUp`), by failure
or by a crash: a project whose archiving was `cut` short keeps its alias, and `AliasedToLive` excepts it.

`Discipline` names what the code leaves to its callers: "quiet", nobody writes to a workspace while
it is adopted; "serial", admin requests come one at a time (there is one control plane page). The run assumes
both; section 6 says what happens without.

### Notes: handoffs and tips

Two typed views of boards, changed by `BoardStore.mutate` in two steps, `Change` (fold, judge, stamp) and
`Append`, between which other processes append (`Rivals`). `Send`, `Transition` and the three changes of a
tip are the operations; tools and routes of both are `HandoffTools`, `HandoffRoutes`, `TipTools`,
`TipRoutes`. `Adopt` and `Detach` move a workspace's board to a project and back, under which listings must
still find everything: `Inbox`, `Outbox` and `ListTips` are operators over all boards. A detach leaves
copies on both sides, and a second adoption keeps the newer of two (`Merged`); a change whose entry had two
such versions (`Forked`) is no longer clean. A change is `clean` when no other process's request overlapped
it; `ClaimedOnce` and `PatchesSurvive` are about clean ones, since `mutate` promises nothing between
processes (BoardStore_update, section 6). A listing scans the newest `Cap` rows of a board, filters them,
and answers the newest of those up to the caller's `limit` (100 unless asked for more, 1000 at most), which
an outbox applies once to the rows of all boards together. `ListingsComplete`: what is asked for is listed
unless a scan passes the cap or as many newer rows of the same listing as the limit are there, for every
limit.

### BoardPage

The control plane's view of boards. `view` is the selectors, rows and detail pane, `form` the editor,
`asked` the requests under way, which are answered in any order (`Serve`) and whose answers arrive
in any order (`ListArrives`, `DetailArrives`, `SaveArrives`, ...), or fail. The user selects, edits,
saves, deletes, closes, reloads after a conflict and changes board or workspace at any time; agents
write the same boards, and the subscription tells of it (`EventArrives`). `NothingUnseenIsReplaced`:
a save or deletion replaces the version whose text the form or the pane had shown, on the board that it
was shown for.

### BusOwnership

A process registers, walks the ports until it binds one or recognises a live moamcp, and then owns or
reuses. `pc` is where it is in `start`, `release` or `stop`; the actions are its awaited steps (`Register`,
`Bind`, `BindBusy`, `Lookup`, `ProbeAnswered`, `ProbeFailed`, `Advertise`, `WritePortFile`, ...). The host
watch (`WatchAnswered`, `WatchFailed`) counts failed probes up to `Threshold`; a release (`Release`,
`Delist`, `RemovePortFile`, `HandOver`) closes the listener, removes the entry and the file, spawns a daemon
and ends in "passive", from where `Reattach` returns. A probe of a live Bus may be answered too late
(`MaxMisses`). A release comes after start() has returned: one that comes between the bind and the write of
bus.port (bus.ts:324-329) is left out. `OneOwner` is `OneBus`, `SettledRegistry` and `SinkFollowsBus`;
`NoZombie` is its liveness. Left out: port 0, pid recycling, the HTTP routes.

### TowerGate

`merge()` is a chain of awaited reads: missions (`Ask`), diff of a survey, reviews, tip, scope, CI, then
`git merge --no-ff` and the status write. `pc` says which of them a call comes to next, and the call's
variables hold what it has read. Workers commit (`Commit`), reviewers read and then submit (a verdict names
the tip at submission, `at`, and the property also knows what was read, `of`), CI runs are queued with the
tip of that moment and execute later on what the worktree then holds. A crash loses the calls and the
chained runs. A branch is a row of commits. Step 7 judges the net difference `base...branch`, with git's
detection of renames (`Listed`): `Files` are outside of every scope, `Edited` and `Moved` say what a branch
has made of them as of each commit (`Held`). What one commit did outside of the scope and a later one took
back is not listed, and lands; nor is a file that was moved into the scope. The main checkout is taken to be
on the base branch: its owner sees to that. `Discipline` again names the rules left to the agents: a branch
does not move while it is reviewed ("review") or merged ("merge"), and only merge() marks missions merged
("status"). `OnlyVettedLands` is `OnlyReviewedLands`, `OnlyTestedLands` and `OnlyScopedLands` (the base
holds no edit of a file outside the scope, in however many commits and merges it came); `LandsInOrder` is
about dependencies and recorded merges.

### TowerPlan, TowerCrew, TowerWait, TowerCi

`TowerPlan` is the missions from boot to teardown. Board writes are one step (`Reserving` are the missions
whose scope counts; `Plan`, `Rescope`, `SetStatus`, `Merge`); a spawn (`AskSpawn`, `AddWorktree`,
`Activate`) and a teardown (`StartTeardown`, then `Look`, `UnlinkRoot` and `RemoveTree` per worktree,
`EndTeardown`, `Clear`) are chains of awaits that workers' edits and a crash come between. `Careful`: the
tower plans and spawns nothing while it tears down. `PlanIsSound` is `NoSharedScope` (no two build missions
under way share a path) and `TeardownIsSafe`: without force no worktree with uncommitted work is removed,
however late it was edited, because git looks again. Links in the worktree's root are the exception (`tree`
= "links"): `unlinkRootLinks` takes them away between the store's look and git's, forced or not, so one that
was made in that gap is lost, and a committed one that it took makes git refuse. A `git status` that fails
counts as a clean tree.

`TowerCrew` is the roster and its mirror. A spawn checks the name and enlists it in another step
(`AskSpawn`, `Enlist`), the mirror is loaded and renamed into place in two (`Load`, `Publish`), and several
calls may be open. The fold of the debate hosts' logs, which decides whether a member is the tower's own
(`Confirmed`, `Verified`), shows what it likes of an agent at each look. `earlier` are the calls that had
loaded the roster before and have not renamed yet, `behind` that an older mirror may be in place. A failed
deletion of the mirror is swallowed and the namespace is cleared all the same (`DeleteMirror`), so that the
mirror outlives the crew; `behind` covers that too. `CrewIsSound` is `NamesDistinct`, `MirrorIsCurrent`,
`VerifiedIsChild`.

`TowerWait` is a wait as the loop it is: read one thing at a time, judge, park with the read stamp as
cursor, be woken by the next write (`Woken`, `Wake`) or by the deadline. `AnswersAreTrue` and
`WaitersHear`. `TowerCi` is `chainCiRun` with its map of tails and their pruning (`Prune` removes an
entry only if it is still its own). The timeout kills the shell alone, and a run is done when nobody holds
its output any more: a process that the command left behind may hang the run for ever (`Hang`, from
which `Exit` is possible but not owed). `OneCommandAtATime`, and `EveryRunSettles` for all runs
but those that wait behind such a one. TowerGate takes this chain to be one queue.

### StatusStream, StatusPage, OmkcSource, AgentCard: the status of agents

`StatusStream` is one session on its way from files to a page. The watcher scans state.json and reads the
tails of wire.jsonl in chunks (`ScanStart` ... `ScanRead`, `PumpStart` ... `PumpChunk`), while the engine
appends, truncates and rewrites. `ApplyWire`, `ApplyOmkcEvent` and `ApplySessionState` fold; `Mark`, `Flush`
and `SendFrames` push what changed; `Sweep` evicts; `Connect` sends a snapshot and what backs up costs the
connection (`Hangup`). The folds are stated by what they find (the last record that says something), not by
a recursion. `due` is the newest record that the watcher has sized and could have read; a truncated file
takes its unread records back. `PageShowsTheFold` is `ShowsTheFold` (what the client has, with what is
buffered and marked dirty, is the fold) and `KeyMeansFolded` (the watcher's memory of a state.json means
that this state was folded); `EvictsOnlyTheIdle`.

`StatusPage` is the page's tree under frames in any order: `ResolveAndAttach`, `FillOrphans`,
`DrainPending`, `RemoveReal`, the two halves of a session's table and the cached directories, with child
lists as bags. Loops over children and over listed subagents are stated by their result, because no two
turns of one touch the same row: who becomes a leaf, which waiting children are adopted, which are left
without a parent. `older` is the order in which rows were inserted, of which the model reads only who comes
first; a row keeps the frame it was made from (`said`), which is where its parent, its subagents and its
activity are read. `Reached` is what a set of keys leads to, as the smallest set closed under the links: a
walk over a tree, or over declared parents that may go in a circle, without a recursion. The loop over a
snapshot is the recursive function `built`, since there every turn depends on the one before.
`PageIsHonest` is `TreeIsSound` (parents and children agree, no cycle, nobody twice, and the registries of
leaves and of waiting children list exactly those), `ShowsWhatWasSent`, `NothingHidden` and `DirCacheFresh`.

`OmkcSource` is the service's subscription to the endpoint a command line agent embeds: start and
stop, the loop's generations and abort controller. `OneSubscription`, `ConnectsInTheEnd`.
`AgentCard` is how the debate page looks for the status server: probes, a retry, a timer while the
server is starting, three strikes, a slow probe after them, the stream, batched frames.
`StillLooking`, `CardComesBack`.

### AgentConfig, TomlPatch: agent configuration

`AgentConfig` is one file, local.toml or a profile: a save names the version that it was made from, is
checked at the start of its turn (`Prepare`) and before the rename (`CheckAgain`, `Replace`, `FailReplace`
for a file that is busy), behind the saves before it (`queue`, a sequence of callers; a settled save leaves
it by `Tail`); an editor writes when it likes (`Edit`). `SavesTakeTurns`. `TomlPatch` is the line editor
below it, over lines known by their look, with strings that span lines, arrays, quoted and dotted keys and
inline tables; `Parse` and `Valid` are what a TOML parser reads in the same lines, and `SavesAreExact` says
that a patched text is TOML and, if the old one was `Plain`, means the old one with just the asked changes,
and keeps its comments. The editor's lexer and the parser are two definitions, since they are two programs:
`Inside` is the lexer's mode carried from line to line (`Lex`, `Modes`), which closes a string at the first
three quotes, `Within` is TOML's, where a string may end with a fourth quote that belongs to it. A line may
have such a `fourth` quote; on the text that has one the property claims only that what is written is TOML
(section 6).

## 4 Runs, bounds and fairness

| run | configuration | instance |
|---|---|---|
| debate_safety | DebateHub_safety.cfg | 2 agents, 2 rounds, 2 sessions with arbitrary calls (retries, strangers, repeated completes), failing writes, 1 note |
| debate_audience | DebateAudience.cfg | session: 2 cooperative debaters and an orchestrator; feed: 3 frames of replay, 2 turns, 2 breaks, 2 archives; index: 2 versions, 3 file nodes |
| shared_files | SharedFiles.cfg | lock: 3 processes, 2 crashes, 1 error, one process that may stall; config: 2 names, 2 callers, 6 texts, 6 lists of changes, 2 saves, 1 edit, 1 busy rename |
| lock_race | AppendLock_race.cfg | a violation: see section 6 |
| board_safety | BoardStore_safety.cfg | 2 processes, 2 keys, 3 commits, 1 failed append, 1 crash, 2 ms |
| board_live | BoardStore_live.cfg | 2 processes, 1 key, waiters, no failure |
| bus_page | BusPage.cfg | bus: 2 sessions, 2 daemons, 3 ports of which 1 is foreign, 2 departures, 1 lost probe; page: a session of 3 agents; card: 2 changes of the server, 2 requests under way; source: 3 loops, 3 changes |
| tower_camp | TowerCamp.cfg | gate: 2 missions with a dependency, 2 reviewers, 2 files outside the scopes, 2 concurrent merges, 2 commits, 2 reviews, 1 CI run, 1 crash, 1 reopening; plan: 3 missions; crew: 3 names, two of one slug, 2 calls |
| tower_live | TowerGate_live.cfg | a build mission that depends on a survey, 1 merge call at a time, workers that may declare missions merged; otherwise as the gate above |
| tower_calls | TowerCalls.cfg | waits: 3 missions, 3 writes of a key, 1 commit; CI: 1 worktree, 3 runs, 1 commit |
| proj_safety | ProjectBoards.cfg | boards: 2 processes, 3 requests, 2 projects, 2 writes, 3 admin requests, 1 failing step, 1 crash; notes: 2 workspaces, 3 changes, 3 adoptions and detachments |
| status_stream | StatusStream.cfg | stream: an agent and its subagent, 2 records, 1 rewrite, 1 omkc event, 1 connection, 1 tick; board page: 3 boards, 2 keys, 1 other write, 2 requests under way, 3 acts of the user |

*Why the bounds are enough to meet the hazards.* Two agents and two rounds have every kind of turn (inner,
last of a round, last of the debate, unanimous). Three frames of replay are fewer than a debate of two turns
emits, so the log is trimmed. Three lock processes are a dead holder and two rivals. Two processes with
three commits let a peer append between fold and append and a third operation see the result. Three ports
let a session walk past a foreign one and two departures let a takeover be followed by another. Three agents
can be each other's parents in a chain and in a circle. Three admin requests are adopt, detach, adopt again,
or adopt, archive, adopt elsewhere. Three CI runs are one that runs, one behind it, and one that chains
while the first's entry is pruned. Two requests of the page and three acts are a save that is overtaken by a
change of board. Every property has a mutated definition, listed in PROJECT.json, under which its run fails:
the bounds reach what the property is about. That, and the proofs, which have no bounds, is the argument;
nothing was derived about cut-offs.

*What the bounds exclude.* In the feed, MaxWire = 0 lets the hub emit only when no request is on its
way: the posts of one call may be lost or overtake each other, those of two calls may not. The
status stream has one connection and one tick. The page has one session. The gate and proj_safety
assume the disciplines named above.

*Deadlock* is checked where something can always happen; the bounded systems (all with a `Max...`
budget, or where all processes may be dead) end when the budget is used, and their configurations
say CHECK_DEADLOCK FALSE. *Symmetry* is used in board_safety (processes and keys) and proj_safety
(projects, requests of one process, workspaces), which check no liveness; nothing there is derived
from the identity of what is permuted.

*Fairness.* The event loop runs what is runnable, so the steps of a started call are weakly fair
(`Serve`, `ArchiveStep`, `Finish`, `Step`, `MergeStep`, a wait's `Loop`, the stages of a CI run), and
so are timers (`WaitTimeout`, `Tick`, `Deadline`, the card's `Retry`, `StartingTimer`, `Reprobe`, the
source's `Idle` and `Wake`). `Poll` is strongly fair: the poll's fold is put in a first-in-first-out
promise queue, and is disabled only while another operation is at the head. In AppendLock an orphaned
file grows old (time passes) and live processes keep having something to append. In TowerGate a
half-way merge is aborted in the end by the owner of the checkout, and the tower asks again for a
mission that is not merged (strong: its call may be out). The first mission of that run is a survey,
which merges without git: two builds whose merges keep conflicting can block each other for ever,
because one half-way merge fails all others until its owner aborts it. A CI command ends, by itself or
by the timeout, but nothing is assumed of the processes it leaves behind. In
DebateSession debaters go on with their protocol and the orchestrator starts the debate; in DebateFeed
the browser subscribes, receives and loads (`Subscribe`, `Receive`, `LoadVerdict`) and a close
that has begun goes on. In OmkcSource a probe of a source that comes and goes finds it in the end
(`Probed`, strong): the scan of the ports is repeated for as long as the loop runs. In AgentCard
requests are answered. Nothing is assumed of starts of sessions, arbitrary clients, departures, crashes,
failures, commits, reviews, editors or users.

## 5 What is proved

With `tlapm`, for every value of the constants that satisfies the named assumptions. All invariants of the
passing runs and all of their action properties are theorems; no liveness property is. `theorems` in
PROJECT.json names the theorem of each property. Where components are checked side by side, the theorem is
about the MC module's behaviours without fairness (`MCInit /\ [][MCNext]`), and about the MC module's
parameters as constants: the instance in the configuration is one value of them. `ASSUME`s of the MC modules
(FeedAssumption, IndexAssumption, ConfigAssumption, CountsAssumption, RunsAssumption, DepsAssumption,
MissionsAssumption, RosterAssumption, ScopesAssumption, ScanAssumption, PageAssumption) say what kind of
thing a constant is: bounds are numbers, markers such as None are not members of the sets they mark.
PageAssumption also says that a snapshot and the ids of agents are finitely many, and that frames speak of
agents with such ids, and ConfigAssumption that editors write texts of lines and callers ask for lists of
well-formed changes (`IsChange`, what `validateBindingChange` lets through) of bindings whose names headers
can name.

**DebateProofs.** *Hub.* `TypeCorrect`, `FairTurns`, `ServedWaiters`, `WaitersDismissed`, `TurnIsAnnounced`,
`StrictRotation`, `TallyIsTrailingRun`, `ArchiveIsWhole`, `HubTakesTurns`. The type invariant needs `Busy`
(a running complete has its client at the head). That no wait sleeps through its turn needs `OnePlace`: a
client is once in the queue or parked, else serving one call could unpark another. Rotation needs
`CountersFollow`: while debating, round, turn index and turn number are those of the record that comes next.
`FairTurns` adds `EarlyIsUnanimous`: the votes at an early end are a trailing run of N records, and by
rotation N consecutive records are of N different agents, which is the pigeonhole in `EarlyMeansAgreed`.
`ArchiveIsWhole` needs `ArchiveInStep`: what complete() has written when it comes to a step, which holds
because the promise queue keeps submissions out until it is done, and which of its layers are whole when it
is cut short. `HubTakesTurns` is the refinement: with `NotStarted` and `LastLap` every hub step maps to a
step of TurnOrder or leaves its variables alone.

*Debaters.* `SessionIsHub`: a session's behaviours are hub behaviours, so the above holds of it.
`TurnsAreHonoured` follows from that and `OwnName`: a debater submits under its own name and only when a
wait told it so.

*Archive index.* `SummariesAreOfWholeResults`. `DiskInvariant`: only the file the writer has open is not
whole. `VersionInvariant`: a version is written once, so a file that has the size and the dates the reader
saw is the file it saw, also where inodes have no numbers. `ReaderInvariant`: each block read was
whole under its name since the scan began, or belongs to what is being written there now.

*Feed.* `FeedsAgree` and `TranscriptsAreDebates`, from `FeedInv`. `GaplessInv`: log and pipe are ends of
what was published (`Ends`), and the log is as long as the limit allows. `AgreeInv`: a bus in the hub's
process that saw every event holds the hub's summary, which is proved event by event for each of the
hub's operations. `CountInv`: a turn's frame is on its way, published or lost, never two of them, so the
run counts no turn twice, even when posts overtake each other. `LinesInv` and `OrderInv`: a card
that was never cut off shows each turn once, and without a network what the stream still holds goes on
where the card ends. `ArchiveInv` ties the verdict and the full transcript to the hub.

**BoardStoreProofs.** `BoardTypes`, `FoldAppend`, `CurrentFolds`, `AdvancingViews`. The log is folded
by a definition that picks the newest record of a key (`Newest`), so appending a record is one more
application (`FoldAppend`), and no recursion is met. `Base`: records of a running operation carry the last
stamp of their process, which is past all it has folded (`Fresh`, `Clocks`); with the refold before each
operation this is CausalOrder. `Local`, per process: a view whose size is the file's is current (`Skips`),
one with only own appends since its fold is the fold with the running operation applied (`Owns`), and
it is ahead of the file only in the record about to be appended (`Behind`). After a failed append (`fails`,
`failed`) the two properties claim nothing of the entry that failed; section 6 says why.

**SharedFilesProofs.** *Lock.* `HolderKeepsFile`, `Exclusion`, `TypeCorrect`. The argument is ownership:
while nothing has grown old, who is inside created the file that exists, and nobody reclaims a file that
is not stale. Once a lock has grown old nothing is claimed: lock_race shows why.

*Saves.* `SavesHaveTheirTurn`: a waiting save is once in the queue and only the head is past "queued"
(`InLine`), so from its last look to its rename only an outside write can change the file
(`StillCurrent`).

*Texts.* `EditsAreExact`, for texts of any number of lines, any names and any lists of changes; what they mean
is claimed of those without four quotes in a row, where lexer and parser agree (`Lexed`, by induction on the
lines), and the editor adds no such line (`ListIsMeant`). Every
edit of a text is a `Splice` (lines put in or taken out between two places that are outside of strings)
or a `Swap` (one line that opens no string becomes another one). By `Parity` a place is inside a string
or not as the line before it has it, so both leave every other line in or out of a string, in its table
and with its value (`SpliceLines`, `SpliceTables`, `SpliceValues`, `SwapLines`, `SwapValues`); a line put
in or cut must not be what an array that goes on needs (`Clean`). What a text means is said by the
`Named` names and by the values that it `Says` of a name and field; in a valid text that is one value at
most (`ValidOnce`), and `Parse` reads just that (`ParseReads`). So each of patchBindingText's ways
(`FieldAdded`, `FieldChanged`, `TableAppended`, `TableRemoved`), unless it refuses, changes what is said
of its own name and field and of no other, and `ChangeIsMeant` puts them together. `ListIsMeant` is
induction on the changes made so far: a refusal, or a text that is not TOML, refuses all that follow
(`NoneRefused`). The invariant of the saves (`TextsInv`) is that what a save has written is the outcome
of its changes on the version that it was made from (`Knows`), not on the one in the file.

**BusPageProofs.** `BusTypes`, `SingleOwner`, `RegistryIsTrue`, `SinkIsRight`, `SharedBus`.
`Shape` ties each place in the code to the socket, entry and host a process has there, `Sinks` to its
sink. For one Bus: while nothing has gone wrong (`Calm`) everybody tries port 1 and is listed there
before binding it, so whoever finds it busy finds its holder (`Gathered`). `SingleOwner` and
`SharedBus` assume no foreign listener (with one, `OneBus` is false on the first walk: section 6,
BusOwnership_walk). `OneIsSubscribed` of OmkcSource: a wanted loop is the newest (`NewestOnly`), and who is
attached is wanted and holds the abort controller, which is why stop reaches it (`HeldByTheWanted`).
`CardKeepsLooking` of AgentCard: whichever answer arrives, a request, a timer or the stream is left
(`Looking`), and a card given up keeps the slow probe or a stream (`GivenUp`).
`PagesAreHonest` of StatusPage is the longest proof. Its invariant `Honest` has five parts. `Sound`:
every row hangs where its own links say (`Hung`: child lists, roots and waiting children are the bags
and sets that the rows' `up` and `pend` determine), a row's links are what its frame and the rows that
exist allow (`RowIsSound`), the leaves and the order agree with the rows, and the parents have no
circle. `Waiting`: a row waits only for one without a row of its own. `Placed`, until declared parents
went in a circle: every row is under the parent it declares, or waits for it. `Fresh`: no cached
directory is stale. And the page's rows say what the server said. "No circle" is `Rooted`: every set of
rows that is not empty has a row whose parent is not in it, which a step keeps if the rows that move go
under one they are no ancestors of, or become roots (`Regraft`), and which needs no walk. Each reducer
operation then has one lemma that says what it does to a sound model (`Attached`, `FilledSound`,
`DrainedSound`, `Uprooted`, `Relinking`), and a frame is their sequence (`Upserted`, `Removed`); a step
that concerns one session leaves what the other directories are read from (`Apart`). For a snapshot the
same lemmas are iterated along `built` (`Rebuilt`): after i frames the rows are those of the first i
agents (`SnapshotGrows`), and fewer agents declare no more circles (`CircleGrows`).

**TowerGateProofs.** `TypeCorrect`; under "merge" `ObjectionsAnswered`, `TestedLands`, `ScopedLands`; with
"review" `ReviewedLands` and `VettedLands`; with "status" `MergedIsLanded`, `DependenciesLandFirst`,
`OrderedLands`. `Gate` says what a call knows at each step and is kept by every other actor because
reviews and green runs are only added and, under "merge", the branch stands still. `Earned` relates the
CI record to what ran. `ReviewedLands` adds `Honest` (under "review" a verdict names the commit read),
the last three add `Backed` (under "status").

`PlansAreSound`, for a `Careful` tower: a teardown has seen to every worktree that it passed (`Passed`) and
excludes a spawn, and disjoint scopes stay disjoint as statuses change unless a merged mission is reopened
(`StillApart`). `CrewsAreSound`: loads of the mirror are ordered (`Turns`, by `earlier`), and the last to
load has what there is to show, or knows that something is missing (`Mirrored`). `ScopedLands` is about the
net difference: when a merge has passed step 7, `Listed` is empty, and under "merge" it still is when the
branch lands.

**TowerCallsProofs.** `CommandsTakeTurns`: there is a numbering of the runs in the order they were
chained (`RunOrder`), under which each run waits for the unsettled one before it and the map's entry is
the last while any is unsettled; the identity check of the pruning is what keeps the entry.
`WaitsAnswerTruly`: what is out of `todo` and not in `open` was merged (`WaitIsTrue`), until a mission
is reopened.

**ProjectBoardsProofs.** `TypeCorrect`, with `Locked`: a project's file is locked by exactly the
migration that is between its copy and its return. `AcknowledgedIsKept`: under "quiet", and if
rotation does not fail, no acknowledged record is lost, for any number of processes, projects and
requests, concurrent admin requests included, whichever of the other steps fail and whoever
crashes. NothingLost is not inductive: a rollback takes records away, a prune deletes files. The
invariant says what is *firm* (`Solid`: a project's records without those a running migration can
still take back). `Stored`: every acknowledged record is in the workspace's board or firm.
`Spare`: whatever is in an archive of the workspace is firm, so pruning it loses nothing.
`Duplicated`: what a migration will rename away, it has copied, or it is firm already. `Peace`
turns "quiet" into a fact about the calls in flight.

`BoardsStayReachable`: under both disciplines, and if neither rotation nor unwinding fails, at rest
every record that is owed can be read, no alias is left with an archived project but one whose archiving was
cut short, and a detach can restore unless a record went astray; folds of the registry may fail.
BoardsReachable speaks of rest, so the invariant says what holds on the way. `Current`: a projection
believed fresh is the registry. `Resolved`: a write under way goes to the board a reader will look at.
`Migrating`, `Separating`: how far an adoption or separation is and what can be undone from there.
`Owned`: an archived project has the alias only while the request that archived it is about to drop it.

`HandoffsAreClaimedOnce`, `NotesStayAndShow`, for any links between workspaces and projects. `Told`: a
stamp is the stamp of one version. `Placed`: a handoff has one place that no adoption moves. `Knows`: a
request that nothing overtook knows the entry as it is. `Patches`: a clean patch is still there or was
overridden by a later one, never taken back by an older stamp under way.

**StatusStreamProofs.** `PagesShowTheFold`, `OnlyTheIdleGo`, `OnlyTheSeenIsReplaced`. The page's rows are
the fold's up to what is buffered, marked or dropped, which is inductive with the types; `KeyInv`: a key
of state.json is recorded as it is read and versions only grow. `DueInv` is what makes the sweep safe: what
the watcher owes an agent is folded, old enough, or among the records its tail still has to read.
`BoardInv` of BoardPage: whatever answers arrive in whatever order, a form and a request pair a text with
the version that text is of.

*Left to TLC.* Liveness and ENABLED, which the prover does not handle. The library's induction theorems
take an operator and cannot be used with the installed provers; what can is the minimum of a set of
numbers (`WFMin` of WellFoundedInduction), from which BusPageProofs and SharedFilesProofs derive induction
on a set of numbers (`Induct`): for the snapshot's loop, for the lines of a text, and for the functions
that the changes of a save and the comments of a text are defined by. The other proofs do without: their
modules say with a quantifier what they could have said by recursion, or recur as often as a step has
events (`Ingested`, three at most). Modules that are proved about reach no RECURSIVE operator.

## 6 Known divergences

Places where the code does something else than a comment, a document or a test says. lock_race is
a run; the other configurations of the table are kept to reproduce the counterexample:
`tlc -config X.cfg M` with M the part of X before the underscore (ProjectBoards_unwind with
MCProjectBoards, SharedFiles_quotes with MCSharedFiles). Each reports the property as violated.

| configuration | property | what happens |
|---|---|---|
| AppendLock_race | Exclusive | Two waiters judge one orphaned lock stale; the second unlinks the lock the first has just created, and both run fn. append-lock.ts:78: "Run `fn` while holding the exclusive append lock" |
| DebateHub_waitturn | WaitEndsAtTurn | A wait parked before the start sleeps through its turn until the cap; startDebate wakes nobody. modules/debate/index.ts:48: "Long-poll until it is this agent's turn" |
| DebateHub_lostnote | NoNoteLost | Notes written while archiveTask awaits its file write go with the scope (board.ts:1087) |
| BoardStore_update | MutationsReplaceWhatTheySaw | A peer's append between a mutation's fold and its append is overwritten. board.ts:493: "Atomically inspect and mutate one scope" |
| BusOwnership_walk | OneBus | With the requested port taken, a second session meets the first on the next port before it has advertised it. bus.ts:289: "they detect 'moamcp holds this port'" |
| BusOwnership_portfile | ForeignFileKept | A process that gives up its port removes the bus.port of its successor. bus.ts:243: "and still owns it" |
| SharedFiles_quotes | EverySaveIsExact | After a string that closes with four quotes, the last of which TOML counts to the text, the lexer is inside a string and misses the next header: a save edits, or a deletion takes along, another binding's table (agent-config.ts:424). agent-config.ts:406: "tracking TOML basic/literal multi-line strings" |
| ProjectBoards_unwind | NothingLost | A step after the rename fails; alias and target are unwound, the records stay in an archive that the next migration prunes. project-migration.ts:236: "the migration stays all-or-nothing" |

Further ones, each seen on a counterexample or in the reading that a module required. Those that
come with a dropped discipline show by removing its word from the configuration's `Discipline`.

*Debates.* result.json of a task completed early says initialized or debating
(docs/frontend-bus-contract.md:108 lists `complete|closed`; DebateHub `ResultStatusIsFinal`). Posts of a
session that reuses another's Bus are not awaited in order (server.ts:85) and may overtake each other or be
lost. After a reconnect the card appends the replayed turns again (debate-card.ts:1029), and a turn that
arrives after the full transcript repeats a line. A second moa_complete rewrites board.jsonl as empty
(state.ts:423: "empty file when the debate never used the board"; `ArchiveOnlyGrows`), and one that fails
half-way leaves a torn layer in the archive of a task that stays closed (state.ts:396-422 empties each file
before it writes). A run first heard of after a takeover stays "initialized" (run-read-model.ts:191). A torn
result.json under a repeated complete is passed over in silence by the card (debate-card.ts:923). The
archive index may build one summary from two versions of a file that is rewritten in place, and, where inode
numbers exist, does not call that FILE_CHANGED.

*Append lock.* A live holder slower than staleMs loses its lock and later removes the newcomer's.
append-lock.ts:16: "presumed to belong to a crashed holder".

*Boards.* The second append of a mutation fails and the first stays in the file (board.ts:493,
`MutationsAllOrNothing`). Two processes stamp the same millisecond and a wait since the first is not told
of the second (board.ts:1547, `NoUpdateHidden`). A rejected write is returned by later reads of its process
(board.ts:338, `NoPhantom`), and its entry hides a peer's write of the same stamp from waiters. After a
project is released the next fold wakes no parked waiter (board.ts:1065), which is harmless: nothing writes
to that scope any more.

*Projects.* Without "quiet" a write between the migration's read and rename is in an archive only, and
pruned with it. A second operation of a process resolves on the projection that a pending fold has emptied,
and any on one that a failed fold has: it writes the legacy file of an aliased workspace, where no reader
finds the record (board.ts:1187 promises the opposite; 1214 has "degrades to legacy workspace resolution"),
and the live legacy file then keeps a later detach from restoring the archive. Without "serial" the later
archive of two concurrent adoptions wins, whatever it holds, and an alias added while its project is
archived stays. A crash or a failure between the archive record and the removal of the aliases leaves them,
and a workspace with such an alias can be adopted by nobody.

*Handoffs and tips.* Newer rows of other kinds crowd tips out of a capped scan. An outbox has one limit for
all boards: with more sent handoffs than the limit the oldest are not shown, whatever board they are on. A
handoff to an archived project is acknowledged and reaches nobody (handoff.ts:340). A workspace file left
over by a migration yields rows twice in the outbox. A tip changed on one side after a detach and on the
other before a second adoption keeps the newer version whole, so an acknowledged change of the other field
goes (project-migration.ts:183-240 copies whole entries; Notes `Forked`). One corrupt entry fails a whole
inbox or outbox. Two processes that race for one handoff may both be told they have it (index.ts:117;
BoardStore_update at work).

*Board page.* A form can be closed by the answer to the save of the form before it (pages/board.ts:267).
The pane shows the old entry after a save until the list arrives. The conflict's reload button
does nothing for a new entry. Between processes mutateBoard's stamp check (control-plane.ts:1163) is no
better than mutate, and equal stamps on two boards would not be told apart.

*Tower.* A commit after the tip gate lands with the merge, which names the branch (tools.ts:801; without
"merge"). A verdict carries the tip of its submission, not the commit read (tools.ts:780; without "review").
Changes outside the scope that a later commit takes back land in the base's history, and a file renamed from
outside into the scope lands without a word (git.ts:132 lists the net difference, renames under their new
name; store.ts:2252: "every file the branch changed must fall inside the mission's declared scope globs"). A
survey whose changes cancel each other out closes as one without changes. Teardown unlinks uncommitted links
in a worktree's root without force (store.ts:2401), and leaves the guard mirror of a crew that is gone when
it cannot be deleted (store.ts:1058). A worker patches its mission to merged and opens the dependency gate
(store.ts:1633; without "status"). startCi looks whether the tree is clean while an earlier command may be
running in it (store.ts:1222), records a dirty tree past the chain (1231), and a late record lands in a
namespace that was cleared. The timeout kills only the shell of a CI command: while a process that it
started holds the pipes, neither "close" nor a record comes, and every later run of the worktree waits
(store.ts:302: "null when killed by the timeout"; TowerCi `Hang`). waitForCi may answer with the record of
an earlier run (1304). Identity: fold data that is missing counts as a denial (tools.ts:480); a new
registration keeps the old verdict until the next look (903-945); two names may register one engine id
(806). Two overlapping syncs may rename an older mirror over a newer one (1054); plan, merge and scope
changes do not refresh it. Reopening a merged mission may make scopes overlap; circular dependencies are
accepted; a teardown that overlaps a spawn, or a crash between the removal of the mirror and the clearing of
the namespace, leaves remains.

*Status.* A client that connects while the first read is under way gets a partial snapshot and none of the
marks (broadcast.ts:18 accepts it; StatusStream `PageCatchesUp`), and rows that turn stale by the clock
are not pushed. A record that was folded while omkc still owned the row is never looked at again when omkc
has gone silent (state.ts:168, `SilentOmkcYields`). An orphan leaf
keeps an old status (status-model.ts:418, StatusPage `LeafIsCurrent`). A wire file rewritten at the same
or a greater length goes unnoticed, and so do the records that were unread when it was cut short, for
which the sweep may drop an agent that was active (watcher.ts:505-510; EvictsOnlyTheIdle is about what
the watcher has sized). A parent that state.json alone names is not marked
dirty. The lineage of an evicted agent that comes back is lost; a child refused because it would close a
circle is not taken up again when the circle is gone. A response whose body never ends leaves the debate
card without a timer.

*Agent configuration.* What an editor writes while a rename is being retried (up to some 750 ms,
fs-utils.ts:38-45) is overwritten unseen. A saveBindings that changes nothing in an absent file answers
with the hash of an empty text, so the next save is refused. Deleting a binding takes the comments that
stand before the next table along. On the page, the raw editor and the bindings editor share one hash
(web/pages/agents.ts), so that a save of one may follow an unseen change by the other (i18n.ts:138: "load
the latest version before saving again").

## 7 What is not modelled

- *Tower controller, routes and command line*: one store or git operation each; the operations are modelled.
- *HTTP control plane, tool adapter, servers*: routes and tool registrations with validation in front of
  one operation. The routes of tips, handoffs and boards are in Notes and BoardPage.
- *Web pages* other than the status model, the debate card and the board view: the agents, projects,
  tips and handoffs views and the rendering, texts and filters of all.
- *Auto-open, disk version, constants*: browser launch, a version file.
- *Prompts, commands, skills* and the generated *bundles* in `dist/`.

Sizes, value limits and input validation are left out everywhere: they refuse a call before it changes
anything. Of git, only what the store asks of it is modelled (tip, diff since the merge base, a merge that
lands or stops half-way, worktrees), and of the file system atomic appends, renames and unlinks, plus
rewriting in place in ArchiveIndex. Path functions are not modelled; of TOML, TomlPatch has the lines.
