# Formal models of Takosumi Mobile

Takosumi Mobile is a client for self-hosted instances: a phone app (Android, iOS) and a
desktop app that open each connection in a profile of its own, and a push relay that carries
an instance's Web Push messages to phones. This directory holds TLA+ models of its stateful
parts, the TLC runs that check them and proofs about them that TLAPS checks.

Paths below are relative to `src/` (the repository). `PROJECT.json` maps every definition that
models code to its lines, every property to a mutation of the model that breaks it, and every
hazard to its line.

## 1. Inventory

| Part | State | Operations | Models |
| --- | --- | --- | --- |
| Push relay, `relay/src` | D1 tables `devices`, `subscriptions`; nothing else survives a request | register, update and delete a device; add and delete a subscription; push; daily purge | `PushRelay`, `TokenRegistry` |
| Relay counters, `relay/src/rate-limit.ts`, `push.ts` | D1 table `rate_windows` | `admit`, delivery counters, `breakerOpen`, purge | `RateWindow`, `PushLimits` |
| Phone notifications, `src/push-manager.ts` and the files it calls | relay device, records, pending removals, prompted accounts; native keys; the instance's pushers | enable, disable, check, reconcile, token refresh, sign-out | `PushManager` |
| Desktop browser process, `native-tests/cef-candidate/src/process_main.rs` | windows, creations, task queue, recorded shutdown, pipes | open, shutdown, native callbacks, end of input | `BrowserProcess`, `BrowserAlone` |
| Desktop adapter, `process_adapter.rs` | tracked processes, request numbers, doubt, exit phase and code, one lock | open, clear site data, `request_exit`, shutdown, `terminal` | `BrowserAdapter`, `ProfileLease`, `ExitLatch`, `ProfileClear` |
| Browser guard, Linux, `guard_main.rs` | the browser's process tree as seen through `/proc`, retained pidfds, the drain's phase, the receipt | start, watch, observe, reap, drain, report | `BrowserGuard` |
| Browser guard, Windows, `guard_windows.rs`, `windows_job.rs` | a Job Object, handles of its processes, counts | start, wait, terminate, count, report | `WindowsGuard` |
| Setup, `process_setup.rs`, `process_setup_windows.rs` | candidate places, the runtime root, bundled executables | plan, locate, private root, recheck before each spawn | `BrowserSetup` |
| Runtime directories, `process_setup.rs` | `p-<pid>-<n>` directories, a lock file in each | claim, create, lock, remove, sweep | `RuntimeDirs` |
| Windows pipe and identity, `process_windows.rs` | the writer thread of the control pipe; the process a reply names | write until a deadline, close; verify parent, times and image | `PipeWriter`, `OpenedIdentity` |
| App screens in the web view, `desktop.rs`, `profile_reset.rs` | `SCREENS`, the latches of clearings, handlers nested on the UI thread | open, popup, act, close, clear an idle profile, shut down | `WebScreens` |
| Resume navigation, `resume_navigation.rs`, `resume_navigation_macos.rs`, `resume.rs` | the navigation state of a home; the file of last pages | load, history and URL events of three engines; record, recall, clear | `ResumeNavigation`, `ResumeStore` |
| Browser experiment, `native-tests/cef-candidate/src/main.rs` | roots, windows, the recorder's evidence | create, popup, close, record | `BrowserCandidate` |
| Native push plugin, `src-tauri/plugins/push` | keys, pending tap and its token | message, tap, take | keys only, in `PushManager` |
| Client (`src/*.ts`), keystore plugin, Android and iOS screens, `models.rs` | mostly rendering, validation and pure choices | | not modelled |

How the parts interact. The phone (`PushManager`) calls the relay's device API and the
instance's pusher API; the instance pushes to the relay's endpoint and drops a pusher on 404
or 410. The desktop adapter talks to each browser process over two pipes, and a guard
process owns each browser and reports, by its status, whether it ended normally.

What is hard, and where:

- *relay*: every `await` lets other handlers run; a row read before it is stale after it; the
  clock is read before the statement that stores it, which waits; a batch may fail after an
  earlier one committed;
- *phone*: four parties (phone storage, relay, instance, native plugin) are changed by separate
  calls, any of which may fail, take effect and lose its answer, or be cut off by a kill; a state that
  cannot be read counts as an empty one and is saved over what was stored;
- *desktop*: three threads and two processes share one profile; replies arrive after their
  deadline, and on Windows requests too; a shutdown may be cancelled by a page's dialog, noticed or
  not; a browser may die with work left;
- *guards*: ids are reused and orphans reparented between any two looks at `/proc`; on Windows
  an exit code, the end of job membership and the signal of a handle become visible one by one;
- *files*: several App instances share a runtime root, a profile's cache root and a file of
  last pages, and crash anywhere;
- *UI thread*: building or destroying a native view pumps events, so that handlers run within
  one another, and engines report a load's URL before it succeeds and after it was replaced.

## 2. Modules

`RateWindow` <- `PushLimits` <- `MCPushLimits`, `PushLimitsProofs`;
`TokenRegistry` <- `PushRelay` <- `MCPushRelay`, `PushRelayProofs`;
`BrowserProcess` <- `BrowserAlone` <- `MCBrowserAlone`, `BrowserAloneProofs`;
`BrowserProcess`, `ProfileLease` <- `BrowserAdapter` <- `MCBrowserAdapter`, `BrowserAdapterProofs`;
`PushManager` <- `PushManagerProofs`; it sees the relay one call at a time;
`BrowserGuard`, `WindowsGuard`, `RuntimeDirs`, `BrowserSetup`, `ResumeNavigation`, `WebScreens`,
`ProfileClear`, `PipeWriter`, `ResumeStore`, `BrowserCandidate`, `ExitLatch`, `OpenedIdentity`
<- `MCDesktop`; `RuntimeDirs` <- `MCRuntimeDirs`. Proofs: `BrowserGuardProofs` (both guards), `RuntimeDirsProofs`,
and over `MCDesktop` and these two `DesktopProofs` (the two kinds of clearing, resume navigation and last pages,
setup, identity, the experiment, pipe writer and exit code, and all of them together).

### PushRelay

`devices` and `owner` are the two tables (a row, or `None`; a subscription's device, or
`None`); `req[r]` is a handler, whose `stage` is the await it waits at and whose fields are the
locals that outlive it. Each D1 statement, `db.batch` and platform call is one action:
`CreateDevice` and `UpdateDeviceToken` are the batches that supersede other holders of the
token, `Prune` the deletion after a registration, `FindEndpoint` .. `RecheckDevice` the push.
The relay reads the time before it awaits the statement that stores it: `start` is the moment from
which a touch or a move may have read its time, and `TouchDevice` and `UpdateDeviceToken` store any
time since then, over whatever `seen_at` holds (`store.ts:133`, `:151`, without `MAX`). `lag` is history:
how old such a time was when it set `seen_at` back.
`Fail` is a D1 call that throws (500); `Purge` is the cron. `issued` keeps random ids from being
issued twice. `TokenRegistry` is the abstract promise of relay/README.md, "One active device
per token": a relation between devices and tokens of which `Take` hands one token to one
device and `Lose` takes tokens away. The refinement maps its `holds` to the active rows.

### RateWindow and PushLimits

`RateWindow` translates `UPSERT`, `PEEK` and the start of a window as operators. `PushLimits`
composes them as `handlePush` does: peek and count in `Admit`, a second batch in `AdmitFirst`
for an endpoint's first push of the window, `CountDelivery` after the platform's answer, and
`Breaker`. `events`, `sent` (of each endpoint and, under the key "device", of the device),
`overshare`, `invalidated` and `unfair` are history: what happened in each window, against which
the rows are judged. `Prompt` restricts the model to handlers
whose counter statements run in the window they started in.

### BrowserProcess and BrowserAlone

The reader thread posts each line as a task (`Post`) and the UI thread runs one task or native
callback at a time: those are the actions. A handler calls others and replies several times, so
handlers are operators on an *effect*, the browser's state with the replies written so far
(`RequestClose`, `NextToClose`, `CloseAll`, `MaybeQuit` ...). Two of them leave something behind for
good. `OpenScreen` counts a creation before it looks for the profile's context
(`process_main.rs:738`); without one (`ContextInitialized` has not run) it answers an error and the
creation stays counted: it is in `creating` under no key, and no callback takes it out. And `Stay`, the person's cancel of a closing, may go
unnoticed, because a dialog's event over 8192 bytes or one that does not parse is dropped (`:629`); the
window's watch is then "missed" and the shutdown stays recorded. `BrowserAlone` puts one browser
under a parent that sends arbitrary requests, stale or out of order, or hangs up.

### BrowserAdapter and ProfileLease

A job is one call of the adapter on its thread. `lock` is the mutex of the backend, held
over every wait; `phase` is the atomic exit phase, written outside it; `process[p].uncertain` is
the adapter's doubt about a browser whose answer it did not get in time. The browsers are those
of `BrowserProcess`, not an abstraction. Deadlines may pass at any moment (`GiveUp`). A write that
fails is not made, or, on Windows, one that timed out goes on in the writer's thread and the request arrives
all the same (`Send`, `Close`; `process_windows.rs:398`). An open's `opening` is not set then
(`process_adapter.rs:1156`), so `recover` reads its late `opened` and settles nothing; the ghost `late` names
that open until an error answers it.
`GuardEnds` is the guard's outcome. `ProfileLease` is the abstract promise: a profile's data is
leased to one launch at a time, and after an abnormal end to none.

### PushManager

Operations go through `serial`, so there is one `job`, whose `at` is the call it awaits.
`rows` and `home` are the relay's tables, `pushers` the instances', `native` the plugin's keys,
`device`, `records`, `pending`, `prompted`, `touched` what the phone stores. Each relay or
instance call either succeeds or, as a `Fault`, fails with or without having taken effect.
The phone's own storage fails too. `loadState` takes a state it cannot read or parse for an empty one
(`push-manager.ts:194`), so a change of the state may save an empty one over what was stored
(`StateUnread`, `unread` in a job that goes by such a read, in `Commit`, `MarkPrompted`, `StartRetries` and
`WriteLeft`), and a device that does not parse is none (`DeviceUnread`). A failed read of the time of
the last touch is `TimePasses`; one that makes a check or a disable find no record changes nothing. `forgotten` is history: the
subscriptions whose record or removal was lost in one of these ways, or cut off the full list of removals.
Around the job act the person (`SignOut`, `SignIn`, `PersonRemoves`), the platform
(`TokenRotates`, `KeysLost`), the instance (`KeyRotates`, `Push`), the relay (`Purge`), time and
`Crash`. `Settled` is the composed effect of `PushRelay`'s register and update statements.

### BrowserGuard

`table` is the kernel's process table: per id the state, start time, parent and (history) whether
the process descends from the guard. Forks, ends, reparenting to the subreaper, reaping and other
programs' processes on freed ids are `World`. The guard's `pc` names its next system call:
`Prepare`, `ParentDies` (the App's death before and after the death signal is armed), `Spawn`,
`Observe` .. `Keep` for one observation (start time read, `pidfd_open`, walk up the ancestry,
links read again in `Walk` and `Again`), `Reap`, `Tick` while it watches, `Signal` and `Final` in
the drain, `Write` for the receipt. `handles` are the retained pidfds.

### WindowsGuard

`task` is what the kernel knows of a process: its life, exit code, job membership and whether its
handle is signaled, changed one at a time. The guard reads counts, then the list, then opens each
id (`OpenListed`), then reads each signal and code after `Terminate`; `forced` is its count.
`ended` and `spare` are history: what the termination really ended, and the reasons to
count more (late entrants, reused ids, programs that return 259 themselves).

### RuntimeDirs

Two Apps over one root. A directory is an inode, so that a name removed and made again is told
apart; `holder` is the lock on an inode's lock file, which outlives its link. Each system call is
a step: `CreatesLock` and `Locks` are two on Linux and one on Windows, `Unlinks` and `Rmdirs` go by
name. Where the directory is gone by then, `Locks` also makes it again, without a lock file, as
`private_directory(runtime/tmp)` does before the guard starts (`process_adapter.rs:867`): who removed
the lock file held its lock until the directory was gone, so nobody else is at that name in between. `use` is what an App does to which name and why (a sweep, the first look of a claim, the second,
or its own directory). `AppDies` at any step; a restarted App sweeps first.

### BrowserSetup and OpenedIdentity

`BrowserSetup` walks the candidates of `plan`: each place is seen once, created, and seen again
(`RootEntry`, `CreateRoot`, `Recheck`) while `Races` creates it first; on Windows `Swap` replaces a bundled
executable until `RecheckExecutable` has looked at each. `OpenedIdentity` is `native_owned`: handle,
parent, creation times and image, over ids that are reused and parents that are gone.

### PipeWriter and ExitLatch

`PipeWriter` is `Input`: the caller hands a request to a thread that writes it in pieces, waits until
its deadline, and closes by setting a flag and cancelling the write in progress. `ExitLatch` is the
exit's two atomics, `latch` and `code`, loaded and stored one at a time by the UI thread
(`RequestExit`, `CompareLatch`), the worker (`DrainCloses`, `ExitsWithCode`, `ResetsCode`, `ReopensLast`) and
the command (`ShutdownBrowsers`, `ReopensFirst`, `ResetsLast`), whose failing drains undo them in opposite orders.

### WebScreens and ProfileClear

`WebScreens` keeps a `stack` of handlers that wait for a native construction: while one is built any
other handler may run within it. The checks of `open_on_ui_thread`, of `create_screen` after each
construction and of `begin` and `finish` are guards of the steps that make them. `ProfileClear` is
`clear_site_data` with several App instances over one cache root: look at the singleton, rename, list,
remove, against browsers that create the root and take its singleton.

### ResumeNavigation and ResumeStore

`nav` is the code's `State` with its operations as operators (`BeginNav`, `CommitNav`, `FinishNav`, `GtkFailed`);
the engine's events are actions, one set for GTK, WebView2 and WebKit, over what is really shown
(`doc`). `ResumeStore` is the file of last pages, read, changed and renamed by homes that do not know of
each other.

### BrowserCandidate

The experiment's windows and channel: `queued` roots, created and closed browsers, the message loop that ends
after the last, and the recorder, which announces the roots when each one's frame is known.

### MCDesktop

The twelve modules above share no variable, so one run checks them all: `part` names the one that
runs, and the others stay at one initial state. A behaviour of the run is a behaviour of one part, and
nothing else is claimed: their interplay with `BrowserAdapter` is stated in words where one relies on
another (a guard's outcome is `GuardEnds`, the exit phase is `phase`, a clearing is `Clear`). Its invariants
are conjunctions by topic: `TrustedSpawn` (setup, executables, identity), `LastPageTrue` (resume
navigation, resume store), `ClearsSafely` (both kinds of clearing), `QuitsRightly` (exit code, end of the loop, roots announced).

## 3. Runs

| Run | Instance | Shows |
| --- | --- | --- |
| `PushRelay_tables` | 3 devices, 2 tokens, 1 subscription, 2 handlers | one active row per token; 410 only for a device that was invalid or gone while the push ran; a row is invalidated only for its own token; refinement of `TokenRegistry` |
| `PushRelay_time` | 1 device, 3 subscriptions, 2 handlers, clock to 1 day | types and foreign key; `seen_at` is behind a delivery by less than a day and the age of a late touch or move; at most one subscription over the limit per other handler |
| `PushLimits_prompt` | 2 endpoints, 2 handlers, 5 pushes, 2 minutes in one breaker window | endpoint limit, fair share, device ceiling up to the race, breaker thresholds, honest counts |
| `PushLimits_late_endpoint` | 1 endpoint, `Prompt = FALSE` | *violation*: a late handler resets the count |
| `BrowserAlone_any` | 2 requests, 2 screens, popups | quits empty, answers once, asks the oldest only, shutdowns are decided unless a creation without a context or an unnoticed cancel keeps them |
| `BrowserAlone_limit_doc` | 2 requests, popups fill the screens | *violation*: an admitted screen gets no answer |
| `BrowserAdapter_two` | 2 profiles, 2 keys, one window born per browser, 3 calls, one browser that ends badly | types; late answers never mislead; doubt has a cause; one window per screen; data cleared alone; a finished exit phase; orderly quits; refinement of `ProfileLease` |
| `BrowserAdapter_decided` | 2 profiles, 3 calls | a latched quit ends |
| `PushManager_switches` | 2 accounts, 2 events | types, removals remembered unless a failed read forgot them, no renewal on a guess, clean reconciles, convergence |
| `PushManager_removed_doc` | 1 account, 2 events | *violation*: "removed" without a removal |
| `Desktop` | each of the twelve parts at the bounds below | signals reach only the browser's own tree; receipts are true on both systems; a locked runtime directory stays; trusted roots, executables and identities; the last page, and that it stays recorded; clearing; whole requests on the pipe; the exit code |
| `RuntimeDirs_sweep_doc` | 2 Apps, 3 names | *violation*: a sweep between a lock file's creation and its lock |

Bounds. Two handlers are enough for every stale read and write of one other, and
`PushRelay_tables` gives them three devices, so that a token can be taken from a row that is
itself being moved. Days are one clock unit and retention periods zero or one, so that the purge
meets live handlers; `PushRelay_time` has the first day and the next, which lets a handler's time be a
whole day old when it is written. `PushLimits_prompt` has limits of two with five pushes: below, at and past
each limit, in two minutes, and a breaker that applies its ratio from the second delivery on. Two launches
per profile follow from three calls; `MaxBorn` bounds
the windows born in a browser: one in `BrowserAdapter_two`, so that popups stand only where no screen does
there, and popups beside a screen are left to `BrowserAlone_any` and to the theorems, which have no bound; `MaxRequests` (numbered after the boot request) what a parent sends. In
`PushManager` an event is a failed or lost call, a failed read, a crash, an operation of the person or an
outside change; the list of removals holds two, and that the third pushes out the first is beyond two events
and left to `RemovalsAreRemembered` and `ReconcilesClean`; the first enable of an account, from the one-time question, is free, so
each history is two switched-on accounts and any two things that go wrong. 
`Desktop`: three ids and three births let the browser's id, or an id whose start time was read, be
taken over by a stranger or by an orphan of the guard while a chain is walked; two failed ticks and
one signal after the phase without one reach every branch of the drain. Two processes in a job are the
browser and one that enters late or whose id is reused. Two Apps with a name each, a name
left behind and three directories give every order of claim, sweep, lock and crash. Four loads
reach a failed load, its successor and a late event of each; four requests to exit reach one within
each store of a failed drain. Two windows, two homes and two nested handlers are one handler within each
construction.

Symmetry is used in safety runs only, over ids that are compared for equality alone. In `Desktop` the
ids `x` and `y` stand in several parts and change places in all of them at once. Deadlock
checking is off: slots, jobs, ids, time and events are used up, and the last state is a stop the
bounds make.

Fairness.

- `BrowserAlone`: weak fairness of the UI thread, the reader and native callbacks, which the
  operating system schedules, and of the person's answer to a dialog.
- `BrowserAdapter`: weak fairness of each call's next step. A thread that runs goes on, and each
  of its waits has a deadline (`GiveUp` is such a step), so nothing is asked of the browsers.
- `PushManager`: weak fairness of a job's step (awaited calls end), of time and of pushes; strong fairness, for each account, of its check or queued sign-out cleanup, and of
  `Reconcile`, each of which is enabled only between other operations: the queue `serial` runs them in
  order, and the person comes back to an account and launches the app again. Nothing is assumed to be repaired
  without that; a slot need not go. Faults stop because the events are bounded: `Converges` is about what follows
  the last of them.

## 4. Proofs

- `PushRelayProofs`: `Invariance` shows `TypeOK /\ OneActivePerToken` inductive. Uniqueness needs
  the types (a handler at stage "commit" holds a token and a device), and the types need each
  stage's fields (`StageFits`); nothing else is needed because one batch supersedes and
  writes. `RelayImplementsRegistry` maps each handler step to `Take`, `Lose` or a stutter, using
  `OneActivePerToken` to know that a moved token had no other holder left.
  `InvalidationsHaveCauses`, an action property, follows from the same invariant, statement by
  statement. `GoneAnswersAreTrue` and `DeliveriesKeepSeen` relate rows to what happened while a
  handler ran, so their invariant `HInv` adds that a row with a history has an issued id
  (`Fresh`: a registration never revives one), that a row was seen no earlier than delivered to and
  no earlier than any running push read it, but for the age of what set it back (`Aged`), that a handler has no status before its
  answer (`Answering`) and that a push that read an invalid row has seen one (`ReadIsSeen`); what a
  step may do to one row and to one handler is said once (`Steps`) and shown of every statement.
  `OvershootIsBounded` counts: subscriptions held and handlers about to insert one, together, pass
  the limit by at most the other handlers (`Room`). Assumptions: `LimitAssumption`,
  `NoneAssumption` (a missing row is not an id, a token or a row), `FiniteAssumption` (finitely
  many subscriptions and handlers, without which the excess has no number).
- `PushLimitsProofs`: `CountsAreTrue`, for late handlers too (any value of `Prompt`): whatever the
  order of statements, purges and windows, no row counts an event of another window. The
  strengthening `LInv` adds the types of the rows, the history and the handlers' locals: a row
  and the history of its window grow together, so the bound itself is inductive.
  `EndpointsAreLimited`, `FairShareIsKept`, `InvalidationsAreLimited` and `CeilingIsBounded`
  have the hypothesis `Prompt`, for finding 2 shows them false without it. Then the current window's count is
  not only honest but exact (`Exact`), and each limit is a count of handlers in flight: pushes sent
  and admitted ones against the endpoint's row (`Admitting`), first pushes against active endpoints
  (`ActiveOnce`), deliveries against invalidations (`Invalidating`), pushes past the device's
  budget against the other handlers (`Ceiling`). Assumptions: `LimitsAssumption`,
  `BucketAssumption`, `FiniteAssumption`, `PurgeAssumption` (the purge keeps two hours of
  windows, more than a window lasts; otherwise it would delete a running count).
- `BrowserAdapterProofs`: `AdapterInvariance`. `TypeOK` is not inductive by itself; the
  strengthening `IInv` adds who holds the lock (`LockHeld`), one quit at a time (`Latched`),
  which stages a kind of call has (`StagesOfKinds`), that an ended guard is not running
  (`EndedGuards`), numbered launches (`LaunchOrder`), what the holder knows at each stage
  (`Knows`), and that a stored exit means every browser ended (`AllEnded`). From it:
  `FinishedIsEnded`, `ClearIsAlone`, `OrderlyQuit`, and `ImplementsLeases`, the refinement of
  `ProfileLease`. The browsers' steps enter through one lemma (`NativeKeeps`): they change none
  of the adapter's variables.

  The second part is about the conversation of the two sides. `ConversationInvariance`: the
  adapter's last request stands in exactly one place (`Conversation`) - unread in the pipe, a
  posted task, the boot's creation, a creation, a recorded shutdown, the one reply not yet taken,
  or nowhere - and no reply of an earlier request is ever left. `TalkInv` adds the browser's own
  shape (`Fine`, `Screens`: one window of each screen, none of the screen being created, nothing
  in a browser that quits), what the holder of the lock waits for (`Awaits`), and `Certain`: who
  owes something is in doubt or waited for. Each handler of the browser is first shown to end in
  one of three ways - it says nothing, refuses the recorded shutdown, or stops (`Ends`) - and this to
  move the conversation on (`EndsFollows`, `HandleFollows`); then each action of the browser
  (`NativeMoves`, `TalkNative`), each end of a guard and each step of a job keeps it. From it follow
  `ScreensHaveOneWindow` and `CertainIsQuiet`, with no hypothesis. `DoubtsHaveReasons` needs
  `Doubted` (a browser in doubt or waited for has a reason, `late` being one) besides, and the hypothesis
  `MaxBorn < MaxScreens`: by finding 3 a browser full of popups drops a creation without an
  answer, and then a doubt has no reason left. Assumptions of both parts: `BrowserAssumption`,
  `AdapterAssumption`.
- `BrowserAloneProofs`: `AloneInvariance`, for a parent that sends any requests in any order. `Good(b, t)` relates
  a browser `b` to all it said, `t`: only the oldest window is watched (`OldestOnly`), a quitting browser has
  nothing (`EmptyAtQuit`), final answers have different ids and stop with stopped (`OnceEach`), what was answered was
  admitted (`Known`), what is being created (`Making`) and the recorded shutdown (`Stopping`) were admitted and are
  not answered, and the end of input, the one task whose id is not new, comes once (`OneEnd`). A handler
  is a chain of effects, so each operator of the chain has a lemma that it takes a good effect to a good one
  (`GoodEff`), and a step of the UI thread appends the effect's replies (`NowKept`). From it: `QuitsWithNothingOpen`,
  `AnswersEachOnce`, `AsksTheOldest`. On `Good` stands a second invariant, `SInv`, for the safe part of
  `ShutdownDecided`: windows have ids of their own (`Apart`), a browser that lost its parent has forced all of its
  windows (`Lost`), an ordinary shutdown has nothing pending (with anything
  pending it is refused), and the window it closes is the oldest and is observed, about to be, or was asked in
  vain, its cancel unnoticed (`Going`), and after each handler a recorded shutdown waits for a window or a creation (`Held`,
  which only `MaybeQuit` restores). `Apart` is what makes the comparison of `chain` with the closed window's id
  tell the asked window from the others (`GoneSteady`). From it `PursuesTheShutdown`: `Spec => []ShutdownPursued`,
  an ordinary recorded shutdown has an oldest window it asked, and one of a lost parent has forced every window and
  waits for one or for a creation. Whether that window or creation ends is not said: the two of `Stuck` may not.
  Assumptions:
  `BrowserAssumption`, `AloneAssumption`.
- `BrowserGuardProofs`: `GuardInvariance`. What makes signalling safe is that a pidfd, the start time
  read before it and the links read twice are all of one process. `Forest` types the process table
  and relates it to itself (`Kinship`: a process with a living parent is of that parent's tree, and who
  has the guard as parent descends from it; `Rooted`: there is no circle of the guard's processes
  without a link out of it), `Grows` says that a process which is still there keeps its start time and its
  tree, `Seeing` what each step of an observation has established, `Watch` what the guard knows at each `pc`, and
  `NoneLeft` that after an empty observation without children nothing descends from it. From it:
  `GuardSignalsOnlyOwn` and `GuardSupervises`, for any number of ids, births, failed ticks and
  phases. Assumption: `GuardAssumption` (the guard, strangers' parents and marks are not ids).
  `GuardTypes` adds the bounds. `TypeOK` says of a walk up to the guard that it has at most as many links as
  there are ids; that follows from `Straight`, for a link is appended only if its id is not on the chain yet, and
  a function that is one to one into the ids has no more arguments than there are ids. That start times stay
  within `MaxBorn` is counted too (`RoomToStart`): an id that started as many processes as its start time says has
  as many elements in `Born`. Only these need `PidAssumption`: the kernel has a largest process id.
  The Windows guard (`JobCountsForced`): `JobInv` says what each life, code, membership and signal of a process
  implies (`LifeOf`), what the guard has not looked at yet (`Phases`), and keeps the books (`Accounts`): the total it
  read and the unlisted processes it may still end are within those that ever were in the job, and the count so far
  is covered by the ended ones counted and by late entrants, reused ids and programs that return 259.
  The kernel's steps are one lemma (`KernelSteps`), since each of them changes one process. Assumption:
  `JobAssumption` (finitely many processes, without which nothing is counted).
- `DesktopProofs`, the screens: three inductive invariants, each about what was looked at before a step and is
  used after it.
  `WebInv` (theorem `WebClearsSafely`) is about handlers nested on the UI thread: what the frame of each
  waiting handler still implies (`FrameHolds`: a clearing that began while a screen of the profile is
  being built is marked so, a clearing's frames carry the number in its latch), what any two of them
  know of each other (`Nested`, for every pair of the stack), and what a latch says of the data
  (`OpHolds`, `OwnIds`). Pushing, popping and turning the top of the stack are three lemmas
  (`FramePushed`, `FramePopped`, `FrameTurned`), which every handler cites.
  `ClearInv` (`ProfileClearsSafely`) is about several Apps on one cache root: a browser in the
  root that is in place holds its singleton, and took it late if a clearing has looked (`Holds`); and what was
  there when a clearing began is out of place once it renamed, and what is left of it on its list (`Gathered`).
  `NavInv` (`ResumesWhatWasShown`) is about three engines' events: the load under way is the
  pending one (`LoadPends`), and a navigation that counts as successful shows what it says
  (`SuccessShows`). Each operation of the code's state has a lemma that says what it returns.
  Assumptions: `ScreensAssumption`, `ClearAssumption`, `NavigationAssumption` (the error page and no
  page are not pages).
- `DesktopProofs`, the rest: six more parts and the composition. Each part has an inductive invariant with a lemma for its
  start (`..Begins`), its steps (`..Kept`) and its use (`..Shows`) and a theorem of its own
  specification; `PartSteps` says that a step of the desktop is a step of each part or leaves it,
  and so `DesktopTrusted`, `DesktopCounts`, `DesktopResumes`, `DesktopClears`, `DesktopWrites`,
  `DesktopQuits`, `DesktopSupervises` and `DesktopDirsStay` state the run's invariants for `DesktopSpec`.
  Setup (`SetupInv`): a replaced executable stays replaced until it is looked at (`StillSwapped`).
  Identity (`IdentityInv`): who names the guard as parent and is not older than it was started by it
  (`MadeByGuard`), and what each check has established (`Verified`).
  The experiment (`CandidateInv`): the count is that of the living (`CountTrue`), owners stay, and a profile has one root.
  Pipe: `PipeStaysOrderly`. `OnePending` says where the one request is (queued, being
  written, or answered), `PiecesCounted` how many pieces are in the pipe, `FlagRead` that a write begun
  after the flag was the one it was set under.
  Last pages (`StoreInv`, theorem `RecordsStay`): a record that was not overtaken ends with its home's page and is
  the file's list with that page (`PendingHolds`), and behind a home's entry stand only entries of homes that
  recorded since (`StoredHolds`), so that it is cut only when there are as many of those as the list holds
  (`AsManyOthers`).
  Exit: `ExitsAsAsked`. `AskTrue`, `CodeTrue` and `QuitTrue` say whose code is stored
  between the two atomics. Assumptions: `IdentityAssumption`, `CandidateAssumption`, `WriterAssumption`,
  `StoreAssumption`, `ExitAssumption`, and those of the other parts' theorems.
  `DesktopTypes` is the types of every part (`DesktopTypeOK`). Besides the Linux guard, six parts keep a bound their invariants do not
  imply, and each has a lemma `..Bounded` that the bound holds at the start, is kept, and gives the types:
  a load moves the navigation's number on twice, when it begins and when it ends (`NavBounds`); the screens alive
  and the ones whose view is being built together stay below the limit and the nesting (`WebBounds`: a handler looks
  at the number before it nests others, so the number alone is not inductive); the pipe carries pieces of
  requests that were given (`PipeBounds`); the latch is taken while a drain runs (`ExitBounds`); a process counted
  as forced is counted once, and what entered late at most as often again (`JobBounds`); and a frame of the
  experiment is told of after its window (`AllTold`), while the roots still queued are those of the requests that have
  none (`QueuedTrue`).
  Besides, `WindowsAssumption`: the experiment's windows are finitely many, for CEF numbers its browsers with
  an `int`.
- `RuntimeDirsProofs`: `LockedStays`. A locked directory is in danger from every App that looks at its
  name, so the strengthening says what each App knows of its own name (`Alone`), what two Apps at one
  name know of each other (`Pair`: whoever judges a used directory has its lock file in hand, and
  nobody removes it), that a name not made yet has no directory, and that who removes a
  directory left under such a name holds its lock (`Passing`). The actions fall into ten cases by
  the record they give their App, one lemma each. Assumption: `RuntimeAssumption`, which says that a name
  is used once, by one App.

- `PushManagerProofs`: `WInv` is the typed invariant: besides the types it says what a job holds at
  each stage (`Stepping`), that the record it found was recorded and the one it makes is new
  (`Naming`), that the record it replaces is still the account's (`Replacing`), and that what a
  retry has left is pending (`Retries`). Every step also satisfies `Stays`: a subscription that is off
  the phone's relay device stays off, because ids are issued once and a new device has none. On both
  rests `SInv`: a stale record is off the device (`Stale`), nothing is on a device just
  registered (`Marking`), a removal past its relay call is done or marked for later (`Reached`), a
  retry's queue and rest cover what is pending, where that could be read (`Retrying`), and what a
  calm reconcile has still to clean (`Cleaning`). From them `TypeCorrect`, `ChecksAskFirst`,
  `RemovalsAreRemembered` and `ReconcilesClean`, the last two for any number of failures: what a
  failed read of the state makes the App forget, and what `slice` drops as the oldest of more than
  `MAX_PENDING_REMOVALS` = 64 removals, is in `forgotten`, and the properties are about everything
  else. Assumption: `ManagerAssumption` (bounds are numbers, there is a token and a key,
  no record is `None`).

Only model-checked: everything temporal under fairness (`ShutdownDecided`, `QuitDecided`,
`Converges`), which is out of the prover's reach (`PursuesTheShutdown` is what of `ShutdownDecided` needs no
fairness). Every invariant and action property of a passing run is
a theorem. `PushLimits` has no type invariant among its runs' properties: its types are part
of `LInv`. Three kinds of statement are out of TLAPS's reach and stay with TLC: liveness under
fairness and `ENABLED`; what a recursive definition or a fold computes for every input, which
needs an induction theorem no backend can instantiate (so `sent` keeps the device's sum
beside the endpoints' counts, as `device` stands beside them in the table); and anything about a
`RECURSIVE` operator. No module here declares one, so the other properties of the list can still
be proved.

## 5. Findings

1. *Runtime directory* (`RuntimeDirs_sweep_doc`). `lock_runtime` creates the lock file and locks it in a
   second call; on Linux the sweep of an App that starts in between takes the free lock, unlinks
   the file and removes the directory, and the first App then locks an unlinked file. It makes the
   directory again for its browser (`process_adapter.rs:867`), which so runs in a directory that has
   no lock file (`process_setup.rs:422`; `process_adapter.rs:786` says that a sweep leaves a locked
   directory alone). `LockedDirStays` is what holds: a directory whose lock file was
   still there when it was locked stays.
2. *Endpoint limit* (`PushLimits_late_endpoint`). `UPSERT` overwrites a row of *any* other window,
   and a handler keeps the time it read before it verified the message; one that outlives its
   minute resets the current count (relay/README.md:85). The same overwrite lets
   `FairShareKept` and `BreakerHolds` fail when `Prompt` is `FALSE`.
3. *Unanswered open* (`BrowserAlone_limit_doc`). Popups that take the last places while a screen is
   being created make the browser close that screen without a reply; `process_adapter.rs:2194`
   says a refused creation leaves nothing pending. The App's open times out, and since no
   late answer will come the profile stays in doubt, which opens and quits wait on, until that
   browser ends. `BrowserAdapter_two` therefore keeps its popups below the screen limit:
   `DoubtHasReason` is about every other doubt.
4. *Removed by nobody* (`PushManager_removed_doc`). The relay answers 410 for a token that was
   rejected before the phone sent its new one; the instance drops the pusher; the next check's
   probe repairs the device, finds it alive and concludes that the person removed it
   (`src/push-manager.ts:482`). The same happens after a kill between saving a new device and
   marking the records stale.

Noted without a run, as a property that holds already says how far each goes:

- Touching a device or updating its token stores the time its handler read at its start
  (`devices.ts:123`, `:199`), without the larger of the two, so `seen_at` may be set back below a
  delivery of a later day. `DeliveryKeepsSeen` allows for exactly the days such a handler took.
- An open that is handled before the profile's context is made stays counted for good
  (`process_main.rs:738`), so every later shutdown is refused, and the browser of a lost parent does not
  quit by itself; and a cancel whose dialog event is dropped (`:629`) leaves the shutdown recorded.
  `ShutdownDecided` names both (`Stuck`).
- The late write of a timed-out open (Windows) leaves a doubt that only the browser's end removes,
  though `process_adapter.rs:1264` counts a late verified creation among what makes the profile usable.
  It is the reason `late` of `DoubtHasReason`.
- A read of the phone's state that fails, or finds what it cannot parse, counts as an empty state
  (`push-manager.ts:194`), and the next change saves that: a pending removal is then forgotten, though
  `:362` says that a relay which cannot be reached gets the deletion later. `forgotten` holds these.
- The subscription limit of relay/README.md:61 is passed by concurrent handlers, as `createSubscription` counts
  in one statement and inserts in another; `SubscriptionOvershoot` bounds the excess, and the text
  states no bound under concurrency.

## 6. What is not modelled

- *relay*: VAPID, body encryption and parsing (no state); the cached OAuth token and provider
  JWT (per isolate); the per-client registration windows and the subscription windows, which use
  the same counters one at a time.
- *browser*: `Close` and its `pending_close` (the App never sends it); malformed packets;
  `OpenExternal`; focus, loading and raising; wrong-identity replies.
- *adapter*: which processes `terminal` drops; the status report; failures after a guard was
  started; the default client windows. Runtime directories, the exit code and the file steps of a
  clearing are modelled apart from the adapter's jobs.
- *guards*: the texts of errors, descriptor limits, argument decoding; a job with more processes than
  the 1024 ids `windows_job.rs:229` lists.
- *setup*: path spelling, the stop event's name, `ShellExecute`. A runtime directory without a lock file is
  never swept; the model keeps it, and no property asks for its removal.
- *web view*: which links and navigations are allowed, per-platform view settings, the validation in
  `models.rs` (pure).
- *resume*: which URLs are rememberable is the constant `Safe`; parsing of the file is `Broken` or not.
- *phone*: other relay origins and platforms than the build's one; a check or an enable that fails
  before it changes anything; the pending tap of the native receiver.
- Android and iOS screens, the keystore plugin, the client's rendering and routing, deployment: reasons in
  `PROJECT.json`.
- Integer overflow of request ids (64 bits, one per call).

## 7. Plan

Done: every module of section 2, and the proofs of section 4.

Next models: `TapTokens` (the pending tap between receiver, plugin and home), `OpenRouting`, the registration
and subscription windows of the relay, the hand-off between Android activities; and `BrowserGuard` under
`BrowserAdapter` in the place of `GuardEnds`.

Next proofs: the safe parts of `QuitDecided` and `Converges`, and the refinement of `BrowserGuard`'s end by the
end of a guard in `BrowserAdapter`.
