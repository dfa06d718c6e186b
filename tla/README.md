# GoodVibes Agent: verification development

GoodVibes Agent (`src/`) is a terminal operator assistant. One process owns a
terminal, a conversation, a local orchestrator and a set of registries on disk,
and talks over HTTP and an event stream to a connected GoodVibes daemon that
runs sessions, approvals, schedules and channels. The agent and turn engine
itself is a dependency (`@pellux/goodvibes-sdk`) and is not in the repository.

What is hard in this code is time: one event loop with many awaits, a daemon
that moves on between them, two connections that carry the same news, a disk
shared with other processes, an install that replaces its own files, and a
screen that is patched while an answer streams. That is what the modules here
model. They are written from the code, and each states what the code promises in
its own comments, docs or tests where it does.

Contents: 1 inventory, 2 plan, 3 modules and code, 4 runs and bounds, 5 fairness,
6 proofs, 7 assumptions about what is outside, 8 disagreements noted, 9 conventions.

## 1. Inventory

### 1.1 Components that are modelled, wholly or in part

| Component | Code | State | Operations | Interacts with |
| --- | --- | --- | --- | --- |
| Approvals view | `runtime/client/approvals-view.ts`, `shell/approvals-binding.ts` | rows and reason of the last read, subscription, opening flag, live flag, timer, single-flight promise | `refresh`, `openStream`, `onUpdate`, `onTerminate`, `tick`, `start`, `stop` | daemon: `approvals.list`, `control.approval_update`; panel and `/health approvals` read it |
| Remote conversation router | `runtime/client/remote-conversation.ts`, `shell/remote-conversation-wiring.ts`, `main.ts` | hosted id, stream handle, stream positions | `submit`, `createHosted`, `watch`, `stopWatching`, refusals | daemon: `sessions.hosted.create`, event stream, `sessions.steer`; local orchestrator as fallback |
| Hosted turn stream | the `watch` half of the same file | resume position per session, a gate and a renderer per message | open, resume, deliver, reconnect, terminate, close | SDK event stream and turn gate; renderer; completion promise |
| Hosted frame renderer | `runtime/client/hosted-frame-render.ts` | accumulated text, pending tool calls, usage, turn text, streaming and finished flags | one case per frame type, `abandon` | conversation: streaming block, assistant messages, tool results |
| Hosted turn activity | `shell/hosted-turn-activity.ts`, `shell/remote-conversation-wiring.ts`, `main.ts` | ownership of the one `isThinking` flag | `begin`, `end`, cancel | orchestrator (the flag's other writer) |
| Self update | `input/commands/update-runtime.ts`, `cli/launch-auto-update.ts`, `runtime/periodic-update.ts`, `runtime/self-update-receipt.ts` | live, kept, incoming and scratch copies of binary, addon and driver; receipt log; launch guard in the environment | check, apply, three swaps, rollback, receipt, hand-over | releases; other agents of the same install; the idle gate |
| Permission card | `permissions/broker-approval.ts`, `shell/command-context-ui.ts`, `shell/blocking-input.ts` | the one `pendingPermission` slot | local ask, broker change, deferred open, answer key | local approval broker; main conversation (abort) |
| Hosted session hand-off and mirror | `runtime/client/hosted-handoff.ts`, `hosted-session-mirror.ts`, `runtime/services.ts` | session of each conversation; stored transcripts, last-session pointer | promote, steer, 404, decline; mirror after a turn, recovery at boot | inbound dispatch; daemon; the agent's session store |
| Memory, daemon adoption and boot | `runtime/memory-spine-adoption.ts`, `daemon-build-compatibility.ts`, `daemon-receipts.ts`, `bootstrap.ts` | adopted or local, dispatch on or off, the build guard's verdict, receipts kept for the shell | reconcile, adopt, release, refuse, consume receipts, attach the sink | daemon's health and receipt routes; memory spine; transcript |
| Wake detection and voice capture | `audio/wake-runtime.ts` | the held listener, the models on disk | `refresh`, `start`, `stop`, teardown | configuration rows; SDK wake listener; the model fetch |
| Store files | `utils/store-file.ts` | the last update chained for each path | enqueue, run, settle, drop | every registry that reads, changes and writes one file |
| Agent registries (calendar subscriptions) | `agent/calendar-subscription-registry.ts` | a list of records, a URL per secret key | `subscribe`, `unsubscribe`, `refresh` | the queue above, the secret manager, feeds on the network |
| Onboarding | `runtime/onboarding/apply.ts`, `verify.ts` | the rollbacks of a request | validate, build a rollback, apply, verify, roll back | settings, secrets, profiles and registry files |
| Occasions | `runtime/occasions-nudge-surface.ts`, `agent/occasions-nudge.ts` | the token last said, by stream | pull after a turn, say, remember | daemon's occasions route; transcript |
| Renderer (palette) | `renderer/terminal-palette-reader.ts`, `terminal-palette-probe.ts` | the round, its window, what was published, retry timer | start, input, resize, window, retry | the terminal; the theme |
| Session commands | `input/commands/session-workflow.ts`, `session-content.ts`, `shell-core.ts`, `fresh-conversation.ts`, `shell/startup-wiring.ts` | transcript on screen, session id in use, pointer, files, rewind anchors | submit, auto-save, resume, load, save, rename, fork, delete, clear, reset, exit, recovery | session store, orchestrator |
| Work tree | `core/work-tree-model.ts`, `renderer/lane-graph/layout.ts` | none of its own: rows are a function of a growing transcript | call, start, spawn, end, fold; rows, lanes | transcript and agent manager |
| Transcript display | `core/conversation.ts`, `conversation-line-cache.ts`, `conversation-display-only.ts` | buffer of lines, cache of units, start line of the streaming block, kept prints | add a message, stream, finalize, print, flush, resize, take back, reset | orchestrator, hosted renderer, notices; the frame |
| Configuration (workspace register) | `config/workspace-registration.ts`, `cli/workspaces-command.ts` | the register all products share, two receipts | import of the older list, marking, register, unregister | other products' writes; automatic checkpoints |
| Channel drafts | `agent/channel-draft.ts`, `tools/agent-harness-comms.ts` | the drafts in a mirror file, each with a status and whether the daemon holds it | save, queue, deliver, mark | daemon's draft store; channel router; other agents that share the file |

What makes each correct, and what makes that hard:

- **Approvals view.** The panel must converge to the daemon's record, must not
  leak event streams over stop, restart and reconnect, and must not show an ask
  going backwards. Hard because the list read and the stream are two writers of
  one map, and `stop()` can fall inside any await.
- **Router.** A message runs on exactly one machine and always somewhere.
  Hard because the daemon may act and its reply fail, sessions end under the
  router, and `main.ts` does not wait for one submission before the next.
- **Turn stream.** Each renderer gets its own turn, whole and once, and each
  completion settles. Hard because streams are per message, sessions and
  positions are not, and a fresh gate binds to whatever comes first.
- **Frame renderer.** Text appears once, in order, on the right side of the tool
  calls, and a broken turn leaves nothing open. Hard because text is cleared and
  refilled between calls and any frame may be the last.
- **Turn activity.** The spinner means work, and one writer never clears the
  other's. Hard because one controller stands for overlapping messages.
- **Self update.** Three artifacts of one release, a way back, an honest receipt,
  no restart loop, no restart in mid-turn. Hard because of crashes between
  renames, several agents and no lock.
- **Permission card.** No card for an ask that is decided, no waiting ask without
  a card. Hard because there are three writers of one slot, and an open that is
  deferred to a microtask.
- **Hand-off.** An inbound message is answered once, by one side, in the one
  session its conversation is mapped to. Hard because the mapping is read before
  an await and changed after it, and a late 404 deletes it.
- **Mirror and recovery.** What a hosted session said comes home whole and never
  shrinks. Hard because mirrors of one session are not serialised and the surface
  dies in mid-turn.
- **Adoption.** A usable daemon is used, an unusable one is not and is refused out
  loud, and what it delivers once is shown once. Hard because probes, verdicts and
  reconciliations overlap and the daemon is replaced behind them.
- **Wake detection.** Off is off; every open microphone can be closed. Hard
  because two row changes overlap a model fetch that takes minutes.
- **Store files and calendar.** Changes of a file take turns, a slow or failed one
  wedges nobody, and a merge after a fetch undoes nothing. Hard because the fetch
  is outside the turn.
- **Onboarding.** All or nothing, and nobody else's change is undone. Hard because
  rollbacks themselves fail, and operations on one place nest.
- **Occasions.** Said once while open. Hard because pulls overlap.
- **Palette.** Colours are asked for until they come, and not lost to a later
  round. Hard because four timers and a late terminal race.
- **Session commands.** A completed turn is in a saved session from then on, and
  the pointer reaches it. Hard because eight commands each change two of
  transcript, id, pointer and file.
- **Work tree.** Every call is drawn once, by start time, on a lane that is open
  there. Hard because nested lanes are merged by times that may be missing.
- **Transcript display.** What is on screen is what a rebuild would draw. Hard
  because a streaming answer is patched at a line number remembered from before.
- **Workspace register.** What the owner removed stays out, what he chose stays
  chosen, nothing else is marked. Hard because import, marking and receipts are
  separate writes of processes that may die between them.
- **Channel drafts.** A composition is never lost to a busy daemon, is marked as held
  there only if it is, and is sent once. Hard because the file is read before an
  await and written after it, and because a failed delivery may have arrived.

### 1.2 Components that are not modelled

| Component | State and operations | Reason |
| --- | --- | --- |
| Fleet and daemon verbs (`fleet-union.ts`, `daemon-verbs.ts`, REST transports) | pure unions, one call each | the unions are planned as operators, the rest is I/O |
| Channel delivery and routing (`agent/channel-*.ts` but the drafts) | a delivery, its receipt, the count of those in flight | one request and its receipt; the profile routing is planned |
| Schedules, routines, reminders | single requests, receipts | the clock that fires them is the daemon's |
| Inbox, payments, outward gateways | parsing and single calls | no state across calls |
| MCP and tool permission (`runtime/mcp-lazy-start.ts`, `tool-permission-safety.ts`) | one single-flight promise; a pure classification | the first is one assignment (`connecting ??=`), the second a table |
| Terminal shell and input (`src/input/`, `src/shell/`) | key handling, modal stack, history | synchronous; modal stack and history planned |
| Away digest (`shell/autonomy-surfacing.ts`, `core/away-digest.ts`) | a time stamp and one read at launch | planned; section 8 |
| Playback (`audio/player.ts`) | the one process that plays | planned; section 8 |
| Tools, command line, capabilities, providers, scripts, tests | wording, drawing, one-shot calls, reports | no state that outlives a call, or build tooling |

Left out of the components of 1.1: the text assembly of memory and prompts; the
repair offer (`runtime/daemon-repair.ts`); the construction of the service graph;
recording and inference; the status machines of the other registries; the
notification feed and the modal stack; slash commands other than those of a
session; drawing other than the lane layout; secrets and the single rows of the
configuration.

## 2. Plan

The order is that of what the person would lose if it went wrong: an approval,
a message, an answer, an install; then a session, a setting, the screen.

Done:

1. `ApprovalsView`, with `ApprovalsView_proofs`.
2. `RemoteRouting` over the abstract `TurnPlacement`, with `RemoteRouting_proofs`;
   `HostedHandoff` over the same abstraction.
3. `HostedTurnStream`, `HostedFrameRender`, `HostedTurnActivity`, `HostedMirror`:
   the views of one hosted turn, and its way home.
4. `SelfUpdate`.
5. `PermissionCard`.
6. `StoreFileQueue`, `CalendarSubscriptions` over it and over the abstract
   `SubscriptionList`; `WakeRuntime`; `DaemonAdoption`; `OnboardingApply`;
   `WorkspaceRegister`; `ChannelDrafts`.
7. `LiveSession`, `TranscriptDisplay`, `WorkTreeRows`, `OccasionsNudge`,
   `PaletteReader`: the terminal's side.

Proved: the safety properties of all of these, of the work tree only its types
(section 6).

Left, in this order:

- Theorems: `TurnIsDrawn`, by following the merge of a lane's rows into its parent's.
- The union of local and daemon approval rows (`unionApprovalRecords`) and of the
  fleet as operators against reference definitions.
- The notification feed and toasts, the modal stack, the away digest, playback,
  the registries' status machines, the repair offer, profile routing of channels.

Composition: `RemoteRouting` says which machine a message runs on and in which
session; `HostedTurnStream` takes one live session and says which frames reach
which renderer; `HostedFrameRender` takes one renderer's frames, in order and
once, and says what they write; `TranscriptDisplay` takes those writes and says
what is on screen; `HostedTurnActivity` is driven by the same submissions, and
`HostedMirror` brings the finished turn into the sessions that `LiveSession`
saves and resumes. The interface is the message: submitted, routed, completed.
What one module takes for granted the one before it has as a property
(`WatchedByOne`, `RenderedOnce`, `WholeTurn`). `PermissionCard` and
`ApprovalsView` are the two readers of one approval: the broker in this process
and the daemon's record. `CalendarSubscriptions` extends `StoreFileQueue`: its
calls are the updates of that queue.

## 3. Modules and code

Modules named `MC...` only give TLC its constants. `Shell` and `Services` put the
parts of the terminal's side and of the runtime's beside each other, each an
instance of its module over variables of its own, and name there what each part
promises; `MCShell` and `MCServices` check these on small instances, and the proof
modules `Shell_proofs`, `Turn_proofs`, `Screen_proofs`, `Services_proofs` and
`Registers_proofs` prove them for any. Proofs of the other modules stand in `<module>_proofs`.

**`ApprovalsView`.** A row map holds a status per ask. `hostRows`, `hostReason`,
`subscription`, `opening`, `liveUpdates`, `timer`, `started` are the closure
variables of `createApprovalsView`; `reads` are requests by phase (sent, answered
by the daemon, landed), which is how a reply can be older than a frame. Actions:
`Start`, `Stop`, `Tick`, `Refresh` (single flight in `StartRead`), `ReplyLands`,
`ReadFails`, `OpenLands` (adopts the handle, or closes it after a stop),
`OpenFails`, `OnUpdate`, `OnTerminate`. The daemon (`Transition`, `AnswerList`,
`AttachStream`, `LinkDrops`, `LinkReturns`) is external. An unreadable record is
one that fails `isApprovalRecord`: dropped from the list with a reason, ignored
as a frame.

**`RemoteRouting`** and **`TurnPlacement`.** `pc` is the await a submission is at;
between two awaits any other submission may step. Every error path of `submit`,
`createHosted` and `watch` is an action: refused up front, create failed, stream
did not open, session gone (404, 409: forget and recreate once), steer failed.
`RunHere` is the refusal followed by the local orchestrator. `LossyReplies` says
whether the daemon may act on a call whose reply then fails. `TurnPlacement` is
the promise: a message is placed once, on one machine, for good.

**`HostedTurnStream`.** `log` is the session's frames, `position` the remembered
event id, `feed` the open stream, `bound` the gate of the newest renderer.
`Watch`, `OpenLands`, `SteerLands` are `submit` with `watch`; `Deliver` is
`onEventId` and `onEvent`; `Reconnects` is the SDK's own reconnect; `StreamEnds`
is `onTerminate` and `onClose`. The mishap `rerun` is a tail that brings a finished
turn once more, and not only its ending (section 8). Recovered at install and
disposal are left out.

**`HostedFrameRender`.** One action per frame type and `TurnBroken` for
`TURN_ERROR`, `TURN_CANCEL` and `abandon()`. A text is the sequence of pieces the
model produced; `Flush` is `flush()`, with `CloseStream` in it. The daemon's part
in each action decides only which frame comes.

**`HostedTurnActivity`.** `Begin` and `End` are the controller, `Send`,
`Routed`, `Refused`, `RefusedUpFront`, `Completed` the wiring around it,
`Interrupt` is `cancelGeneration` of `main.ts`. A refusal and the local turn that
follows it are one step because the code has no await between them.

**`SelfUpdate`.** `disk` has, for each artifact, the release under each of its
names. The binary's and addon's swap is the SDK's and atomic per call; the
driver's `swapDirectory` and `rollbackDirectory` are this repository's and go one
call of the disk at a time (`Extract`, `ClearKept`, `ParkDriver`, `Promote`;
`DriverBack`, `SetAside`, `Restore`, `Keep`). Between two steps a process may
crash, a call may throw, and another process may work on the same files. `Resolve`
is `applyUpdate` asking for the latest release a second time, `Finishes` the
receipt, `HandsOver` the new binary with `LAUNCH_UPDATED_FROM_ENV` set.

**`PermissionCard`.** `changes` are broker changes not yet handled, `opens` the
deferred opens. `HandleChange` and `DeferredOpen` are
`handleBrokerApprovalChange`; `RequestPermission` is `requestPermission` of the
command context; `Key` is the answer in `handleBlockingShellInput`, which takes
the card down, settles the ask, or starts `resolveApproval`, and aborts the turn
on a denial.

**`StoreFileQueue`**, **`CalendarSubscriptions`**, **`SubscriptionList`.** The
queue is `runStoreFileUpdate`: `tail` is the map's entry for the path, `Settle`
and `Drop` the update's end and the `finally` that forgets the entry if it is
still the last. Over it, a call of the registry is fetch, section, end: `FetchFeed`
and `FetchAgain` are outside the queue, `Enter`, `StoreUrl`, `WriteAdded`,
`DropUrl`, `WriteRemoved`, `Merge` inside it, each with its failure.
`SubscriptionList` is the promise: a set of names, each call one step.

**`HostedHandoff`.** `Promote` is the runner of `services.ts` handing an inbound
message to `hosted-handoff.ts`; `Created`, `Steered`, `CallFails`, `SessionGone`
are its awaits' outcomes; `Decline` and `Refuse` the setting and the build guard.
`Place` maps its state to `TurnPlacement`.

**`HostedMirror`.** A session is its number of turns. `TurnEnds` starts a mirror;
`Attach` is the reply of `sessions.attach`, with `Persist` writing store and
pointer; `Boot`, `List`, `RecoverNext`, `RecoverDone` the recovery pass, bounded
by `MaxRecovered` and in the order of the sessions; `Crash` ends the process with
its mirrors.

**`DaemonAdoption`.** A reconciliation is probe, judgement, adoption, receipts,
each behind an await: `Probed`, `Judged`, `Observed`, `Consume`, `Land`. `Push` and
`AttachSink` are the receipt feed, which keeps what arrives before the shell has a
transcript; `Refuse` is the build guard's announcement.

**`WakeRuntime`.** `Configure` is a row change and the refresh it starts;
`Settles` the end of the await the refresh is at (provisioning, then opening);
`Latch` the SDK's listener giving up; `TearDown` the shell's end.

**`OnboardingApply`.** An operation leaves a mark at one place. `Check` is
`prevalidateApplyRequest`, `Build` and `Apply` one operation's rollback and
change, `Verify` the look at every mark, `RollBack` one undo of the reversed list;
any may fail. `Interfere` is a change by somebody else.

**`WorkspaceRegister`.** A process is at one read or write of
`migrateLegacyWorkspaceRegistryIfNeeded`, `backfillCheckpointEligibilityIfNeeded`
or the SDK store's `add` and `remove`; it may crash at each, and another may step
between any two. `Launch` is the start of the agent or of a `workspaces` command,
which imports but does not mark. `word` is the owner's last word on a root.

**`ChannelDrafts`.** `ComposeNew` and `ComposeAgain` are `channelDraftSaveHandoff`,
`Queue` is `channelDraftSendHandoff`; both go through `saveDraft`, which reads the
file (`Offer`), asks the daemon (`Takes`, `Refuses`) and writes (`Write`). A send
goes on with the delivery (`Delivers`, `DeliveryFails`) and its mark (`Confirmed`,
`Unconfirmed`), which reads and writes in one synchronous stretch and so is one
step. `deleteDraft` and `syncChannelDrafts` have no caller and are left out.

**`OccasionsNudge`.** `TurnCompletes` asks, `Answers` is the daemon, `Lands` the
answer arriving, in any order; `ledger` is rebuilt from the last answer as in
`decideOccasionsRaises`.

**`PaletteReader`.** `reader` is the reader and its current probe as one record:
the round, whether its window is open, what it took, what was published, the retry
timer and the spacing. Two of `Input`'s bits matter: replies, and anything else.

**`LiveSession`.** `screen` and `files` are sets of turns. Each command is one
action with its whole handler: what it saves, loads, re-homes and points to.
`TurnCompletes` is the append and the auto-save, `Killed` and `Exit` the two ends
of a launch, `Restore` and `Discard` the recovery prompt.

**`WorkTreeRows`.** `Rows` computes the rows as `buildTurnModel` does: `InheritTimes`,
`InterleaveRows`, `ResolvePending`, `SpawnRows`, `AnswerAt` are its functions;
`Draw` and `Layout` are `layoutLaneGraph`. The actions only grow the transcript.

**`TranscriptDisplay`.** A line is its kind, its message and its place in the
text. `Rebuild` is `rebuildHistory` with the unit cache; `UpdateStreamingBlock`
the in-place patch at `streamingStartLine`; `Log` an output that is no message;
`Flush` the rebuild a frame begins with; `Resize`, `RemoveMessagesAfter` and
`ResetAll` what makes a remembered line number stale. None of these looks at
whether a block is open, and neither do their actions: a message may come in behind the
placeholder, and messages may be taken back or reset, in mid-stream. `Placeholder` is
then another answer or none, as in the code, and `displaced` remembers it until the
block is closed. The properties leave that time out (`Calm`), because the code does not
keep them then: section 8. The one guard on a turn is that of `StartStreamingBlock`:
who streams opens one block at a time (`hosted-frame-render.ts:189-193`). A redo, and
what `/load` reads after its reset, come back as additions.

## 4. Runs and bounds

| Run | Instance | What it asks |
| --- | --- | --- |
| `approvals_view` | 2 asks (1 unreadable), 2 streams, 2 requests, push stream on; 611k states | The mode matches stream and timer and no stream is leaked (`StreamsAccounted`), no copy leads the record (`NeverAhead`), a reply swaps the panel back only if a frame was applied while its read was out (`ReplySwapsOnlyIfRaced`); a running view converges to the record, goes live and stays live, and a stopped one comes to hold no stream (`Converges`, which includes `StoppedReleases`) |
| `approvals_swap` | 1 ask, 1 request | `NeverSwappedBack` is violated: section 8 |
| `routing_routed` | 3 messages, 2 sessions, no lost replies; 287k states | `RunsOnce`, refinement of `TurnPlacement` (`PlacedOnce`), one session for one conversation with the stream open before the steer (`OneWatchedConversation`, while no submission overlaps another's hand-off), and every message ends up running (`EventuallyRuns`) |
| `routing_lost` | 2 messages, replies may be lost | `RunsOnce` is violated: section 8 |
| `stream_dropped` | 2 turns, no reconnect | `OwnEndingAfterADrop` is violated: section 8 |
| `update_alone` | 1 agent, 3 releases (the third ships no driver, the second states the version before it), 2 faults; 199k states | `InstallIsWhole` (`Lockstep`, `DriverSurvives`), `LaunchCompletes`, and `UpdateIsAccounted` (`RollbackUndoes`, `ReceiptAnswers`) through crashes and failed writes |
| `update_shared` | 2 agents, 2 releases, no faults; 1.96M states | `UpdateIsAccounted` |
| `update_midturn` | 1 agent, 2 releases, no faults | `RestartsOnlyIdle` is violated: section 8 |
| `shell_parts` | nine parts of the shell, below; 1.20M states | `CardIsTrue`, `IndicatorTellsTruth`, `NeverClearsAnothers`, `TurnIsWritten`, `TurnReachesItsOwn`, `SaidOnce`, `ColoursKept`, `SessionsAreKept`, `TurnIsDrawn`, `ScreenIsTranscript`, `EverythingSettles` |
| `services_parts` | eight parts of the runtime, below; 310k states | `UpdatesInTurn`, `ActsAtOnce`, `OneAnswerer`, `PlacedOnce`, `TranscriptIsHome`, `NeverShrinks`, `AdoptionIsSound`, `MicrophoneIsOurs`, `AppliedAsAWhole`, `RegisterIsTheOwners`, `DraftsAreKept`, `EverythingEnds` |
| `wake_off` | 2 row changes | `OffOpensNothing` is violated: section 8 |
| `session_anchors` | 2 sessions, 2 turns, 1 launch, 1 command | `AnchorsFollow` is violated: section 8 |

Every passing run but `update_shared` also checks the types of its modules.

`MCShell` and `MCServices` check parts that share no state in one run: `part`
names the one that moves in a behaviour, and the others keep their initial state,
so that the states of the run are the sum of the parts' and not their product. It
is the union of separate runs, and no part sees another. A property of such a run
(defined in `Shell` or `Services`) is the conjunction of the properties of one part,
which its module states and comments one by one:

| Property | Part: bounds | Constituents |
| --- | --- | --- |
| `CardIsTrue` | card: 2 local and 2 brokered asks | `NoStaleCard`, `NoHiddenAsk` |
| `IndicatorTellsTruth`, `NeverClearsAnothers` | activity: 3 messages | `SpinnerMeansWork`, `WaitingWhileTurnRuns` |
| `TurnIsWritten` | frames: 3 model calls, 2 pieces, 2 tools each | `TextOnce`, `BlockIsPending`, `CallsInPlace`, `UsageOnClosing` |
| `TurnReachesItsOwn` | stream: 3 turns, 1 text frame, 2 frames of catch-up, 1 break | `OwnEndingWhenCalm`, `WholeTurn`, `RenderedOnce` |
| `SaidOnce` | nudge: 2 streams, 1 token, 2 pulls, 3 changes | |
| `ColoursKept` | palette: 2 slots, 3 rounds | |
| `SessionsAreKept` | session: 4 ids, 3 turns, 2 launches, 3 commands | `NothingLost`, `PointerReaches`, `RepliesLandHome` |
| `TurnIsDrawn` | tree: 2 agents, one nested, 3 items, 2 calls an agent, 5 times | `LanesHold`, `DrawnByStart`, `EveryCallOnce` |
| `ScreenIsTranscript` | screen: 2 messages, texts of 1 line (2 on the narrow terminal), 2 prints; while no open block's placeholder was displaced | `ShownAsRebuilt`, `EachTextOnce`, `PrintsInPlace` |
| `EverythingSettles` | stream, palette | `EveryTurnSettles`, `AsksUntilAnswered` |
| `UpdatesInTurn`, `ActsAtOnce` | calendar: 4 calls, 1 name | `OneAtATime`, `InOrder`, `OneFeed` |
| `OneAnswerer`, `PlacedOnce` | handoff: 3 messages of one conversation, 3 sessions, no lost replies | `AnsweredOnce`, `OneHost`, `MappingIsCurrent` |
| `TranscriptIsHome`, `NeverShrinks` | mirror: 2 sessions, 2 turns, 2 boots, 1 orphan read per boot | `Recovered`, `HomeIsWhole` |
| `AdoptionIsSound` | adoption: 2 reconciliations, 3 changes of the daemon | `OldIsNotUsed`, `OncePerAttach`, `NoReceiptLost`, `RefusalIsSaid` |
| `MicrophoneIsOurs` | wake: 3 refreshes | `MicrophoneIsHeld`, `OffMeansSilent` |
| `AppliedAsAWhole` | apply: 3 operations, 2 places, 1 foreign change | `FailedLeavesNoTrace`, `AppliedIsInForce`, `OthersAreKept` |
| `RegisterIsTheOwners` | register: 2 roots, one of them of the older list, 2 processes | `RemovedStaysRemoved`, `BoundaryIsExplicit`, `OptInsKept` |
| `DraftsAreKept` | drafts: 2 agents, 3 drafts, 3 calls, a mirror of 2 | `CompositionKept`, `SyncedIsHeld`, `SentOnce`, `StatusIsTrue` |
| `EverythingEnds` | every part of `services_parts` but register and drafts | `EveryCallEnds`, `EveryMessageSettles`, `PassEnds`, `Follows`, `OnIsAnswered`, `EveryRequestEnds` |

Why these bounds are enough to show the cases:

- *Approvals.* A second stream makes a leaked one visible; a second request makes
  a stacked read visible; the unreadable ask is needed for the list that is read
  and reported unreadable. Statuses only advance, so one ask passes through at
  most three transitions and needs no counter.
- *Routing.* One message overlaps the creation of a session, another its use; two
  sessions allow one loss and one re-creation, or two creations that overlap.
- *Stream.* The third turn is the first that follows a stream which was itself
  resumed after a mishap. `MaxText` and `MaxBreaks` of 1 give a late frame and a
  reconnect; a tail of 2 frames holds more than an ending, which is what binds a
  fresh gate to a turn that is over.
- *Frames.* Three calls flush text twice before the closing reply; the second tool
  of a batch is the one the code treats differently from its comment.
- *Update.* Two faults are needed for a rollback that failed, is tried again and
  fails again, the sequence `DriverSurvives` is about; three releases for a
  rollback past a release without a driver.
  `update_shared` has no injected faults, which keeps two agents within a few
  minutes; a rename whose source another agent took away still throws there. The
  crashes are in `update_alone`, which checks the same property.
- *Card.* Two asks of each kind, so that each may crowd out and be crowded out by
  one of its own kind and one of the other.
- *Calendar.* One call of each kind and a fourth to come behind them: the third in
  a queue is the first that can be let past by a wrong drop. Calls of one name are
  the ones that collide; those of two names meet only in the queue.
- *Hand-off.* A session that is lost, the one created again, and a third created by
  a message that overlaps; the third message sees which mapping was left.
- *Mirror.* With one orphan read per boot, two sessions leave one unread.
- *Adoption.* Old, gone, good again takes three changes; the second reconciliation
  is the heartbeat's that overlaps the boot's.
- *Wake.* On, off, on again before the first fetch has ended.
- *Apply.* Two operations nested on one place and one elsewhere, in every order the
  code's sort allows.
- *Register.* The first process imports, or crashes doing so, or is the owner's
  command; the second is the one the first left its files to, or overlaps it. A
  command imports too, so that removal and a later start take two. Checked as well
  with 3 processes (286k states, outside the listed runs).
- *Drafts.* The third composition falls off a mirror of two; a save, a send that
  fails and a second send take three calls. Checked as well with 4 calls (226k
  states, outside the listed runs).
- *Nudge.* Two overlapping pulls, and a stream that changes between their answers.
- *Screen.* A text of one line is two on the narrow terminal, so a delta draws no line,
  one or two where there were none, one or two; a second message, before the
  placeholder or behind it, and an output on each side of the text are what moves a
  remembered line. That a text may shrink is left to the theorem.
- *Palette.* Rounds that meet, miss and are out of attempts; two colours so that
  one may be late while the other is there.
- *Session.* The boot's id, a saved one, a fork or kept copy and the next launch's;
  three commands are a replacement, a way back and one in between.
- *Tree.* An agent in an agent, two that run at once, and the answer while one runs.
- *Screen.* A question and its streaming answer, one output above and one below it.
  Checked as well with 3 messages and 2-line texts (outside the listed runs).

`CHECK_DEADLOCK FALSE` stands in the configurations of routing, of the two composed
runs and of `stream_dropped`, `wake_off` and `session_anchors`, because a
conversation whose messages have all run, a turn that is over and a part whose
bound is used up really stop. The rest are checked for deadlock. Symmetry is
used in `update_shared` alone, which checks invariants only.

History variables (`raced`, `overlapped`, `mishaps`, `crowded`, `displaced`, `dropped`, `strayed`,
`crossed`, `doubtful`, `stale`, `exposed`, `unheard`, ...) record that a condition happened; no guard of
the code reads them, with one exception: `LiveSession` ends a behaviour at
`strayed`, whose consequences section 8 gives. They let a run explore the bad cases
together with the good ones, and let a property say which case it leaves out.

## 5. Fairness

No run forces a person, the network, a release or a crash to act.

- `ApprovalsView`: a running timer fires, a frame that was written is read, a
  request to the daemon settles with an answer or a failure. Node's timers and the
  HTTP client's timeouts give this. The liveness properties assume in addition
  that the view stays started and the link stays up from some point on.
- `RemoteRouting`: each awaited call of a submission settles; `submit` catches
  every one.
- `HostedTurnStream`: awaited calls settle, the daemon ends the turns it starts
  and an open stream delivers. Streams need not end, drop or reconnect.
- `SelfUpdate`: awaited calls settle and a launch goes on (`WF` of one process's
  `Update`); nothing forces the idle loop, a command or a publication.
- `PaletteReader`: the startup round is begun, and timers fire. The terminal need
  not answer, nor the person type.
- `CalendarSubscriptions`: fetches and secret calls settle, each call by itself:
  one that is slow must not hold up the rest.
- `HostedHandoff`: delivered messages are run and calls settle. Sessions need not
  end; the setting need not change.
- `HostedMirror`: a surface that is down is started again, its pass goes on, and
  attach calls settle. Turns and crashes are not forced.
- `DaemonAdoption`: the heartbeat goes on (`watchers.enabled`), and its calls settle
  (each has a timeout). `Follows` assumes a daemon that stays as it is from some
  point on.
- `WakeRuntime`: provisioning and the opening of the device settle.
- `OnboardingApply`: the request's awaits settle.

The other modules have safety properties only.

## 6. Proofs

TLC checks the instances above; these hold for all values of the constants that
satisfy the named assumptions.

| Theorem | Statement | Argument |
| --- | --- | --- |
| `ApprovalsView_proofs!TypeCorrect` | `Spec => []TypeOK` | `TypeOK` is inductive |
| `ApprovalsView_proofs!StreamsAccountedFor` | `Spec => []StreamsAccounted` | its two conjuncts are inductive together with `TypeOK` (`StreamInv`) and neither is alone: that a stop or a drop frees the only stream needs the mode to agree with the subscription, and that adopting a handle makes the panel live needs no other stream to be held |
| `ApprovalsView_proofs!CopiesLag` | `Spec => []NeverAhead` | inductive with `TypeOK`: a status only advances, and each copy is taken from the record or from another copy |
| `ApprovalsView_proofs!RepliesSwapOnlyIfRaced` | `Spec => ReplySwapsOnlyIfRaced` | one list read is out at a time (`OneRead`), and until a frame is applied over it its answer shows nothing older than the panel (`AnswerIsNewer`), which needs that the panel is never ahead of the record |
| `RemoteRouting_proofs!RunsOnceHolds` | `LossyReplies = FALSE`: `Spec => []RunsOnce` | `RoutingInv` adds `StageTellsPlace`: the stage a submission is at determines where its message has run, which is what makes a failure at that stage safe |
| `RemoteRouting_proofs!ImplementsPlacement` | `LossyReplies = FALSE`: `Spec => PlacedOnce` | each step places a message that was nowhere, or stutters on `place` |
| `Shell_proofs!TypeCorrect` | `Spec => []TypeOK` | inductive |
| `Shell_proofs!CardTellsTruth` | `Spec => []CardIsTrue` | `CardInv` adds `DecidedFirst`: a change that closes cards is queued only once the broker has decided. Without it a card could close, or a deferred open be skipped, while its ask waits |
| `RemoteRouting_proofs!TypeCorrect` | `Spec => []TypeOK` | inductive, lost replies or not |
| `RemoteRouting_proofs!OneConversationHolds` | `LossyReplies = FALSE`: `Spec => []OneWatchedConversation` | `ConversationInv`: while no submission overlaps another's hand-off, the one on its way tells from its stage what is bound, in which session messages ran and whose stream is open |
| `SelfUpdate_proofs!TypeCorrect` | `Spec => []TypeOK` | `StageInv` adds `UpdateIsNamed`: an update under way has an asker, and a release its check found |
| `SelfUpdate_proofs!InstallStaysWhole` | `Spec => []InstallIsWhole` | `DriverInv`: one name of the driver is on disk at each step of a swap or rollback, which is why a failure between two renames loses nothing; `LockInv`: while nobody is at work the three artifacts are of one release, and otherwise as far as the one at work has come (`HalfWay`, stage by stage) |
| `SelfUpdate_proofs!UpdatesAccountedFor` | `Prebuilt = TRUE`: `Spec => []UpdateIsAccounted` | `BinaryInv` (there is a live binary, and the kept one is another) and `ReceiptInv` (of those who install, one at a time, the installed pair is the one told of, and the receipt names it) |
| `Shell_proofs!IndicatorStaysTrue`, `ClearsItsOwn` | `Activity!Spec => []IndicatorTellsTruth`, `=> NeverClearsAnothers` | `ActivityInv`: who holds the flag can be told from where the messages are (`FlagIsHeld`); of messages sent one after the other one is away at a time (`OneAway`) |
| `Shell_proofs!NudgesAreSaidOnce` | `Nudge!Spec => []SaidOnce` | what was said is remembered in the state it is in, unless an answer on its way is known to be stale |
| `Shell_proofs!ColoursStayKept` | `Palette!Init /\ [][Next]_vars => ColoursKept` | nothing is published but by a settled reader, and a settled one does not ask: no fairness is needed |
| `Shell_proofs!SessionsStayKept` | `Session!Spec => []SessionsAreKept` | `SafeToSave`: every turn that a save over the session in use would lose is on screen and in that session, or in another file. `NothingLost` alone is not inductive, because every save overwrites a file. `PointerIsAhead` is the same for the pointer |
| `Turn_proofs!TurnsReachTheirOwn` | `Stream!Spec => []TurnReachesItsOwn` | `StreamInv`: what an open stream has still to bring is of the newest turn, or an ending that its gate, being bound or fresh, refuses (`BringsTheNewest`); without a mishap, what was read was applied by its turn's renderer and what was not is of the newest (`AllApplied`) |
| `Turn_proofs!TurnsAreWritten` | `Frames!Spec => []TurnIsWritten` | `WrittenInv`: the texts of the messages come to the turn's text so far (`TextIsKept`), what is not written yet is the text of the current model call, or nothing once that has made calls (`TextIsOfCall`), and calls are of model calls that were made, each on a message (`CallsSoFar`) |
| `Screen_proofs!ShownStaysAsRebuilt` | `Screen!Spec => []Screen!ShownAsRebuilt`, which says nothing of a block whose placeholder was displaced | `ScreenInv`: while a block is open and its placeholder was not displaced, it is the last message and the buffer streams (`PlaceholderIsKnown`); the lines the cache holds are those its key tells (`CacheIsSound`), so a rebuild that uses it is one from nothing; and a clean buffer is what such a rebuild draws, with where the streamed text begins and what trails it (`CleanIsShown`). Without the latter an update could not replace the text in place: a growing text moves nothing around it (`DrawnAlike`), a printed line goes where a rebuild puts it (`PrintedBelow`) |
| `Screen_proofs!ScreenStaysTheTranscript` | `Screen!Spec => []ScreenIsTranscript`, with the same exception | adds to `ScreenInv` what the conversation keeps (`TranscriptInv`): a notice has no text, and outputs were printed in the order of their places unless the transcript was cut. A clean buffer is a rebuild from nothing, and that is followed unit by unit (`InPlace`): the lines so far say what the messages so far say (`Upto`), each output so far is on one line, in order (`Tells`), none above a text that came before it or below a question or turn that came after (`Ordered`), and the next output to print is the first that is not (`InTurn`) |
| `Services_proofs!MicrophoneStaysOurs` | `Wake!Spec => []MicrophoneIsOurs` | a listener on its way to its device is the held one or was told to stop |
| `Services_proofs!OneAnswererHolds`, `HandoffImplementsPlacement` | `LossyReplies = FALSE`: `Handoff!Spec => []OneAnswerer`, `=> PlacedOnce` | the stage of a message tells where it runs; while the messages of a conversation take their turns, the one on its way knows the session that hosts it. Each step is a step of `TurnPlacement` or a stutter |
| `Services_proofs!AdoptionIsSoundHolds` | `Adoption!Spec => []AdoptionIsSound` | `RoutingIsTold`: without overlap, a reconciliation that judges finds the routing off; `ReceiptsAreKept`: each receipt is owed, carried, buffered or shown, and in one of the last two once taken |
| `Services_proofs!StoreNeverShrinks`, `TranscriptComesHome` | `Mirror!Spec => NeverShrinks`, `=> []TranscriptIsHome` | a session that is not in doubt has one mirror at a time, which carries its transcript as it stands (`OneMirrorEach`), and a store that is behind has one on its way; `PassBrings` counts: what a pass leaves out has as many later sessions, brought or home, as a pass brings |
| `Services_proofs!AppliedAsAWholeHolds` | `Apply!Spec => []AppliedAsAWhole` | the oldest rollback of a place has what was there before the request, and a place without one is as it was (`BeforeIsKnown`): so undoing from the newest to the oldest restores it although operations nest |
| `Registers_proofs!UpdatesTakeTurns`, `CallsActAtOnce` | `Spec => []UpdatesInTurn`, `=> ActsAtOnce` | `QueueInv`: what came before a waiting update is settled or before what it waits for, and an entry is dropped only by the last that came; so one section is open at a time and what a call read in it is the file as it stands. Each call then is one step of `SubscriptionList` |
| `Registers_proofs!RegisterStaysTheOwners` | `Register!Spec => []RegisterIsTheOwners` | no root of the older list was removed before its import is done, and what a process read is the register as it is, unless another wrote meanwhile (`crossed`) |
| `Registers_proofs!DraftsStayKept` | `Drafts!Spec => []DraftsAreKept` | `HeldIsKnown`: while nobody saves a draft, the daemon has the text its mark says; `ArrivalIsKnown`: a text on its way or not called sent has not arrived, unless nobody was told |
| `Shell_proofs!ShellPartsAreTheirOwn`, `Registers_proofs!PartsAreTheirOwn` | `PartsSpec =>` the specification of each part | a step of one part leaves the variables of the others as they are |
| `Shell_proofs!ShellPartsAreTyped`, `Registers_proofs!ServicesAreTyped` | `PartsSpec => []PartsTypeOK` | the types of each part, from its invariant. The bounds of rounds, prints, boots and drafts need more: that a round begins only below the cap (`RoundsAreCounted`), that a rebuild draws what trails the streamed text at a place there is (`RebuildTyped`), that the start of the streamed text is not above the screen (`StartTyped`) and that a write cuts the drafts to their limit (`DraftHistories`) |
| `Shell_proofs!ShellKeepsItsPromises`, `Registers_proofs!ServicesKeepTheirPromises` | `PartsSpec =>` every safety property above of a part of the run; `LossyReplies = FALSE` for the second | the theorems of the parts, carried over |

`Shell_proofs`, `Turn_proofs`, `Screen_proofs`, `Services_proofs` and
`Registers_proofs` prove the properties under the names the runs check them by, each of
the specification of its part. `ShellPartsAreTheirOwn` and `PartsAreTheirOwn` carry them
to the specification of the composed run, `PartsSpec`: it implies that of every part,
because a part that does not move stutters.

**Assumptions.** Those on constants are named, in the module that declares them, and
say no more than that sets which the code keeps apart are disjoint (`HandoffAssumption`,
`FeedsAssumption`, `ConstantsAssumption`) and that bounds are numbers
(`BoundsAssumption`, `RoomAssumption`; the latter leaves an id for the session an
earlier launch saved, and lets a text have a line and the reader ask once). Some theorems
assume more, and the assumption is a case of the code and not a simplification:

- `LossyReplies = FALSE`: with lost replies `RunsOnce` is false, and `routing_lost`
  shows it; the hand-off makes its calls the same way.
- `Prebuilt = TRUE`, a prebuilt binary is published for this platform. Where none is,
  `applyUpdate` returns early (`update-runtime.ts:202-206`) and its callers go on to
  a receipt and a restart as after an update.

Where a property leaves a case out by a history variable (`crossed`, `exposed`,
`doubtful`, `overlapping`, `mishaps`, ...), its theorem leaves out the same case and no
other: section 8 says what happens there.

**Induction.** The library states induction over the numbers for an operator, which the
provers cannot instantiate. `SetInduction` of `Screen_proofs` states it for a set, from
the well-foundedness of the numbers, and so covers the folds of a rebuild.

**Texts of a turn.** `Written` flattens the sequence of the messages' texts. `WrittenInv`
needs no induction over it: `ComesTo(s, t)` says that a function that adds up `s` exists
and that any such function ends in `t`. It holds of no messages at the start, a step
that appends a message carries it from `s` to one more (`ComesToMore`), and where it
holds the flattening is `t` (`FlattenedIs`). The induction over the messages is the one
over the steps that wrote them.

**Only model-checked**, by TLC on the instances of section 4:

- every liveness property and all that rests on fairness or `ENABLED`
  (`Converges`, `EventuallyRuns`, `LaunchCompletes`, `EverythingSettles`,
  `EverythingEnds`), which are outside the prover's reach;
- `TurnIsDrawn`: a lane's rows are merged into those of the lane that started it, level
  by level, and a proof would have to follow each row through those merges. That the
  state of the tree is typed is proved;
- the properties of the runs that expect a violation, which do not hold.

## 7. Assumptions about what is outside `src/`

Modelled from how the code uses it, and marked external in the modules:

- *SDK event stream.* It never ends a stream before it has handed over the handle;
  a stream closed by the client calls nothing afterwards; on a reconnect it states
  the last id read.
- *Daemon's event log.* Ids are in order; a stream with a usable position gets
  what follows it, any other gets the tail of the session
  (`remote-conversation.ts` lines 53-70).
- *Turn gate.* `createTurnLifecycleGate` refuses an end frame of a turn other than
  the one it is bound to and lets every other frame bind it
  (`remote-conversation.ts` lines 63-70 and 271-280).
- *Daemon's turns.* One at a time per session; a turn completes on a reply without
  tool calls; the running text it sends is that of one model call.
- *Daemon's approvals.* A status only advances; a list reply is computed at one
  instant; a stream carries the transitions made while it is attached, in order.
- *Steering.* Steering a session that does not accept work answers 404 or 409, and
  any other failure leaves the message not taken, unless the reply was lost.
- *Attaching.* `sessions.attach` answers with the transcript of one instant.
- *Receipts.* The daemon hands a receipt over once; consuming it empties its list.
- *Occasions.* The token of what is open changes when its content does.
- *Inbound dispatch.* Deliveries of one conversation may overlap.
- *File swaps.* `swapFileAtomically` keeps the outgoing file, and
  `rollbackKeptPrevious` exchanges the two, each in one step. One process runs one
  update at a time.
- *Files.* A session file, a registry file and a receipt are each read or written
  in one step (`writeStoreJson` writes beside and renames). The SDK's
  `WorkspaceRegistrationStore` loads, changes and writes in `add` and `remove`.
- *Draft store.* The daemon takes a draft in one step, and its reply may be lost.
- *Channel router.* A delivery may reach its channel and the answer fail.
- *Secrets.* `set` and `delete` act on one key and settle.
- *Wake listener.* Opening succeeds or refuses; a listener stopped before it has
  opened opens nothing; an open one may latch an error.
- *Broker.* It records a change first and publishes it later, in order. Asks raised
  in this process are raised on the daemon and not published on the local broker
  (`runtime/services.ts` lines 848-857).
- *Orchestrator.* It holds the thinking flag until its last local turn ends.
- *SDK conversation.* Messages are appended at the end, and the placeholder of a
  streaming answer is updated or removed as the last assistant message
  (`test/core/streaming.test.ts` lines 28 and 75).
- *Agents.* Start and end times are the SDK agent manager's; an end is not before
  its start.
- *Terminal.* Replies may be late, out of order or lost (a multiplexer).

## 8. Disagreements noted

Six are shown by a run, with the trace TLC prints:

- **A list reply overwrites a later frame** (`approvals_swap`). A reply computed
  before a transition and delivered after its frame takes a waiting ask off the
  panel until the next read, two minutes away while the stream is live. The
  comments at `approvals-view.ts:297` and `:339` speak of one writer; there are two.
- **A steer whose reply is lost runs twice** (`routing_lost`). The daemon took the
  message, the call fails with something other than 404 or 409, and the message
  also runs here: `remote-conversation.ts:390` names this as the case to avoid.
- **A turn ended by the ending of the one before** (`stream_dropped`). The stream
  drops in mid-turn, the next message resumes inside that turn, its fresh gate
  binds to it and the old ending finishes the new renderer.
- **A restart in the middle of a turn** (`update_midturn`).
  `periodic-update.ts:185` reads the idle gate once, before the download.
- **Switched off, and the microphone opens** (`wake_off`). `start()` reads the disk
  again after the fetch of the models and not the configuration
  (`wake-runtime.ts:324`); the header (line 22) says that disabled means no device
  is opened at all.
- **Anchors of a resumed session go to the one before** (`session_anchors`). The ref
  they are recorded under changes only in `onSessionIdChanged`, which nothing calls
  (`bootstrap.ts:265` and `:431`), against `rewind-anchor-wiring.ts:34`.

The others are excluded by name in a property, or no property is stated over them:

- *Approvals.* `hostRecordRead` turns true after a pushed frame although no list
  was read (`approvals-view.ts:344` against `:71`). A transition between the list
  reply and the stream's attachment shows only at the next read.
- *Routing.* Two overlapping first messages create two sessions
  (`remote-conversation.ts:433` against header line 15). When a session was created
  but cannot be watched, the notice says its turn runs on the daemon although the
  message was never steered in (`:393`).
- *Streams.* A message sent before the turn ahead was over, or a replay the position
  could not prevent, may leave a turn with another's ending or with no completion
  (`hurried`, `replayed`). Where the daemon answers with a tail of the session that
  holds more of a finished turn than its ending, the first of those frames binds the
  new message's gate to that turn, and its ending then ends the new renderer
  (`rerun`), against `remote-conversation.ts:67-68`: "a terminal frame addressed to a
  turn this renderer is not rendering is refused". The gate's reset, which lines
  273-281 explain, meets the tail that is an ending and not the longer one.
- *Frames.* A batch of n tool calls becomes n assistant messages of one call each
  (`hosted-frame-render.ts:258` against the comment at line 31). Usage is that of
  the last model call, and is written nowhere if the closing flush is empty.
- *Activity.* A message refused while a hosted turn runs ends that turn's waiting
  state (`remote-conversation-wiring.ts:181`).
- *Self update.* After a crash between the binary's swap and the others, the next
  check says current and nothing refreshes the addon or driver. The doc of
  `swapDirectory` (`update-runtime.ts:131`) says a failure before the final rename
  leaves the existing driver untouched; between its two renames it is only under
  the kept name. A rollback after a release without a driver exchanges it for one
  of an unrelated release (`partial`). An agent that updated and did not restart
  still states its old version: applying again keeps the new binary as the
  previous one, where the repository's `README.md` line 43 says every swap keeps
  the replaced file (`reapplied`). The receipt names the release the check saw,
  not the one applied (`moved`). Nothing locks the install (`overlapped`). A
  rollback is undone by the next launch's update. The loop of a running agent has
  no guard against a release that states the version before it, and restarts at
  its own cadence.
- *Card.* An ask that meets another card is dropped and nothing raises it again when
  that card closes; a second local ask replaces the first one's card, whose promise
  is then not settled from this terminal (`command-context-ui.ts:38`) (`crowded`).
  A rejected `resolveApproval` is swallowed (`dropped`). A local ask answered from
  another surface keeps its card, and the next `n`, escape or ctrl-c answers nothing
  and aborts the turn. The header of `broker-approval.ts` (lines 7-9) still speaks of
  local asks on this broker.
- *Hand-off.* Two messages of a conversation that overlap may create two sessions, and
  a 404 that comes late deletes the mapping the other has just made (`overlapped`).
- *Mirror.* The last-session pointer may move back to an older session when two
  mirrors land out of order (`hosted-session-mirror.ts:170`):
  `HostedMirror!PointerMovesForward` states the contrary, and does not hold.
- *Adoption.* A refusal that follows a recovery is not said again: the notice has one
  id, and the feed takes an id once, against `daemon-build-compatibility.ts:139`
  ("the next refusal gets to speak again"); `DaemonAdoption!EachRefusalIsSaid`
  states it, and does not hold. A reconciliation that overlaps another may adopt a
  daemon whose build nobody judged (`memory-spine-adoption.ts:90`).
- *Wake.* A start that is refused after another has replaced it clears the other's
  listener, which then nothing can stop (`wake-runtime.ts:465`) (`lateRefusal`).
- *Calendar.* A feed subscribed again while a refresh of it is in flight is overwritten
  by the merge, which goes by name (`calendar-subscription-registry.ts:178`). Names
  that differ only in case share a secret.
- *Onboarding.* The rollback of a profile's creation deletes the directory, somebody
  else's changes in it included. A failed rollback leaves its mark (`stuck`).
- *Occasions.* The line can come in the middle of the next turn, against the comment at
  `bootstrap.ts:276-281`, and after occasions were switched off during the pull.
  Answers that cross repeat a line or say a stale one.
- *Session commands.* `/load`, the `/sessions` picker and the hidden `/reset` replace
  the transcript and keep the session's id, so the next auto-save overwrites the
  session that was in use (`strayed`). Leaving after a resume saves the resumed
  transcript under the launch's id, because the shutdown is not awaited. Only
  `/clear` is refused in mid-turn: after a resume, load or reset there, the reply
  lands in another session. `/session save` moves the session to another id
  without writing the pointer. A session the person saved gets the reason `auto` at
  the next auto-save. A fork takes neither anchors nor view sidecar with it. The
  comment of `bootstrap-shutdown.ts` (lines 10-12) promises every step; only
  `disposeRuntimeGraph` stands in a `finally`.
- *Work tree.* Once narration stands on the spine after a spawn, calls are no longer
  interleaved by start time (`work-tree-model.ts:302-310`, against its lines 16-19
  and `test/core/work-tree-model.test.ts:102`). The folds of a turn are kept by
  message index, which a compaction changes, and the fingerprint that should notice
  (length and first 80 characters) can match another message.
- *Transcript display.* `conversation.ts:362` calls the placeholder "always the last
  message". Two things make it not so while a block is open (`displaced`), and until
  the block is closed and the next frame drawn the screen may then be wrong, the
  corruption `test/core/streaming-resize.test.ts` guards against. Only the type
  invariant speaks of that time.
  - *Something comes in behind it*: a notice, the line of an occasion
    (`occasions-nudge-surface.ts:182`), a message of the person. The first delta
    after a rebuild then drops what was printed during the turn, whose place below the
    text the rebuild forgot, and a resize leaves `streamingStartLine` stale. Outputs
    count messages, so once the placeholder has gone such a message takes its number,
    and an output printed before it stays below it.
  - *It is taken back*: `/undo`, `/retry`, `/load`, a reset and a rewind are not refused in
    mid-turn (`session-content.ts:180-252`), and `undo`, `redo`, `removeMessagesAfter`
    (`conversation.ts:170-185`) leave `streamingStartLine` set. The next rebuild takes the
    answer before it for the placeholder, or, with no answer left, keeps the line of the
    buffer that is gone; with nothing left it draws the splash. The next delta cuts the
    lines at that place and draws the text there, on a buffer that counts as clean
    (lines 223-231); it also overwrites the text of the answer before, and
    `finalizeStreamingBlock` removes that answer, as the SDK's "only removes the last
    assistant message" (`test/core/streaming.test.ts:75`). `resetAll` (lines 255-269) sets the
    line to -1 while the turn goes on: deltas then show nothing, and if an answer was added
    since they change it without marking the buffer.

  An output printed while a block streams that then ends without a message, or before an
  undo or compaction, moves below the next question (`shortened`).
- *Workspace register.* A root the owner removed and a plain record that another product
  added since is marked again by a late or repeated backfill, against
  "cannot resurrect … or un-remove anything". A crash between the store's write and
  the receipt lets an import run again; a command's removal is safe because the
  command imports too, a removal by another product is not. The import strips
  records to the known shape where the backfill keeps every field. Both write to
  the path the *reader* resolves, although the comment at lines 92-99 says that
  writes go to the shared one. A damaged receipt counts as an import that is done.
  Two processes may lose one's change (`crossed`).
- *Channel drafts.* Overlapping saves of two agents write over each other, because the
  file is read before an await and written after it (`channel-draft.ts:341`)
  (`exposed`). A draft composed on another surface is listed from the daemon and
  cannot be sent or edited here: sending finds no draft, an edit gets a new id
  ("the phone writes it, the terminal sends it", says the header). The marks sent and
  failed are not told to the daemon, whose copy stays queued and wins in the merged
  list. A sent draft composed anew stays sent and cannot be sent (`revised`). After a
  crash, or an answer that was lost, a message goes out a second time (`unheard`).
  Nothing calls `syncChannelDrafts`, so a draft the daemon would not take is offered
  again only when it is saved or queued; the two hundred and first draft pushes out
  the oldest whether the daemon holds it or not (`evicted`). An unreadable file counts
  as empty, and the next save overwrites it.
- *Playback* (not modelled). `close` is awaited after the process may already have
  closed, and then `play()` never settles; `stop()` reaches only the newest of
  overlapping plays (`audio/player.ts`).
- *Away digest* (not modelled). When the read times out after 2.5 s, the time last seen
  advances all the same and the runs in between are never told
  (`shell/autonomy-surfacing.ts`).

Left out of the modules, where a reader might expect them: `ensure-auth-user` in
`OnboardingApply`; an unreadable session directory at a hosted recovery; undo, redo,
retry, branches and hosted saves in `LiveSession`; WRFC lanes and the cut of a
cycle of agents in `WorkTreeRows`; the running turn's header, branches and the
replacement as a whole, by a compaction or a restored snapshot (`replaceMessagesForLLM`,
`fromJSON`: in mid-stream they do what an undo does), in `TranscriptDisplay`; an unparsable older list and
the refusal of broad roots in `WorkspaceRegister`; deleting and offering again in
`ChannelDrafts`.

## 9. Conventions

Definitions keep the source's names where TLA+ allows it. A definition
`Name_Variant` beside `Name` is a plausible mistake in that code (a dropped guard,
a missing reset, an off-by-one); substituting it for `Name` makes the property it
is paired with in `PROJECT.json` fail, which shows that the property can. A
`map` entry names the lines each definition translates. Bounds are constants with
a named assumption, and each is described where it is declared.
