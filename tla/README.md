# Read receipts: TLA+ models and proofs

Formal models of the Mattermost plugin in this repository: a Go server plugin
that records who has read which post, and a webapp plugin that reports reads
and shows authors how many people have read their posts. The models are checked
with TLC; every safety property that a passing run checks is also a theorem,
proved with TLAPS for every value of the constants (six of them under
named hypotheses on what may go wrong, section 5).

## 1. The system

| Component | Code | State it keeps | Operations | Model |
|---|---|---|---|---|
| Read reporting | `server/api.go`, `receipts.go`, `permissions.go` | key-value store: `wm_` watermark per reader (no TTL), `rr_` receipt per post and reader (TTL), `idx_` list of the channel's readers | `POST /read` | `ReadServer`, `ReadLedger` |
| Receipt queries | the same files | reads the store | `POST /receipts/query`, `POST /receipts/post` | `ReadQuery` |
| Lifecycle, routes | `server/plugin.go` | router, configuration pointer | `OnActivate`, `OnConfigurationChange` | in `ReadServer` |
| Configuration | `server/configuration.go` | retention, enabled channel types | validation, `GET /config` | only what is enabled, in `ReadServer` and `ConfigLoader` |
| Configuration loader | `webapp/src/config_loader.ts`, `actions.ts` | epoch, request generation, timer, cancellable wait | start, `reload`, `stop` | `ConfigLoader` |
| Channel watcher | `webapp/src/channel_watcher.ts`, `websocket.ts` | handled channel, channel in flight, retry, debounce | `check`, `refresh`, `refreshSoon`, `stop` | `ChannelWatcher` |
| Redux state | `webapp/src/reducer.ts`, `selectors.ts` | statuses, reader lists with an epoch, profiles, configuration | six actions | each where its component dispatches it |
| Read reporter | `components/read_receipt.tsx`, `gating.ts`, `visibility.ts`, `actions.ts` | dwell and retry timers, activity, what was sent | observe, report, retry, dispose | `ReadReporter` |
| Visibility geometry | `visibility_ratio.ts` | none | scroll root, visible share, thresholds | in `ReadReporter` |
| Reader popover | `components/read_receipt.tsx`, `readers_popover.tsx`, `actions.ts` | open, failed; pages with their epoch | open, load, show more, close | `AuthorView`; the server's side in `ReadQuery` |
| Websocket events | `websocket.ts` | none | `read_receipt`, `receipts_changed` | `AuthorView`, `ChannelWatcher` |
| HTTP client | `client.ts` | requests in flight | answer, failure, 403, abort by timeout | inside the modules of its callers |
| Rendering, DOM placement, i18n | the other files of `webapp/src` | none that matters here | | not modelled |

**How the parts interact.** The reading client posts a read. The server writes
the receipt (insert if absent), then moves the watermark (compare and set), then
sends `read_receipt` to the author and `receipts_changed` to the channel. The
author's client answers `receipts_changed` with a debounced query of its own
posts; the query counts, for each post, the indexed current members whose
watermark is at or past the post. What the client may query at all is decided by
the configuration that its loader keeps, which is dropped and loaded again on
every reconnect; a loaded configuration then refreshes the watcher.

**What is hard.** Nothing on the server is transactional: a request is eight or
more calls to the Mattermost API, requests overlap in one or several processes,
each call may fail, and a process may stop between any two. Membership changes
while an index is pruned or a count is computed. On the client every promise and
timer is a chance for the user to switch channels, for the connection to drop
and for the plugin to be removed. `PROJECT.json` lists these hazards line by
line.

**What makes each component correct.** A watermark only moves forward and
receipts are first-write-wins; what is acknowledged or announced is covered;
nothing old is stamped again; the index is bounded and loses only readers
whom a pruning request found gone; what becomes visible is announced (`ReadServer`). Counts are right at some
moment of the query and pages skip nobody (`ReadQuery`). No outdated answer is
used and every sequence settles (`ConfigLoader`). The watcher never gets stuck
and outdated counts are replaced (`ChannelWatcher`). Only what somebody looks at
is reported, nothing is suppressed without reason, and what is watched for good
is reported (`ReadReporter`). Counts and lists name nobody who has not read,
a receipt is not lost to a late page, and the popover never loads for ever
(`AuthorView`).

## 2. The modules

### ReadServer

One channel: every key of the server begins with the channel's id, so channels
do not interact. `req[q]` is a handler: its `pc` names the API call it makes
next and its other fields are the local variables of `markAsRead`,
`ensureReaderIndexed` and `advanceWatermark`. One action is one API call with all
the computation up to the next call, since that computation is local.

| Action | Code |
|---|---|
| `HandleRead` | `handleRead`, `validateReadRequest`, the head of `markAsRead` |
| `GetWatermark` | step 0: `getWatermarkRaw` |
| `GetIndex`, `PruneIndex`, `CasIndex` | one turn of `ensureReaderIndexed` |
| `PutReceipt`, `ReadStored` | `setReceiptAtomic`, `getReceipt` |
| `GetCurrent`, `CasWatermark` | one turn of `advanceWatermark` |
| `PublishReceipt`, `PublishChanged`, `Respond` | the events and the answer |
| `KVError`, `Crash`, `Leave`, `Join`, `SetEnabled`, `Expire`, `Tick` | the environment |

`answered`, `announced`, `stale` and the fields `late` and `absent` are history:
no guard uses them. A failing API call is the action `KVError`, in two kinds:
`"kv"` ends the request with an error, `"lookup"` is the failing `getReceipt`, whose
error the code drops and goes on. `absent` holds the indexed readers whom the request's
membership lookup found gone. `stale` says that the coverage which queries can see has grown since the
last `receipts_changed`.

Abstractions. Validation is one step (a membership that ends between validation
and the first call is the action `Leave` right after `HandleRead`). Permission to
read a channel is membership; administrators who may read without being members
are left out. A failing store call has no effect; a write that took effect
although its caller was told of an error is not modelled. The retention TTL is
constant while the model runs and at least three ticks, and a request ends within
the tick it started in (retention is days, a request seconds); a receipt may
expire at any time from its TTL on. A rejected request changes nothing and is no
action. Version 0.1 left watermarks without index entries; `LegacyReaders` says
who may start with one.

### ReadLedger

The promise without handlers and keys: positions that only move forward by one
atomic `Commit`, a set of visible readers, events and acknowledgements about
covered posts only, and an `owed` flag that a growth of visible coverage raises
and only a channel event lowers. `ReadServer` implements it with
`position` = the watermark's post, `visible` = the indexed readers, `owed` =
`stale`.

### ReadQuery

Extends `ReadServer`: query handlers run beside the read handlers, and every
step of the server may fall between two calls of a query. `QueryIndex` and
`QueryMembers` are `channelReaders`; then `handleQuery` reads one watermark per
reader of the page (`QueryWatermark`) and perhaps exact times (`QueryTime`), and
`handlePostReaders` reads a receipt and, if there is none, the watermark
(`QueryReceipt`, `QueryWatermark`). A page is a function from places of the index
to readers: `Candidates` are the places from the offset on whose reader is not the
requester, `FirstOf` the first of them, `NextOffset` the first place left out. `NextPage` is the next request for the same
list, at the offset the last answer gave. Three history fields bracket the answer:
`sure` (readers visible from the start of the query until now), `indexed` and
`present` (who was indexed, and who was a member, at some moment of it: the two
are read by different calls, so a reader pruned after leaving may be counted on
coming back). The bound on pages of channel posts in
`resolveOwnPosts`, deleted posts and the sorting of a page are left out.

### ConfigLoader

JavaScript runs one task at a time and drains its promise continuations before
the next, so one action is one macrotask: a reconnect, an answer with everything
that follows from it in `loadPluginConfig` and `runSequence`, a timer, teardown.
A sequence is known by its epoch. `Cancel` is `clear()`: the sequence that waits
is ended at once, as its continuation runs before any other task. The
configuration is a version number of the server's setting, so that "outdated"
means something. `since` (history) is the setting at the start of the last
sequence.

### ConfigSession

What the rest of the webapp sees of the loader: a configuration that is there or
not, and one session that loads it (`Reconnect`, `Load`, `GiveUp`, `Stop`).
`ConfigLoader` implements it with `loaded` = `config # Nil` and `session` = what the
sequence of the latest epoch runs for; attempts, generations and timers are
stutters. `ChannelWatcher` follows it: its `Reconnect`, `ConfigLoads`,
`ConfigGivesUp` and `Stop` are those four steps, so the watcher's module relies on
nothing that the loader does not promise.

### ChannelWatcher

The watcher's local variables are the record `watcher`, the part of the Redux
store it reads is the record `store`; `check` is the operator `Checked`, applied
to the store as a step leaves it, because the subscription runs within the
dispatch. The server is reduced to a version number per channel, raised together
with an event by `Cover`. Queries in flight are a set: that there is only one is
the watcher's doing, not the model's. `ConfigLoads` and `ConfigGivesUp` are the
outcome of a sequence of `ConfigLoader`, as `ConfigSession` has it. The backoff's length (`failures`) is
left out: timers have no duration here. Own posts do not disappear.

### ReadReporter

The reading client in one channel (the deduplicator is keyed by channel, so
channels do not interact). Every mounted post has a `closure`, the local
variables of one run of the reporting effect: `status`, `visible`
(`sufficientlyVisible`), the two timers, and the index of the threshold its
observer was last told of. `tracker` is the visibility tracker, `dedup` the
deduplicator; `eligible`, `identity`, `current` and `deleted` are what
`getPostContext` reads in the store.

| Action | Code |
|---|---|
| `Mount`, `Unmount`, `RerunEffects` | the effect's head and its cleanup (read_receipt.tsx:158-175, 290-302) |
| `Scroll`, `Observe` | a frame is drawn; the observer's callback, when the share in view crosses a threshold |
| `UpdateState` | `updateState` of the tracker and `onVisibilityChange` of every effect |
| `DwellFires`, `RetryFires` | the two timers, `attemptSend`, `sendReadReceipt` up to its request |
| `OrphanFires`, `GhostFires` | retry timers that `retryTimer` no longer names, of a live and of a disposed effect |
| `Succeed`, `Refuse`, `Fail` | the answer, `markSent`, what `attemptSend` does with it |
| `ConfigChanges`, `IdentityArrives`, `SwitchChannel`, `Delete`, `Uninitialize` | the inputs of the gating, teardown |

Orphans exist because `retryTimer = setTimeout(...)` overwrites the variable:
when a request fails while a retry timer runs (the dwell timer sent it), the
older timer can no longer be cleared, and when it fires it resets the variable
that names the newer one. `Reset` models exactly that. A failure may have been
recorded by the server all the same (`Fail`). `recorded` and `refused` are
history.

Geometry: `RootHeight` is `resolveScrollRoot` on the ancestors of a post,
`IsSufficientlyVisible` and `Thresholds` are the functions of that name in whole
numbers, and `ThresholdIndex` is what an `IntersectionObserver` compares.

Abstractions. Timers have no duration; they fire some time. `Slices` are the
frames that are drawn. Components of a channel are unmounted at some moment
after the user left it and none is mounted until the user is back (a post shown
in the sidebar meanwhile is not modelled). Teardown unmounts the components in
the same step, as the webapp removes a plugin's components with it. Two requests
of one post whose effects are both disposed count as one. Only posts of others
are deleted. A re-run of the effects, for which `React` disposes and runs them
one after the other in one task, is one step.

### AuthorView

One own post in a group channel. The server is reduced to `index` and `read`
(ReadServer has the rest), the watcher to `due` and `query` (ChannelWatcher has
the rest: whenever a refresh was asked for one is sent, one at a time, and a
failed one again). The client's part is in full: `status`, `readers`, `epoch` and
`profiles` are the Redux state of the post, `popover` the two flags of the
component, `pages` and `lookups` the requests under way, each with the epoch it
captured. A lookup of names may fail, or its answer leave accounts out; `unnamed`
is the history of both.

| Action | Code |
|---|---|
| `Read` | the server's handler, with its event: a receipt for this post, a channel event for an older or a newer one |
| `DeliverReceipt`, `DeliverChanged` | `handleWebSocketEvent` with `WS_RECEIPT`; `handleReceiptsChangedEvent` |
| `SendQuery`, `AnswerQuery`, `QueryArrives`, `QueryFails` | `loadChannelReceipts`, `handleQuery`, `RECEIPTS_QUERY` |
| `OpenPopover`, `ClosePopover`, `ShowMore` | the popover and its effect |
| `AnswerPage`, `PageArrives`, `PageFails` | `handlePostReaders`, `loadPostReaders`, `POST_READERS` |
| `ProfilesArrive`, `ProfilesFail` | the end of `loadPostReaders`, `PROFILES` |
| `Reconnect` | the connection is lost with what was on its way; the refresh that follows |

An effect runs in the step that changes its dependencies, because React runs it
before the next task of interest; so `DeliverReceipt` includes the reload of an
open popover.

Abstractions. Direct channels are left out. A list is a set of readers, so its order
(by time) and doubled rows are not seen. Members stay, so the index only grows
(`ReadQuery` has pruning). The `receipts_changed` that follows a receipt asks for
the refresh the receipt already causes and is left out. A lost connection and
its return are one step. A page and a count are each computed at one moment
(`ReadQuery` brackets what really happens). The post stays delivered and its
channel enabled.

### MC modules

`MCReadServer`, `MCReadQuery`, `MCConfigLoader`, `MCChannelWatcher`,
`MCReadReporter` and `MCAuthorView` give the constants of the small instances
(authors and creation times of posts, heights and scrolling ancestors) and the
symmetries.

## 3. The runs

| Run | Bounds | Shows |
|---|---|---|
| `read_races` | 3 requests, 3 posts of increasing time, one reader who may hold an old watermark, 2 CAS turns; failing calls | no order of store calls acknowledges, announces or overwrites wrongly; every path, also the failing ones, announces the coverage it made visible |
| `read_retry` | 2 requests, 2 posts of different time, clock 4, TTL 3; failing calls, crashes, expiry | the first read time survives retries, no second stamp even after expiry; the inductive invariant of the proofs |
| `read_liveness` | 2 readers, index of 1, fair handlers; errors, configuration changes | requests end, changes are announced |
| `read_refinement` | 2 readers, index of 1; errors, crashes, leaving, joining | the ledger is implemented; the index under races and pruning |
| `query_answers` | 3 readers, pages of 2, clock 2, an old watermark; leaving and joining, failing queries | counts are bracketed, exact times are a counted reader's, paging misses nobody while the index grows (it never fills) |
| `config` | 3 attempts, 2 reconnects, 1 change of the setting | freshness, fail-closed, teardown; one session at a time is implemented; every sequence settles |
| `watcher_safety` | 2 enabled channels and a disabled one, every fault | never idle, never backwards |
| `watcher_one_channel` | one channel, 3 changes, failing queries, lost connections | outdated counts are replaced |
| `read_reporter` | an own post (shown before the user is known) and a newer one of another user, five times as tall as the list; 2 failures; configuration, identity, channel switch, deletion, teardown | no report of what nobody looks at, no suppression without reason; a watched post is reported |
| `author_view` | 2 readers, windows of 1 (so a cut count and two pages), 2 pages in flight, one profile known, 1 failure or lost connection | no phantom readers, no lost receipts, no endless loading; the count catches up |

Why these bounds are enough to be interesting: two requests of one reader are
the smallest race, the third one lets a CAS be lost twice; reading the same post
again and reading an older or newer one are the cases of the comparison; an
index of one place is full after one reader; two retries exhaust a CAS loop; a
TTL of three ticks with a clock of four lets a receipt expire and be asked for
again; a page of two of three readers is followed by a second page. Two failures
are what it takes to orphan a retry timer; two posts are the smallest case of
the deduplicator's order; one failure and two pages in flight let every answer
be late or lost once. MaxClock, MaxReconnects, MaxChanges and MaxVersion bound the models, the
other constants are scaled-down constants of the code. `CHECK_DEADLOCK FALSE`
appears where the system may stop: everybody has left the channel, the plugin is
removed or the bounded environment has nothing left to do.

Symmetry is used in runs without liveness properties only: on request slots in
the `MCReadServer` runs and on the readers without an old watermark in
`query_answers`.

Two properties of `read_retry` speak of the time before the first receipt can
expire (`clock <= TTL`). After that a handler that is still under way may find
the receipt of another one gone and stamp the read anew; that is the expiry's
doing, and with a retention of days no handler lives that long.

**Fairness.** `ReadServer!FairSpec`: weak fairness of each handler's step (the
Go runtime schedules every goroutine and API calls return); nothing obliges
users to read or faults to happen. `ConfigLoader!FairSpec`: requests have a
timeout in `client.ts`, timers fire, the event loop takes every task.
`ChannelWatcher!FairSpec`: the same, events of a connection that stays up
arrive, and a query that is repeated for ever is answered in the end (strong
fairness of `Answer`); without the last one nobody could promise fresh counts.
Nothing is assumed of `Open`, `Load` or `Reconnect`. `ReadReporter!FairSpec`:
browsers tell an observer of the frame on screen, timers fire, requests end
(`client.ts` aborts one that does not within its timeout); users owe nothing, so
`WatchedIsReported` is about a post that is watched for good, and failures are
bounded, since nobody can report through a server that always fails.
`AuthorView!FairSpec`: events of a live connection are delivered, requests end,
the watcher sends the refresh it owes; failures are bounded.

## 4. Findings

Two runs are expected to fail; each checks one property that a comment or a
document of the repository states.

1. `read_lost_invalidation`: with a full index, a request that read no watermark
   can index its reader after another request of the same reader wrote one
   unindexed. It finds the post covered, and the coverage that it made visible is
   told to nobody, against `api.go:109-113`.
2. `author_stale_list`: the count beside the ticks follows `receipts_changed`, the
   list behind it does not. A reader who covers a post by reading a newer one
   causes no receipt of the post, so its cached list keeps missing that reader
   while the popover is open and whenever it is opened again, until a receipt of
   the post arrives, against README.md:462 (a click shows who has read, and when).

**Known consequences without a run of their own.** They were met while modelling;
each line says where to see it.

- `api.go:156` drops an error of `getReceipt`: a retry after a failed watermark
  write stamps the watermark with its own time, against README.md:113-115. Adding
  `"lookup"` to the faults of `MCReadRetry.cfg` violates `WatermarkKeepsFirstTime`
  and `AnnouncedTimesAgree`. Such a time may be served as the exact time of a
  count: the faults `{"kv", "lookup"}` and readers `{r1, r2}` in
  `MCQueryAnswers.cfg` violate `ExactTimeIsTheReaders`.
- A page offset survives a pruning of the index and skips readers, against
  README.md:328: pages of one place and an index of two in `MCQueryAnswers.cfg`
  violate `PagesSkipNobody`.
- An event for a channel that is not on screen is dropped, and a channel reopened
  after a visit to one without own posts still counts as handled
  (channel_watcher.ts:111, websocket.ts:72), so its counts stay outdated, against
  README.md:185: a second channel, never loaded, and the fault `"switch"` in
  `MCWatcherOneChannel.cfg` violate `StalenessIsPending` and `StatusesCatchUp`. With
  both channels loaded the first is violated too: the author leaves a channel while
  its query, already answered by the server, is in flight, an event for it is dropped,
  and after the return the late answer marks it handled (channel_watcher.ts, `done`).
- A process that stops between the watermark and the events tells nobody, and a
  retry finds the post covered: the fault `"crash"` in `MCReadRaces.cfg` violates
  `NoLostInvalidation`. Events are best effort by design (a client asks again when it
  opens the channel).
- A reader who rejoins between the membership lookup and the compare-and-set of a
  pruning request is dropped from the index although a member, until the next
  read; `PruneOnlyDeparted` therefore speaks of the readers whom the request
  found gone.
- A retry reports without a dwell of its own: a blur while the request is pending
  cancels nothing, so a post seen again for an instant may be reported
  (read_receipt.tsx:221-226), although README.md:441 says that leaving view or
  blurring during the dwell or the backoff cancels the send. `SendsOnlyWatched`
  states what does hold: at that instant it is in view in an active window.
- README.md:444 says that of a batch of visible posts only the newest is sent. The
  deduplicator learns of a read when its request has ended, so posts whose dwell
  timers fire together are each sent.
- An own post shown before the current user is known is reported, refused with
  403 and then marked as sent, which suppresses the older posts of the channel
  until the plugin is loaded again; `SuppressedForAReason` counts a refusal as a
  reason for this.
  No property asks that these posts can still be reported.
- Two clicks on "Show more" before the page arrived append it twice
  (reducer.ts:114-120); closing and opening the popover while its first page
  loads asks for it twice, and the later answer cuts a longer list back to the
  first page. `ReceiptsAreListed` holds, since it is about the first page.
- The failure of a page of an earlier epoch shows an error in a popover whose
  fresh load is still under way, until that arrives.
- Between the thresholds 0.0075, 0.01 and 0.02 an observer is told nothing: a post
  more than fifty times as tall as the list may fill the list without a callback.

## 5. The proofs

`ReadServerProofs` proves, from the assumptions of `ReadServer` alone and hence
for any number of users, posts, handlers, retries and any set of faults:

| Theorem | Statement |
|---|---|
| `TypeCorrect` | `Spec => []TypeOK` |
| `AcknowledgedReadsAreCovered` | `Spec => []AcknowledgedIsCovered` |
| `AnnouncedReadsAreCovered` | `Spec => []AnnouncedIsCovered` |
| `IndexStaysWellFormed` | `Spec => []IndexWellFormed` |
| `IndexLosesOnlyDeparted` | `Spec => PruneOnlyDeparted` |
| `LateReadsAreNotRestamped` | `Spec => []NoRestamp` |
| `WatermarkNeverFalls` | `Spec => WatermarkMonotone` |
| `FirstReceiptStays` | `Spec => ReceiptWriteOnce` |
| `ServerImplementsLedger` | `Spec => Ledger!Spec` |

The argument. None of these formulas is inductive: what an action does depends on
what its handler remembers, and the store has moved on since. The inductive
invariant `Inv` adds `HandlersInv`, which says what a remembered value is still
worth: the watermark has not moved back since the handler saw it; a handler about
to promise something has a covering watermark; the value that a watermark's CAS
expects does not cover the post; the list that an index CAS writes is its old
list, without those found absent, plus the reader. With the CAS comparing against exactly
those remembered values, each write preserves the invariant. `WatermarkWellFormed`
ties a watermark to its post, which the refinement mapping needs. Each action has
a lemma of its own; the step theorem assembles them, and the temporal theorems
follow by PTL. The refinement maps each action to a `Commit`, `Show`, `Announce`,
`Acknowledge` or `NotifyChannel` step, or to a stutter.

`HandlersKeepTheirFacts` states `HandlersInv` itself, which `read_retry` checks.

`ReadPromisesProofs` proves what the server keeps as long as certain things do not
happen. Each hypothesis is stated in the theorem, and none can be dropped (TLC
shows it, section 4):

| Theorem | Statement | Hypothesis |
|---|---|---|
| `CoverageIsAnnounced` | `Spec => []NoLostInvalidation` | `IndexHasRoom` (no more possible readers than places), no `"crash"` |
| `FirstTimeIsKept` | `Spec => []WatermarkKeepsFirstTime` | no `"lookup"` |
| `AnnouncedTimesNeverDiffer` | `Spec => []AnnouncedTimesAgree` | no `"lookup"` |

The argument. For the first, `NoticeInv` says that stale coverage has a handler which
still owes the channel an event (`Owes`), whatever its next calls answer, and that a
watermark whose reader is not indexed was seen by every handler of that reader past
its first call. With room in the index a handler past the index step has its reader
indexed, so no watermark is written behind the back of the counts; that is where
finding 1 breaks it. For the other two, `TimesInv` follows a read time, as long as no
receipt can have expired: a handler that has made sure of its receipt holds the
stored time, a watermark carries the time of its post's receipt (or that of version
0.1), and so does every announcement.

`ReadQueryProofs` proves the four properties of the queries on top of these:

| Theorem | Statement | Hypothesis |
|---|---|---|
| `QueriesTypeCorrect` | `QuerySpec => []QueryTypeOK` | none |
| `CountsAreBracketed` | `QuerySpec => []CountsBracketed` | none |
| `ExactTimesBelongToTheReader` | `QuerySpec => []ExactTimeIsTheReaders` | no `"lookup"` |
| `ShowMoreSkipsNobody` | `QuerySpec => []PagesSkipNobody` | `IndexHasRoom` |

The argument. Every step of the server may fall between two calls of a query, so
the invariant `QueriesInv` speaks only of what such steps cannot take back. The
history fields have witnessed everybody who is indexed or a member now
(`HasWitnessed`); a page holds only readers who were witnessed (`LooksAt`); whoever is
counted has a covering watermark, which `WatermarksForward` keeps, and on a page that
is not truncated whoever was visible all along is counted or still to be looked at
(`HasCounted`). `QueriesTimed` says that an exact time is the stored time of the only
reader of the page, which `TimesInv` ties to the announcements. `QueriesCover` is
about lists: whoever was visible all along is listed, or on the page, or at a place
behind it. With room in the index no entry moves (`IndexGrows`), so the place where a
page ended means the same when the next page begins: this is what the hypothesis
is for.

`ConfigLoaderProofs`, for any number of attempts, reconnects and changes:

| Theorem | Statement |
|---|---|
| `LoaderTypeCorrect` | `Spec => []TypeOK` |
| `ConfigStaysFresh` | `Spec => []ConfigIsFresh` |
| `WaiterStaysLatest` | `Spec => []WaiterIsLatest` |
| `LoadingRefreshes` | `Spec => []LoadedMeansRefreshed` |
| `LoadedConfigStays` | `Spec => LoadedStays` |
| `LoaderImplementsSession` | `Spec => ImplementsSession` |
| `StopIsFinal` | `Spec => NothingAfterStop` |

The argument: generations and epochs are handed out in order, so the request
whose generation is the current one belongs to the latest sequence, and its
answer was computed after that sequence began. For the refinement the invariant
says further that while the latest sequence runs there is no configuration
(`RunningIsInert`), so that the CONFIG_LOADING of a retry is a stutter, and that an
epoch names a sequence until teardown (`EpochInv`); a superseded sequence's answer
maps to a stutter, the latest one's to `Load`, `GiveUp` or a stutter.

`ChannelWatcherProofs`, for any channels and faults:

| Theorem | Statement |
|---|---|
| `WatcherTypeCorrect` | `Spec => []TypeOK` |
| `WatcherIsNeverIdle` | `Spec => []NeverIdle` |
| `RetriesAreForCurrent` | `Spec => []RetryIsForCurrent` |
| `ShownIsMonotone` | `Spec => ShownNeverGoesBack` |
| `StaleCountsHaveAReason` | `Spec => []StalenessIsPending`, if neither `"switch"` nor `"refuse"` is among the faults |
| `WatcherFollowsSession` | `Spec => FollowsSession` |

The heart is `Consistent`: at most one query is in flight, and it is the one the
watcher believes in. Nothing in the model says so; it follows from `check`'s early
returns. With it an answer is never older than what is shown (`AnswersAreOld`).

`StalenessIsPending` needs to know where an outdated count came from. `SessionInv`
says, for a user who stays: the watcher asks only while nothing is handled
(`InSession`), which is why an answer that must be thrown away leaves the channel
unhandled; neither a query nor a handled channel exists before the channel's
entity is known, which is why the events dropped until then are no loss; nothing
at all happens before the first configuration (`NotStarted`), which is why only the
first one may come without a refresh; and an answer on its way is the server's
latest, or a notice or a refresh is to come (`Fresh`). A lost connection suspends
the last part until a configuration is loaded again, and that step refreshes. Both
hypotheses are needed: TLC violates the property with `"switch"` (section 4) and with
`"refuse"` alone, since a refused query handles the channel without counts.

`ReadReporterProofs`, for any posts, geometry, events and bound on failures:

| Theorem | Statement |
|---|---|
| `ReporterTypeCorrect` | `Spec => []TypeOK` |
| `SuppressionIsAccounted` | `Spec => []SuppressedForAReason` |
| `OnlyTheWatchedIsSent` | `Spec => SendsOnlyWatched` |

`TypeOK` is not inductive: that a component's orphans stay within the number of
failures needs an account of its timers (`ClosuresInv`: the retry timers of a
component, named and orphaned, are no more than the requests that failed). The
same invariant says that a running dwell timer implies a post in view, which is
why the timer need not look; `GhostsInv` says that a disposed effect's timers are
harmless, which is the last line of the cleanup; `DedupInv` ties what the
deduplicator remembers to what was recorded or refused.

`AuthorViewProofs`, for any readers, page size and bounds:

| Theorem | Statement |
|---|---|
| `ViewTypeCorrect` | `Spec => []TypeOK` |
| `NobodyIsInvented` | `Spec => []NoPhantomReaders` |
| `ListsKeepReceipts` | `Spec => []ReceiptsAreListed` |
| `PopoverNeverHangs` | `Spec => []LoadingHasCause` |
| `OutdatedCountIsReplaced` | `Spec => []OutdatedCountIsDue` |
| `ListedAreNamed` | `Spec => []NamedUnlessFailed` |

The invariant follows a receipt from the event to the list: whoever's receipt was
applied has read the post and is indexed (`ReadsInv`); a page of the current epoch was
computed after every receipt that was applied, so its window holds their readers
(`PagesInv`), and so does the list (`ListsInv`). `CountsInv` and `DueInv` do the
same for the count: an answer under way that is not the server's count has an
event behind it.

**Only model-checked.** Liveness (`EveryRequestEnds`, `ChangesAnnounced`,
`EverySequenceSettles`, `StatusesCatchUp`, `WatchedIsReported`, `ListSettles`,
`CountCatchesUp`): fairness and ENABLED are out of the prover's reach. Everything
else that a passing run checks is proved. No module declares a RECURSIVE operator.

**Only proved.** `ReceiptWriteOnce`, `WaiterIsLatest`, `LoadedStays` (which
`ImplementsSession` contains), `RetryIsForCurrent`, `FollowsSession` and `TypeOK` of
`ReadReporter` are checked by no run: each is proved for every value
of the constants.

## 6. Not modelled, and what could follow

Not modelled: rendering, wording, DOM placement of the indicator and the hook
that subscribes a component to the store (no protocol state); routing, JSON and
headers; the choice of the DOM node that stands for a post; direct channels in
`AuthorView`, where the event is the whole truth; the normalising of the settings
and the choice of the newest own posts (`collectOwnPostIds`), pure functions
without interleavings; the bound on pages of channel posts in `resolveOwnPosts`.

What could follow, in order of worth:

1. An end-to-end module from `ReadReporter` to `AuthorView` over `ReadLedger`, as
   `ConfigSession` already joins `ConfigLoader` and `ChannelWatcher`.
2. Proofs: that what `AuthorView` assumes of the server (counts and pages at one
   moment) follows from `CountsBracketed` and `PagesSkipNobody`; a form of
   `StalenessIsPending` for a user who switches between channels that are loaded.
3. `AuthorView` in a direct channel, with the exact time of the event against
   that of the query.
4. Clamping and normalising of the settings, and `collectOwnPostIds`, as
   functions checked against a reference definition over bounded inputs.

## 7. Running

    tlc -config MCReadRaces.cfg MCReadServer
    tlc -config MCQueryAnswers.cfg MCReadQuery
    tlc -config MCConfig.cfg MCConfigLoader
    tlc -config MCWatcherSafety.cfg MCChannelWatcher
    tlc -config MCReporter.cfg MCReadReporter
    tlc -config MCAuthor.cfg MCAuthorView
    tlapm ReadServerProofs.tla
    tlapm ReadPromisesProofs.tla
    tlapm ReadQueryProofs.tla
    tlapm ConfigLoaderProofs.tla
    tlapm ChannelWatcherProofs.tla
    tlapm ReadReporterProofs.tla
    tlapm AuthorViewProofs.tla
