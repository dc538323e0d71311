---------------------------- MODULE ChannelWatcher ----------------------------
(***************************************************************************)
(* The webapp's channel watcher: startChannelWatcher, loadChannelReceipts, *)
(* the receipts_changed handler and the reconnect handler, with the server *)
(* reduced to what the watcher can tell apart: the version of a channel's  *)
(* counts and the events and answers on their way.  An action is one       *)
(* macrotask; every change of the Redux store calls check at once.  The    *)
(* length of a backoff (failures) is abstracted: a timer fires some time.  *)
(***************************************************************************)
EXTENDS Integers

CONSTANTS
  Channels,
  Nil,
  Enabled,      \* channels of a type in EnabledChannelTypes
  Posting,      \* channels in which the user may have posts
  MaxVersion,   \* bound of this model on changes of a channel's counts
  Faults        \* what may go wrong, see below

FaultKinds == {"fail", "refuse", "switch", "disconnect"}

ASSUME WatcherAssumption ==
  /\ Nil \notin Channels \cup {"startup", "reconnect"}
  /\ Enabled \subseteq Channels
  /\ Posting \subseteq Channels
  /\ MaxVersion \in Nat
  /\ Faults \subseteq FaultKinds

Versions == 0..MaxVersion

Store ==
  [ current : Channels \cup {Nil},   \* currentChannelId, Nil at startup
    stage   : [Channels -> {"unknown", "known", "ready"}],
    config  : BOOLEAN ]              \* the plugin configuration is loaded

(* A query in flight and what has come of it: nothing yet, an error, a 403 *)
(* or the counts of a version.                                             *)
Query ==
  [ channel : Channels,
    status  : {"waiting", "failed", "refused", "ok"},
    of      : Versions \cup {Nil} ]

(* The local variables of startChannelWatcher. *)
Watcher ==
  [ handled          : Channels \cup {Nil},  \* handledChannelId
    inFlight         : Channels \cup {Nil},  \* inFlightChannelId
    refreshRequested : BOOLEAN,
    retry            : Channels \cup {Nil},  \* retryTimer, retryChannelId
    debounce         : BOOLEAN,              \* debounceTimer
    stopped          : BOOLEAN ]

VARIABLES
  store,     \* Redux: a channel's entity is unknown, known, or has own posts
  shown,     \* Redux: version of the counts shown in a channel
  watcher,
  queries,   \* queries in flight
  version,   \* server: version of a channel's counts
  events,    \* receipts_changed events on their way, per channel
  connected, \* the websocket is up
  reloading  \* a configuration sequence is under way, Nil: none

vars == <<store, shown, watcher, queries, version, events, connected, reloading>>

TypeOK ==
  /\ store \in Store
  /\ shown \in [Channels -> Versions]
  /\ watcher \in Watcher
  /\ queries \in SUBSET Query
  /\ version \in [Channels -> Versions]
  /\ events \in [Channels -> Versions]
  /\ connected \in BOOLEAN
  /\ reloading \in {"startup", "reconnect", Nil}

-----------------------------------------------------------------------------
NewQuery(c) == [channel |-> c, status |-> "waiting", of |-> Nil]

(* isEligibleChannel: undecided until the entity and the configuration are *)
(* there.                                                                  *)
Decided(st)  == /\ st.current # Nil /\ st.config
                /\ st.stage[st.current] # "unknown"
Eligible(st) == Decided(st) /\ st.current \in Enabled

(* The watcher has everything it needs to query the current channel. *)
Ready(st) == Eligible(st) /\ st.stage[st.current] = "ready"

(* A retry that waits for another channel is dropped. *)
DropForeignRetry(s, st) ==
  IF s.retry \notin {Nil, st.current} THEN [s EXCEPT !.retry = Nil] ELSE s

BusyRetrying(s) == s.retry # Nil
Busy(s) == s.inFlight # Nil \/ s.retry # Nil

(* check goes past its guards. *)
Proceeds(s, st) ==
  /\ ~s.stopped
  /\ Decided(st)
  /\ st.current # s.handled
  /\ ~Busy(DropForeignRetry(s, st))

Checked(s, st) ==
  IF s.stopped THEN s
  ELSE LET t == DropForeignRetry(s, st) IN
       IF ~Proceeds(s, st) THEN t
       ELSE IF ~Eligible(st) THEN [t EXCEPT !.handled = st.current]
       ELSE IF Ready(st) THEN [t EXCEPT !.inFlight = st.current]
       ELSE t

Sent(s, st) ==
  IF Proceeds(s, st) /\ Ready(st) THEN {NewQuery(st.current)} ELSE {}

(* check, run on the store as the step leaves it; qs are in flight so far. *)
Check(s, qs) ==
  /\ watcher' = Checked(s, store')
  /\ queries' = qs \cup Sent(s, store')

(* refresh, up to its check. *)
RefreshedIdle(s) == [s EXCEPT !.retry = Nil, !.handled = Nil]
Refreshed(s) ==
  [s EXCEPT !.refreshRequested = @ \/ s.inFlight # Nil,
            !.retry = Nil, !.handled = Nil]

(* done for a query of channel c, up to its check: c is handled unless the *)
(* query failed or a refresh came while it was in flight.                  *)
DoneWithoutRefresh(s, c, ok) ==
  [s EXCEPT !.inFlight = Nil, !.refreshRequested = FALSE,
            !.handled = IF ok THEN c ELSE @,
            !.retry = IF ok THEN Nil ELSE c]
Done(s, c, ok) ==
  IF s.stopped THEN [s EXCEPT !.inFlight = Nil]
  ELSE [s EXCEPT !.inFlight = Nil, !.refreshRequested = FALSE,
                 !.handled = IF ok /\ ~s.refreshRequested THEN c ELSE @,
                 !.retry = IF ok THEN Nil ELSE c]

(* Where done ends: the user may have switched while it waited. *)
NoRecheck(s, qs) == watcher' = s /\ queries' = qs
Recheck(s, qs) == Check(s, qs)

(* loadChannelReceipts dispatches RECEIPTS_QUERY. *)
DispatchesUnlessFailed(q) == q.status # "failed"
Dispatches(q) == q.status = "ok"

-----------------------------------------------------------------------------
(* initialize: nothing is known yet, the configuration is being loaded. *)
Init ==
  /\ store = [current |-> Nil, stage |-> [c \in Channels |-> "unknown"],
              config |-> FALSE]
  /\ shown = [c \in Channels |-> 0]
  /\ watcher = [handled |-> Nil, inFlight |-> Nil, refreshRequested |-> FALSE,
                retry |-> Nil, debounce |-> FALSE, stopped |-> FALSE]
  /\ queries = {}
  /\ version \in [Channels -> {0, 1} \cap Versions]
  /\ events = [c \in Channels |-> 0]
  /\ connected = TRUE
  /\ reloading = "startup"

(* The user opens channel c. *)
Open(c) ==
  /\ store.current # c
  /\ store.current = Nil \/ "switch" \in Faults
  /\ store' = [store EXCEPT !.current = c]
  /\ Check(watcher, queries)
  /\ UNCHANGED <<shown, version, events, connected, reloading>>

(* The webapp loads the channel's entity, then its posts. *)
Load(c) ==
  /\ \/ store.stage[c] = "unknown" /\ store' = [store EXCEPT !.stage[c] = "known"]
     \/ /\ store.stage[c] = "known" /\ c \in Posting
        /\ store' = [store EXCEPT !.stage[c] = "ready"]
  /\ Check(watcher, queries)
  /\ UNCHANGED <<shown, version, events, connected, reloading>>

(* A read changes the counts of c; the channel's members are told. *)
Cover(c) ==
  /\ version[c] < MaxVersion
  /\ version' = [version EXCEPT ![c] = @ + 1]
  /\ events' = IF connected THEN [events EXCEPT ![c] = @ + 1] ELSE events
  /\ UNCHANGED <<store, shown, watcher, queries, connected, reloading>>

(* handleReceiptsChangedEvent, then refreshSoon. *)
DeliverEvent(c) ==
  /\ events[c] > 0
  /\ events' = [events EXCEPT ![c] = @ - 1]
  /\ watcher' =
       IF store.current = c /\ store.stage[c] # "unknown" /\ ~watcher.stopped
       THEN [watcher EXCEPT !.debounce = TRUE] ELSE watcher
  /\ UNCHANGED <<store, shown, queries, version, connected, reloading>>

DebounceFires ==
  /\ watcher.debounce
  /\ UNCHANGED <<store, shown, version, events, connected, reloading>>
  /\ Check(Refreshed([watcher EXCEPT !.debounce = FALSE]), queries)

Answered(q, r) ==
  /\ q.status = "waiting"
  /\ queries' = (queries \ {q}) \cup {r}
  /\ UNCHANGED <<store, shown, watcher, version, events, connected, reloading>>

(* handleQuery answers. *)
Answer ==
  \E q \in queries :
    Answered(q, [q EXCEPT !.status = "ok", !.of = version[q.channel]])

(* "fail": an error or a timeout; "refuse": a 403. *)
AnswerBadly ==
  \E q \in queries :
    \/ "fail" \in Faults /\ Answered(q, [q EXCEPT !.status = "failed"])
    \/ "refuse" \in Faults /\ Answered(q, [q EXCEPT !.status = "refused"])

(* The answer arrives: the rest of loadChannelReceipts, then done.  The    *)
(* check that RECEIPTS_QUERY causes finds the query still in flight.       *)
Reply ==
  \E q \in queries :
    /\ q.status # "waiting"
    /\ shown' = IF Dispatches(q) THEN [shown EXCEPT ![q.channel] = q.of] ELSE shown
    /\ UNCHANGED <<store, version, events, connected, reloading>>
    /\ Recheck(Done(watcher, q.channel, q.status # "failed"), queries \ {q})

RetryFires ==
  /\ watcher.retry # Nil
  /\ UNCHANGED <<store, shown, version, events, connected, reloading>>
  /\ Check([watcher EXCEPT !.retry = Nil], queries)

(* "disconnect": the websocket goes down, what was on its way is lost. *)
Disconnect ==
  /\ "disconnect" \in Faults
  /\ connected
  /\ connected' = FALSE
  /\ events' = [c \in Channels |-> 0]
  /\ UNCHANGED <<store, shown, watcher, queries, version, reloading>>

(* The reconnect handler: CONFIG_LOADING, and a new sequence is under way. *)
Reconnect ==
  /\ ~connected /\ ~watcher.stopped
  /\ connected' = TRUE
  /\ reloading' = "reconnect"
  /\ store' = [store EXCEPT !.config = FALSE]
  /\ Check(watcher, queries)
  /\ UNCHANGED <<shown, version, events>>

(* CONFIG is dispatched; after a reconnect the watcher is refreshed.  Both *)
(* checks of this macrotask see the same store.                            *)
ConfigLoads ==
  /\ reloading # Nil
  /\ reloading' = Nil
  /\ store' = [store EXCEPT !.config = TRUE]
  /\ IF reloading = "reconnect"
     THEN Check(Refreshed(Checked(watcher, store')),
                queries \cup Sent(watcher, store'))
     ELSE Check(watcher, queries)
  /\ UNCHANGED <<shown, version, events, connected>>

(* The sequence gives up: the plugin stays inert until the next reconnect. *)
ConfigGivesUp ==
  /\ "fail" \in Faults
  /\ reloading # Nil
  /\ reloading' = Nil
  /\ UNCHANGED <<store, shown, watcher, queries, version, events, connected>>

(* uninitialize: the configuration loader is stopped, then the watcher. *)
Stop ==
  /\ ~watcher.stopped
  /\ reloading' = Nil
  /\ watcher' = [watcher EXCEPT !.stopped = TRUE, !.retry = Nil, !.debounce = FALSE]
  /\ UNCHANGED <<store, shown, queries, version, events, connected>>

ServerAnswers == Answer \/ AnswerBadly

Next ==
  \/ \E c \in Channels : Open(c) \/ Load(c) \/ Cover(c) \/ DeliverEvent(c)
  \/ DebounceFires \/ ServerAnswers \/ Reply \/ RetryFires
  \/ Disconnect \/ Reconnect \/ ConfigLoads \/ ConfigGivesUp \/ Stop

Spec == Init /\ [][Next]_vars

(* Timers fire and the event loop takes every task; events of a connection *)
(* that stays up arrive; a query that is repeated for ever is answered in  *)
(* the end.                                                                *)
FairSpec ==
  /\ Spec
  /\ \A c \in Channels : WF_vars(DeliverEvent(c))
  /\ WF_vars(DebounceFires) /\ WF_vars(Reply) /\ WF_vars(RetryFires)
  /\ WF_vars(ServerAnswers) /\ SF_vars(Answer)

-----------------------------------------------------------------------------
Live == ~watcher.stopped /\ Ready(store)

(* The watcher is never idle while the current channel waits to be loaded: *)
(* a switch, a failed query or a refresh in any order leaves behind a      *)
(* query that will end or a retry (check and the re-check of done).        *)
NeverIdle ==
  Live /\ watcher.handled # store.current =>
    \/ \E q \in queries : q.channel = watcher.inFlight
    \/ watcher.retry # Nil

(* A retry that waits is one of the current channel.                       *)
RetryIsForCurrent == watcher.retry \in {Nil, store.current}

(* No answer is overtaken by an older one (one query in flight at a time). *)
ShownNeverGoesBack ==
  [][\A c \in Channels : shown'[c] >= shown[c]]_vars

(* As long as no event is missed, outdated counts in the current channel   *)
(* have a reason to be replaced: an event on its way, a refresh to come,   *)
(* or a query that is going to tell the current version.                   *)
StalenessIsPending ==
  Live /\ connected /\ reloading = Nil /\ shown[store.current] # version[store.current] =>
    \/ events[store.current] > 0
    \/ watcher.debounce
    \/ watcher.handled # store.current

(* The configuration loader, as far as the watcher sees it. *)
Loader == INSTANCE ConfigSession WITH
  loaded <- store.config, stopped <- watcher.stopped,
  session <- IF reloading = Nil THEN "settled" ELSE reloading

(* What this module assumes of the loader is what the loader promises.     *)
FollowsSession == Loader!Spec

(* Counts that changed while their channel is on screen, or before, are    *)
(* shown at last, unless the user leaves the channel.                      *)
StatusesCatchUp ==
  \A c \in Channels :
    (store.current = c /\ shown[c] # version[c])
      ~> (shown[c] = version[c] \/ store.current # c \/ ~Live \/ ~connected)
=============================================================================
