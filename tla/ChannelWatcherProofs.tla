------------------------- MODULE ChannelWatcherProofs -------------------------
(***************************************************************************)
(* Theorems about ChannelWatcher, for any channels, kinds of faults and    *)
(* number of changes.                                                      *)
(***************************************************************************)
EXTENDS ChannelWatcher, TLAPS

(* There is at most one query in flight, the one watcher s believes in,    *)
(* and there is one if it believes so; a stopped watcher has no retry.     *)
Consistent(s, qs) ==
  /\ \A q \in qs : qs = {q} /\ s.inFlight = q.channel
  /\ s.inFlight # Nil => \E q \in qs : q.channel = s.inFlight
  /\ s.stopped => s.retry = Nil

(* What is shown is no newer than what the query was told, and that no     *)
(* newer than the server's counts; an event tells of one change.           *)
AnswersAreOld ==
  /\ \A c \in Channels : shown[c] <= version[c] /\ events[c] <= version[c]
  /\ \A q \in queries : q.status = "ok" =>
       q.of \in Versions /\ shown[q.channel] <= q.of /\ q.of <= version[q.channel]

(* Of NeverIdle, what the watcher itself can tell. *)
Waits(s, st) == s.handled = st.current \/ s.inFlight # Nil \/ s.retry # Nil

WatcherInv ==
  /\ Consistent(watcher, queries)
  /\ watcher.retry \in {Nil, store.current}
  /\ Live => Waits(watcher, store)

IInv == TypeOK /\ WatcherInv /\ AnswersAreOld

-----------------------------------------------------------------------------
LEMMA Types == Nil \notin Channels /\ Versions \subseteq Nat /\ 0 \in Versions
BY WatcherAssumption DEF Versions

LEMMA NewQueryType ==
  ASSUME NEW c \in Channels
  PROVE  NewQuery(c) \in Query /\ NewQuery(c).channel = c /\ NewQuery(c).status = "waiting"
BY DEF NewQuery, Query

(* check, whatever state it finds: it keeps the books, never leaves a      *)
(* retry of another channel, and leaves nothing idle.                      *)
LEMMA CheckKeeps ==
  ASSUME NEW s \in Watcher, NEW st \in Store, NEW qs \in SUBSET Query,
         Consistent(s, qs)
  PROVE  /\ Checked(s, st) \in Watcher
         /\ qs \cup Sent(s, st) \in SUBSET Query
         /\ Consistent(Checked(s, st), qs \cup Sent(s, st))
         /\ Checked(s, st).stopped = s.stopped
         /\ Checked(s, st).retry \in {Nil, st.current}
         /\ ~s.stopped /\ Ready(st) => Waits(Checked(s, st), st)
         /\ \A q \in Sent(s, st) : q.status = "waiting"
         /\ Sent(s, st) # {} => qs = {}
<1> DEFINE t == DropForeignRetry(s, st)
<1>1. /\ t \in Watcher /\ t.retry \in {Nil, st.current}
      /\ t.inFlight = s.inFlight /\ t.stopped = s.stopped /\ t.handled = s.handled
  BY DEF DropForeignRetry, Watcher, Store
<1>2. CASE s.stopped
  <2>1. Checked(s, st) = s /\ Sent(s, st) = {}
    BY <1>2 DEF Checked, Sent, Proceeds
  <2> QED
    BY <1>2, <2>1 DEF Consistent
<1>3. CASE ~s.stopped /\ ~Proceeds(s, st)
  <2>1. Checked(s, st) = t /\ Sent(s, st) = {}
    BY <1>3 DEF Checked, Sent
  <2>2. Ready(st) => Waits(t, st)
    BY <1>1, <1>3 DEF Proceeds, Busy, Waits, Ready, Eligible
  <2> HIDE DEF t
  <2> QED
    BY <1>1, <1>3, <2>1, <2>2 DEF Consistent
<1>4. CASE ~s.stopped /\ Proceeds(s, st)
  <2>1. t.inFlight = Nil /\ t.retry = Nil /\ st.current \in Channels /\ qs = {}
    BY <1>1, <1>4, Types DEF Proceeds, Busy, Decided, Store, Consistent, Query
  <2>2. CASE ~Eligible(st)
    <3>1. Checked(s, st) = [t EXCEPT !.handled = st.current] /\ Sent(s, st) = {}
      BY <1>4, <2>2 DEF Checked, Sent, Ready
    <3> HIDE DEF t
    <3> QED
      BY <1>1, <1>4, <2>1, <3>1 DEF Consistent, Watcher, Waits
  <2>3. CASE Ready(st)
    <3>1. /\ Checked(s, st) = [t EXCEPT !.inFlight = st.current]
          /\ Sent(s, st) = {NewQuery(st.current)}
      BY <1>4, <2>3 DEF Checked, Sent, Ready
    <3> HIDE DEF t
    <3>2. /\ Checked(s, st) \in Watcher /\ Checked(s, st).inFlight = st.current
          /\ Checked(s, st).retry = Nil /\ Checked(s, st).stopped = s.stopped
      BY <1>1, <2>1, <3>1 DEF Watcher
    <3>3. qs \cup Sent(s, st) = {NewQuery(st.current)}
      BY <2>1, <3>1
    <3> QED
      BY <1>4, <2>1, <3>1, <3>2, <3>3, NewQueryType, Types DEF Consistent, Waits
  <2>4. CASE Eligible(st) /\ ~Ready(st)
    <3>1. Checked(s, st) = t /\ Sent(s, st) = {}
      BY <1>4, <2>4 DEF Checked, Sent
    <3> HIDE DEF t
    <3> QED
      BY <1>1, <1>4, <2>1, <2>4, <3>1 DEF Consistent
  <2> QED
    BY <2>2, <2>3, <2>4
<1> QED
  BY <1>2, <1>3, <1>4

(* A step that ends with check, on a state whose books are kept. *)
LEMMA AfterCheck ==
  ASSUME NEW s \in Watcher, NEW qs \in SUBSET Query, store' \in Store,
         Consistent(s, qs), Check(s, qs)
  PROVE  /\ watcher' \in Watcher /\ queries' \in SUBSET Query
         /\ WatcherInv'
         /\ \A q \in queries' : q \in qs \/ q.status = "waiting"
<1>1. watcher' = Checked(s, store') /\ queries' = qs \cup Sent(s, store')
  BY DEF Check
<1> QED
  BY <1>1, CheckKeeps DEF WatcherInv, Live

LEMMA RefreshedType ==
  ASSUME NEW s \in Watcher, NEW qs, Consistent(s, qs)
  PROVE  Refreshed(s) \in Watcher /\ Consistent(Refreshed(s), qs)
<1>1. /\ Refreshed(s) \in Watcher
      /\ Refreshed(s).inFlight = s.inFlight /\ Refreshed(s).retry = Nil
      /\ Refreshed(s).stopped = s.stopped
  BY DEF Refreshed, Watcher
<1> QED
  BY <1>1 DEF Consistent

-----------------------------------------------------------------------------
LEMMA InitInv == Init => IInv
<1> SUFFICES ASSUME Init PROVE IInv
  OBVIOUS
<1>1. TypeOK
  BY Types, WatcherAssumption DEF Init, TypeOK, Store, Watcher, Versions
<1>2. WatcherInv
  BY DEF Init, WatcherInv, Consistent, Live, Ready, Eligible, Decided
<1>3. AnswersAreOld
  BY Types DEF Init, AnswersAreOld
<1> QED
  BY <1>1, <1>2, <1>3 DEF IInv

(* A step that only changes the store, and then runs check. *)
LEMMA StoreStep ==
  ASSUME IInv, store' \in Store, Check(watcher, queries),
         UNCHANGED <<shown, version, events>>, connected' \in BOOLEAN,
         reloading' \in {"startup", "reconnect", Nil}
  PROVE  IInv'
<1>1. /\ watcher' \in Watcher /\ queries' \in SUBSET Query /\ WatcherInv'
      /\ \A q \in queries' : q \in queries \/ q.status = "waiting"
  BY AfterCheck DEF IInv, TypeOK, WatcherInv
<1>2. TypeOK'
  BY <1>1 DEF IInv, TypeOK
<1>3. AnswersAreOld'
  BY <1>1 DEF IInv, AnswersAreOld
<1> QED
  BY <1>1, <1>2, <1>3 DEF IInv

LEMMA OpenInv == ASSUME IInv, NEW c \in Channels, Open(c) PROVE IInv'
<1>1. store' \in Store
  BY DEF Open, IInv, TypeOK, Store
<1> QED
  BY <1>1, StoreStep DEF Open, IInv, TypeOK

LEMMA LoadInv == ASSUME IInv, NEW c \in Channels, Load(c) PROVE IInv'
<1>1. store' \in Store
  <2>1. PICK x \in {"known", "ready"} : store' = [store EXCEPT !.stage[c] = x]
    BY DEF Load
  <2>2. [store.stage EXCEPT ![c] = x] \in [Channels -> {"unknown", "known", "ready"}]
    BY DEF IInv, TypeOK, Store
  <2>3. store' = [store EXCEPT !.stage = [store.stage EXCEPT ![c] = x]]
    BY <2>1 DEF IInv, TypeOK, Store
  <2> QED
    BY <2>2, <2>3 DEF IInv, TypeOK, Store
<1> QED
  BY <1>1, StoreStep DEF Load, IInv, TypeOK

(* Steps of the environment, which leave the watcher and its query alone. *)
LEMMA EnvironmentStep ==
  ASSUME IInv, UNCHANGED <<store, shown, watcher, queries>>,
         version' \in [Channels -> Versions], events' \in [Channels -> Versions],
         \A c \in Channels : version[c] <= version'[c] /\ events'[c] <= version'[c],
         connected' \in BOOLEAN, reloading' \in {"startup", "reconnect", Nil}
  PROVE  IInv'
<1>1. TypeOK'
  BY DEF IInv, TypeOK
<1>2. WatcherInv'
  BY DEF IInv, WatcherInv, Live
<1>3. AnswersAreOld'
  <2>1. \A c \in Channels : /\ shown[c] \in Nat /\ version[c] \in Nat
                           /\ version'[c] \in Nat
    BY Types DEF IInv, TypeOK
  <2>2. \A q \in queries : q.channel \in Channels
    BY DEF IInv, TypeOK, Query
  <2>3. \A q \in queries : q.status = "ok" => q.of \in Nat
    BY Types DEF IInv, AnswersAreOld
  <2> QED
    BY <2>1, <2>2, <2>3 DEF IInv, AnswersAreOld
<1> QED
  BY <1>1, <1>2, <1>3 DEF IInv

LEMMA CoverInv == ASSUME IInv, NEW c \in Channels, Cover(c) PROVE IInv'
<1>1. \A d \in Channels : /\ version[d] \in 0..MaxVersion /\ events[d] \in 0..MaxVersion
                         /\ events[d] <= version[d]
  BY DEF IInv, TypeOK, AnswersAreOld, Versions
<1>2. /\ version \in [Channels -> Versions] /\ version[c] < MaxVersion
      /\ version' = [version EXCEPT ![c] = version[c] + 1]
      /\ events \in [Channels -> Versions]
      /\ events' = events \/ events' = [events EXCEPT ![c] = events[c] + 1]
  BY DEF Cover, IInv, TypeOK
<1>3. version[c] + 1 \in Versions /\ events[c] + 1 \in Versions
  BY <1>1, <1>2, WatcherAssumption DEF Versions
<1>4. version' \in [Channels -> Versions] /\ events' \in [Channels -> Versions]
  BY <1>2, <1>3
<1>5. \A d \in Channels : version[d] <= version'[d] /\ events'[d] <= version'[d]
  BY <1>1, <1>2, <1>3
<1> QED
  BY <1>4, <1>5, EnvironmentStep DEF Cover, IInv, TypeOK

LEMMA DisconnectInv == ASSUME IInv, Disconnect PROVE IInv'
<1>1. \A c \in Channels : version[c] \in Nat
  BY Types DEF IInv, TypeOK
<1>2. events' \in [Channels -> Versions] /\ \A c \in Channels : events'[c] = 0
  BY Types DEF Disconnect
<1>3. /\ version' = version /\ version \in [Channels -> Versions]
      /\ UNCHANGED <<store, shown, watcher, queries>>
      /\ connected' \in BOOLEAN /\ reloading' \in {"startup", "reconnect", Nil}
  BY DEF Disconnect, IInv, TypeOK
<1>4. \A c \in Channels : version[c] <= version'[c] /\ events'[c] <= version'[c]
  BY <1>1, <1>2, <1>3
<1> QED
  BY <1>2, <1>3, <1>4, EnvironmentStep

LEMMA ConfigGivesUpInv == ASSUME IInv, ConfigGivesUp PROVE IInv'
<1>1. \A c \in Channels : version[c] \in Nat /\ events[c] <= version[c]
  BY Types DEF IInv, TypeOK, AnswersAreOld
<1> QED
  BY <1>1, EnvironmentStep DEF ConfigGivesUp, IInv, TypeOK

LEMMA DeliverEventInv == ASSUME IInv, NEW c \in Channels, DeliverEvent(c) PROVE IInv'
<1>1. \A d \in Channels : events[d] \in 0..MaxVersion /\ version[d] \in 0..MaxVersion
  BY DEF IInv, TypeOK, Versions
<1>2. events[c] - 1 \in Versions /\ events' = [events EXCEPT ![c] = events[c] - 1]
  BY <1>1, WatcherAssumption DEF DeliverEvent, Versions
<1>3. events' \in [Channels -> Versions] /\ \A d \in Channels : events'[d] <= events[d]
  BY <1>1, <1>2 DEF IInv, TypeOK
<1>4. /\ watcher' \in Watcher /\ watcher'.inFlight = watcher.inFlight
      /\ watcher'.retry = watcher.retry /\ watcher'.handled = watcher.handled
      /\ watcher'.stopped = watcher.stopped
  BY DEF DeliverEvent, IInv, TypeOK, Watcher
<1>5. TypeOK'
  BY <1>3, <1>4 DEF DeliverEvent, IInv, TypeOK
<1>6. WatcherInv'
  BY <1>4 DEF DeliverEvent, IInv, WatcherInv, Consistent, Live, Waits
<1>7. AnswersAreOld'
  <2>1. \A d \in Channels : events'[d] \in Nat /\ events[d] <= version[d]
    BY <1>3, Types DEF IInv, AnswersAreOld
  <2> QED
    BY <1>1, <1>3, <2>1 DEF DeliverEvent, IInv, AnswersAreOld
<1> QED
  BY <1>5, <1>6, <1>7 DEF IInv

LEMMA DebounceFiresInv == ASSUME IInv, DebounceFires PROVE IInv'
<1> DEFINE s == [watcher EXCEPT !.debounce = FALSE]
<1>1. s \in Watcher /\ Consistent(s, queries)
  BY DEF IInv, TypeOK, WatcherInv, Consistent, Watcher
<1>2. Refreshed(s) \in Watcher /\ Consistent(Refreshed(s), queries)
  BY <1>1, RefreshedType
<1>3. /\ watcher' \in Watcher /\ queries' \in SUBSET Query /\ WatcherInv'
      /\ \A q \in queries' : q \in queries \/ q.status = "waiting"
  BY <1>2, AfterCheck DEF DebounceFires, IInv, TypeOK
<1> QED
  BY <1>3 DEF DebounceFires, IInv, TypeOK, AnswersAreOld

LEMMA RetryFiresInv == ASSUME IInv, RetryFires PROVE IInv'
<1> DEFINE s == [watcher EXCEPT !.retry = Nil]
<1>1. s \in Watcher /\ Consistent(s, queries)
  BY DEF IInv, TypeOK, WatcherInv, Consistent, Watcher
<1>2. /\ watcher' \in Watcher /\ queries' \in SUBSET Query /\ WatcherInv'
      /\ \A q \in queries' : q \in queries \/ q.status = "waiting"
  BY <1>1, AfterCheck DEF RetryFires, IInv, TypeOK
<1> QED
  BY <1>2 DEF RetryFires, IInv, TypeOK, AnswersAreOld

(* The server's part of a query: it stays the one in flight. *)
LEMMA AnsweredInv ==
  ASSUME IInv, NEW q \in queries, NEW r \in Query, r.channel = q.channel,
         r.status = "ok" => r.of = version[q.channel], Answered(q, r)
  PROVE  IInv'
<1>1. queries' = {r} /\ q \in Query
  BY DEF Answered, IInv, WatcherInv, Consistent, TypeOK
<1>2. TypeOK'
  BY <1>1 DEF Answered, IInv, TypeOK
<1>3. WatcherInv'
  BY <1>1 DEF Answered, IInv, WatcherInv, Consistent, Live
<1>4. AnswersAreOld'
  <2>1. /\ q.channel \in Channels /\ version[q.channel] \in Versions
        /\ version[q.channel] \in Nat
    BY <1>1, Types DEF IInv, TypeOK, Query
  <2>2. /\ r.status = "ok" => r.of \in Versions /\ r.of <= version[r.channel]
        /\ shown[r.channel] <= version[r.channel]
    BY <2>1 DEF IInv, AnswersAreOld
  <2> QED
    BY <1>1, <2>2 DEF Answered, IInv, AnswersAreOld
<1> QED
  BY <1>2, <1>3, <1>4 DEF IInv

LEMMA ServerAnswersInv == ASSUME IInv, ServerAnswers PROVE IInv'
<1>1. \A q \in queries : q \in Query /\ version[q.channel] \in Versions
  BY DEF IInv, TypeOK, Query
<1>2. ASSUME NEW q \in queries,
             Answered(q, [q EXCEPT !.status = "ok", !.of = version[q.channel]])
      PROVE  IInv'
  <2> DEFINE r == [q EXCEPT !.status = "ok", !.of = version[q.channel]]
  <2>1. r \in Query /\ r.channel = q.channel /\ r.of = version[q.channel]
    BY <1>1 DEF Query
  <2> HIDE DEF r
  <2>2. Answered(q, r)
    BY <1>2 DEF r
  <2> QED
    BY <2>1, <2>2, AnsweredInv
<1>3. ASSUME NEW q \in queries, NEW x \in {"failed", "refused"},
             Answered(q, [q EXCEPT !.status = x])
      PROVE  IInv'
  <2> DEFINE r == [q EXCEPT !.status = x]
  <2>1. r \in Query /\ r.channel = q.channel /\ r.status # "ok"
    BY <1>1 DEF Query
  <2> HIDE DEF r
  <2>2. Answered(q, r)
    BY <1>3 DEF r
  <2> QED
    BY <2>1, <2>2, AnsweredInv
<1> QED
  BY <1>2, <1>3 DEF ServerAnswers, Answer, AnswerBadly

(* done, up to its check: no query is left, and none is believed in. *)
LEMMA DoneType ==
  ASSUME NEW s \in Watcher, NEW c \in Channels, NEW ok \in BOOLEAN,
         s.stopped => s.retry = Nil
  PROVE  Done(s, c, ok) \in Watcher /\ Consistent(Done(s, c, ok), {})
BY DEF Done, Watcher, Consistent

LEMMA ReplyInv == ASSUME IInv, Reply PROVE IInv'
<1>1. PICK q \in queries :
        /\ shown' = IF Dispatches(q) THEN [shown EXCEPT ![q.channel] = q.of] ELSE shown
        /\ UNCHANGED <<store, version, events, connected, reloading>>
        /\ Check(Done(watcher, q.channel, q.status # "failed"), queries \ {q})
  BY DEF Reply, Recheck
<1>2. q \in Query /\ q.channel \in Channels /\ queries \ {q} = {}
  BY DEF IInv, TypeOK, WatcherInv, Consistent, Query
<1> DEFINE s == Done(watcher, q.channel, q.status # "failed")
<1>3. s \in Watcher /\ Consistent(s, {})
  BY <1>2, DoneType DEF IInv, TypeOK, WatcherInv, Consistent
<1>4. /\ watcher' \in Watcher /\ queries' \in SUBSET Query /\ WatcherInv'
      /\ \A g \in queries' : g.status = "waiting"
  BY <1>1, <1>2, <1>3, AfterCheck DEF IInv, TypeOK
<1>5. TypeOK'
  BY <1>1, <1>2, <1>4 DEF IInv, TypeOK, AnswersAreOld, Dispatches
<1>6. AnswersAreOld'
  BY <1>1, <1>2, <1>4 DEF IInv, TypeOK, AnswersAreOld, Dispatches
<1> QED
  BY <1>4, <1>5, <1>6 DEF IInv

LEMMA ReconnectInv == ASSUME IInv, Reconnect PROVE IInv'
<1>1. store' \in Store
  BY DEF Reconnect, IInv, TypeOK, Store
<1> QED
  BY <1>1, StoreStep DEF Reconnect, IInv, TypeOK

LEMMA ConfigLoadsInv == ASSUME IInv, ConfigLoads PROVE IInv'
<1>1. store' \in Store
  BY DEF ConfigLoads, IInv, TypeOK, Store
<1>2. CASE reloading # "reconnect"
  BY <1>1, <1>2, StoreStep DEF ConfigLoads, IInv, TypeOK
<1>3. CASE reloading = "reconnect"
  <2> DEFINE s == Checked(watcher, store')
             qs == queries \cup Sent(watcher, store')
  <2>1. /\ s \in Watcher /\ qs \in SUBSET Query /\ Consistent(s, qs)
        /\ \A q \in Sent(watcher, store') : q.status = "waiting"
    BY <1>1, CheckKeeps DEF IInv, TypeOK, WatcherInv
  <2>2. Refreshed(s) \in Watcher /\ Consistent(Refreshed(s), qs)
    BY <2>1, RefreshedType
  <2>3. Check(Refreshed(s), qs)
    BY <1>3 DEF ConfigLoads
  <2>4. /\ watcher' \in Watcher /\ queries' \in SUBSET Query /\ WatcherInv'
        /\ \A q \in queries' : q \in queries \/ q.status = "waiting"
    <3> HIDE DEF s
    <3> QED BY <1>1, <2>1, <2>2, <2>3, AfterCheck
  <2>5. TypeOK'
    BY <1>1, <2>4 DEF ConfigLoads, IInv, TypeOK
  <2>6. AnswersAreOld'
    BY <2>4 DEF ConfigLoads, IInv, AnswersAreOld
  <2> QED
    BY <2>4, <2>5, <2>6 DEF IInv
<1> QED
  BY <1>2, <1>3

LEMMA StopInv == ASSUME IInv, Stop PROVE IInv'
<1>1. /\ watcher' \in Watcher /\ watcher'.retry = Nil /\ watcher'.stopped
      /\ watcher'.inFlight = watcher.inFlight
  BY DEF Stop, IInv, TypeOK, Watcher
<1>2. TypeOK'
  BY <1>1 DEF Stop, IInv, TypeOK
<1>3. WatcherInv'
  BY <1>1 DEF Stop, IInv, WatcherInv, Consistent, Live
<1>4. AnswersAreOld'
  BY DEF Stop, IInv, AnswersAreOld
<1> QED
  BY <1>2, <1>3, <1>4 DEF IInv

LEMMA StepInv == IInv /\ [Next]_vars => IInv'
<1> SUFFICES ASSUME IInv, [Next]_vars PROVE IInv'
  OBVIOUS
<1>1. CASE UNCHANGED vars
  BY <1>1 DEF vars, IInv, TypeOK, WatcherInv, AnswersAreOld, Live
<1>2. CASE Next
  BY <1>2, OpenInv, LoadInv, CoverInv, DeliverEventInv, DebounceFiresInv,
     ServerAnswersInv, ReplyInv, RetryFiresInv, DisconnectInv, ReconnectInv,
     ConfigLoadsInv, ConfigGivesUpInv, StopInv DEF Next
<1> QED
  BY <1>1, <1>2

LEMMA Invariance == Spec => []IInv
<1>1. Init => IInv
  BY InitInv
<1>2. IInv /\ [Next]_vars => IInv'
  BY StepInv
<1> QED
  BY <1>1, <1>2, PTL DEF Spec

-----------------------------------------------------------------------------
(* Every variable keeps its type. *)
THEOREM WatcherTypeCorrect == Spec => []TypeOK
<1>1. IInv => TypeOK
  BY DEF IInv
<1> QED
  BY <1>1, Invariance, PTL

(* However switches, failures, refreshes and events interleave, a channel  *)
(* that waits to be loaded has a query in flight or a retry.               *)
THEOREM WatcherIsNeverIdle == Spec => []NeverIdle
<1>1. IInv => NeverIdle
  BY DEF IInv, WatcherInv, Consistent, Waits, NeverIdle
<1> QED
  BY <1>1, Invariance, PTL

(* No retry survives a switch to another channel.                          *)
THEOREM RetriesAreForCurrent == Spec => []RetryIsForCurrent
<1>1. IInv => RetryIsForCurrent
  BY DEF IInv, WatcherInv, RetryIsForCurrent
<1> QED
  BY <1>1, Invariance, PTL

(* An older answer never replaces a newer one.                             *)
THEOREM ShownIsMonotone == Spec => ShownNeverGoesBack
<1>1. IInv /\ [Next]_vars => [\A c \in Channels : shown'[c] >= shown[c]]_vars
  <2> SUFFICES ASSUME IInv, Next, NEW c \in Channels PROVE shown'[c] >= shown[c]
    BY DEF vars
  <2>1. shown[c] \in Nat /\ shown \in [Channels -> Versions]
    BY Types DEF IInv, TypeOK
  <2>2. CASE Reply
    <3>1. PICK q \in queries :
            shown' = IF Dispatches(q) THEN [shown EXCEPT ![q.channel] = q.of] ELSE shown
      BY <2>2 DEF Reply
    <3>2. Dispatches(q) => q.of \in Nat /\ shown[q.channel] <= q.of
      BY Types DEF Dispatches, IInv, AnswersAreOld
    <3> QED
      BY <2>1, <3>1, <3>2
  <2>3. CASE UNCHANGED shown
    BY <2>1, <2>3
  <2> QED
    BY <2>2, <2>3 DEF Next, Open, Load, Cover, DeliverEvent, DebounceFires,
       ServerAnswers, Answer, AnswerBadly, Answered, RetryFires, Disconnect,
       Reconnect, ConfigLoads, ConfigGivesUp, Stop
<1> QED
  BY <1>1, Invariance, PTL DEF Spec, ShownNeverGoesBack

-----------------------------------------------------------------------------
(***************************************************************************)
(* StalenessIsPending.  In one session, in which the user neither leaves   *)
(* the channel nor is refused, watcher s has handled nothing but the       *)
(* current channel and asks for nothing else, asks only while nothing is   *)
(* handled, and does neither before the channel's entity is known: until   *)
(* then receipts_changed events are dropped.                               *)
(***************************************************************************)
InSession(s, st, qs) ==
  /\ s.handled \in {Nil, st.current}
  /\ \A q \in qs : q.channel = st.current /\ q.status # "refused"
  /\ qs # {} /\ ~s.stopped => s.handled = Nil
  /\ s.handled # Nil \/ qs # {} =>
       st.current # Nil /\ st.stage[st.current] # "unknown"

(* Nothing happens before the first configuration. *)
NotStarted(s, st, qs, rel) ==
  rel = "startup" => ~st.config /\ s.handled = Nil /\ qs = {}

(* For channel c, watcher s needs no further notice: a handled channel     *)
(* shows sh, what the server has in ve, and an answer on its way tells     *)
(* that too, unless the watcher is going to ask again.                     *)
Fresh(s, qs, c, sh, ve) ==
  /\ s.handled = c => sh[c] = ve[c]
  /\ \A q \in qs : q.channel = c /\ q.status = "ok" =>
       s.refreshRequested \/ q.of = ve[c]

Listening(s, st, con) == ~s.stopped /\ con /\ st.config

FreshUnlessNoticed ==
  Listening(watcher, store, connected) =>
    \A c \in Enabled : events[c] = 0 /\ ~watcher.debounce =>
      Fresh(watcher, queries, c, shown, version)

SessionInv ==
  /\ InSession(watcher, store, queries)
  /\ NotStarted(watcher, store, queries, reloading)
  /\ FreshUnlessNoticed

(* What check leaves alone; it handles a channel unasked only when that    *)
(* channel is not eligible.                                                *)
LEMMA CheckInSession ==
  ASSUME NEW s \in Watcher, NEW st \in Store, NEW qs \in SUBSET Query,
         Consistent(s, qs), InSession(s, st, qs)
  PROVE  /\ InSession(Checked(s, st), st, qs \cup Sent(s, st))
         /\ Checked(s, st).stopped = s.stopped
         /\ Checked(s, st).debounce = s.debounce
         /\ Checked(s, st).refreshRequested = s.refreshRequested
         /\ \A c \in Enabled : Checked(s, st).handled = c => s.handled = c
         /\ \A q \in Sent(s, st) : q.status = "waiting"
         /\ ~st.config => Checked(s, st).handled = s.handled /\ Sent(s, st) = {}
<1> DEFINE t == DropForeignRetry(s, st)
<1>1. /\ t \in Watcher /\ t.inFlight = s.inFlight /\ t.stopped = s.stopped
      /\ t.handled = s.handled /\ t.debounce = s.debounce
      /\ t.refreshRequested = s.refreshRequested
  BY DEF DropForeignRetry, Watcher
<1>2. CASE s.stopped
  <2>1. Checked(s, st) = s /\ Sent(s, st) = {}
    BY <1>2 DEF Checked, Sent, Proceeds
  <2> QED
    BY <2>1
<1>3. CASE ~s.stopped /\ ~Proceeds(s, st)
  <2>1. Checked(s, st) = t /\ Sent(s, st) = {}
    BY <1>3 DEF Checked, Sent
  <2> HIDE DEF t
  <2> QED
    BY <1>1, <2>1 DEF InSession
<1>4. CASE ~s.stopped /\ Proceeds(s, st)
  <2>1. /\ st.current \in Channels /\ st.current # Nil /\ st.config
        /\ st.stage[st.current] # "unknown" /\ qs = {} /\ s.handled = Nil
    BY <1>1, <1>4, Types
    DEF Proceeds, Busy, Decided, Store, Consistent, Query, InSession
  <2>2. CASE ~Eligible(st)
    <3>1. Checked(s, st) = [t EXCEPT !.handled = st.current] /\ Sent(s, st) = {}
      BY <1>4, <2>2 DEF Checked, Sent, Ready
    <3>2. st.current \notin Enabled
      BY <1>4, <2>2 DEF Eligible, Proceeds
    <3> HIDE DEF t
    <3> QED
      BY <1>1, <2>1, <3>1, <3>2 DEF InSession, Watcher
  <2>3. CASE Ready(st)
    <3>1. /\ Checked(s, st) = [t EXCEPT !.inFlight = st.current]
          /\ Sent(s, st) = {NewQuery(st.current)}
      BY <1>4, <2>3 DEF Checked, Sent, Ready
    <3> HIDE DEF t
    <3> QED
      BY <1>1, <2>1, <3>1, NewQueryType DEF InSession, Watcher
  <2>4. CASE Eligible(st) /\ ~Ready(st)
    <3>1. Checked(s, st) = t /\ Sent(s, st) = {}
      BY <1>4, <2>4 DEF Checked, Sent
    <3> HIDE DEF t
    <3> QED
      BY <1>1, <2>1, <3>1 DEF InSession
  <2> QED
    BY <2>2, <2>3, <2>4
<1> QED
  BY <1>2, <1>3, <1>4

(* A step that ends with check, seen from the state check starts from. *)
LEMMA AfterCheckSession ==
  ASSUME NEW s \in Watcher, NEW qs \in SUBSET Query, store' \in Store,
         Consistent(s, qs), Check(s, qs), InSession(s, store', qs),
         reloading' = "startup" => ~store'.config /\ s.handled = Nil /\ qs = {},
         Listening(s, store', connected') =>
           \A c \in Enabled : events'[c] = 0 /\ ~s.debounce =>
             Fresh(s, qs, c, shown', version')
  PROVE  SessionInv'
<1>1. watcher' = Checked(s, store') /\ queries' = qs \cup Sent(s, store')
  BY DEF Check
<1>2. /\ InSession(watcher', store', queries')
      /\ watcher'.stopped = s.stopped /\ watcher'.debounce = s.debounce
      /\ watcher'.refreshRequested = s.refreshRequested
      /\ \A c \in Enabled : watcher'.handled = c => s.handled = c
      /\ \A q \in queries' : q \in qs \/ q.status = "waiting"
      /\ ~store'.config => watcher'.handled = s.handled /\ queries' = qs
  BY <1>1, CheckInSession
<1>3. NotStarted(watcher', store', queries', reloading')
  BY <1>2 DEF NotStarted
<1>4. ASSUME Listening(watcher', store', connected'), NEW c \in Enabled,
             events'[c] = 0, ~watcher'.debounce
      PROVE  Fresh(watcher', queries', c, shown', version')
  <2>1. Fresh(s, qs, c, shown', version')
    BY <1>2, <1>4 DEF Listening
  <2> QED
    BY <1>2, <2>1 DEF Fresh
<1> QED
  BY <1>2, <1>3, <1>4 DEF SessionInv, FreshUnlessNoticed

LEMMA InitSession == Init => SessionInv
<1> SUFFICES ASSUME Init PROVE SessionInv
  OBVIOUS
<1>1. InSession(watcher, store, queries) /\ NotStarted(watcher, store, queries, reloading)
  BY DEF Init, InSession, NotStarted
<1>2. FreshUnlessNoticed
  BY DEF Init, FreshUnlessNoticed, Listening
<1> QED
  BY <1>1, <1>2 DEF SessionInv

(* A step that changes the store but not whether it has a configuration.   *)
LEMMA StoreSession ==
  ASSUME IInv, SessionInv, store' \in Store, Check(watcher, queries),
         InSession(watcher, store', queries), store'.config = store.config,
         UNCHANGED <<shown, version, events, connected, reloading>>
  PROVE  SessionInv'
<1>1. /\ watcher \in Watcher /\ queries \in SUBSET Query
      /\ Consistent(watcher, queries)
  BY DEF IInv, TypeOK, WatcherInv
<1>2. reloading' = "startup" => ~store'.config /\ watcher.handled = Nil /\ queries = {}
  BY DEF SessionInv, NotStarted
<1>3. Listening(watcher, store', connected') =>
        \A c \in Enabled : events'[c] = 0 /\ ~watcher.debounce =>
          Fresh(watcher, queries, c, shown', version')
  BY DEF SessionInv, FreshUnlessNoticed, Listening
<1> QED
  BY <1>1, <1>2, <1>3, AfterCheckSession

LEMMA OpenSession ==
  ASSUME "switch" \notin Faults, IInv, SessionInv, NEW c \in Channels, Open(c)
  PROVE  SessionInv'
<1>1. /\ store' \in Store /\ store'.config = store.config
      /\ store.current = Nil
  BY DEF Open, IInv, TypeOK, Store
<1>2. watcher.handled = Nil /\ queries = {}
  BY <1>1 DEF SessionInv, InSession
<1> QED
  BY <1>1, <1>2, StoreSession DEF Open, InSession

LEMMA LoadSession ==
  ASSUME IInv, SessionInv, NEW c \in Channels, Load(c)
  PROVE  SessionInv'
<1>1. PICK x \in {"known", "ready"} : store' = [store EXCEPT !.stage[c] = x]
  BY DEF Load
<1>2. [store.stage EXCEPT ![c] = x] \in [Channels -> {"unknown", "known", "ready"}]
  BY DEF IInv, TypeOK, Store
<1>3. store' = [store EXCEPT !.stage = [store.stage EXCEPT ![c] = x]]
  BY <1>1 DEF IInv, TypeOK, Store
<1>4. /\ store' \in Store /\ store'.config = store.config
      /\ store'.current = store.current
      /\ store'.stage = [store.stage EXCEPT ![c] = x]
  BY <1>2, <1>3 DEF IInv, TypeOK, Store
<1>5. \A d \in Channels : store.stage[d] # "unknown" => store'.stage[d] # "unknown"
  BY <1>4 DEF IInv, TypeOK, Store
<1>6. store.current \in Channels \cup {Nil}
  BY DEF IInv, TypeOK, Store
<1>7. InSession(watcher, store', queries)
  BY <1>4, <1>5, <1>6 DEF SessionInv, InSession
<1> QED
  BY <1>4, <1>7, StoreSession DEF Load

LEMMA CoverSession ==
  ASSUME IInv, SessionInv, NEW c \in Channels, Cover(c)
  PROVE  SessionInv'
<1>1. events[c] \in Nat
  BY Types DEF IInv, TypeOK
<1>2. UNCHANGED <<store, shown, watcher, queries, connected, reloading>>
  BY DEF Cover
<1>3. ASSUME Listening(watcher, store, connected), NEW d \in Enabled,
             events'[d] = 0, ~watcher.debounce
      PROVE  Fresh(watcher, queries, d, shown, version')
  <2>1. d # c /\ events[d] = 0 /\ version'[d] = version[d]
    BY <1>1, <1>3, WatcherAssumption DEF Cover, IInv, TypeOK, Listening
  <2> QED
    BY <1>3, <2>1 DEF Fresh, SessionInv, FreshUnlessNoticed
<1> QED
  BY <1>2, <1>3 DEF SessionInv, FreshUnlessNoticed, NotStarted, InSession, Listening, Fresh

(* An event of the current channel, or of one that is neither handled nor  *)
(* asked for.                                                              *)
LEMMA DeliverEventSession ==
  ASSUME IInv, SessionInv, NEW c \in Channels, DeliverEvent(c)
  PROVE  SessionInv'
<1>1. /\ watcher' \in Watcher
      /\ watcher'.handled = watcher.handled /\ watcher'.stopped = watcher.stopped
      /\ watcher'.refreshRequested = watcher.refreshRequested
      /\ watcher.debounce => watcher'.debounce
  BY DEF DeliverEvent, IInv, TypeOK, Watcher
<1>2. UNCHANGED <<store, shown, queries, version, connected, reloading>>
  BY DEF DeliverEvent
<1>3. InSession(watcher', store', queries') /\ NotStarted(watcher', store', queries', reloading')
  BY <1>1, <1>2 DEF SessionInv, InSession, NotStarted
<1>4. ASSUME Listening(watcher', store', connected'), NEW d \in Enabled,
             events'[d] = 0, ~watcher'.debounce
      PROVE  Fresh(watcher', queries', d, shown', version')
  <2>1. CASE d = c
    <3>1. store.current # c \/ store.stage[c] = "unknown"
      BY <1>1, <1>4 DEF DeliverEvent, Listening, IInv, TypeOK, Watcher
    <3>2. watcher.handled # c /\ \A q \in queries : q.channel # c
      BY <3>1, Types DEF SessionInv, InSession
    <3> QED
      BY <1>1, <1>2, <2>1, <3>2 DEF Fresh
  <2>2. CASE d # c
    <3>1. events[d] = 0
      BY <1>4, <2>2, WatcherAssumption DEF DeliverEvent, IInv, TypeOK
    <3>2. Fresh(watcher, queries, d, shown, version)
      BY <1>1, <1>2, <1>4, <3>1 DEF SessionInv, FreshUnlessNoticed, Listening
    <3> QED
      BY <1>1, <1>2, <3>2 DEF Fresh
  <2> QED
    BY <2>1, <2>2
<1> QED
  BY <1>3, <1>4 DEF SessionInv, FreshUnlessNoticed

(* refresh: nothing is handled any more, and a query in flight will be     *)
(* followed by another one.                                                *)
LEMMA RefreshedIsFresh ==
  ASSUME NEW s \in Watcher, NEW st \in Store, NEW qs \in SUBSET Query,
         Consistent(s, qs), InSession(s, st, qs)
  PROVE  /\ InSession(Refreshed(s), st, qs)
         /\ Refreshed(s).handled = Nil
         /\ Refreshed(s).stopped = s.stopped
         /\ \A c \in Channels : Fresh(Refreshed(s), qs, c, shown', version')
<1>1. /\ Refreshed(s).handled = Nil /\ Refreshed(s).stopped = s.stopped
      /\ s.inFlight # Nil => Refreshed(s).refreshRequested
  BY DEF Refreshed, Watcher
<1>2. \A q \in qs : s.inFlight # Nil
  BY Types DEF Consistent, Query
<1> QED
  BY <1>1, <1>2, Types DEF InSession, Fresh

LEMMA DebounceFiresSession == ASSUME IInv, SessionInv, DebounceFires PROVE SessionInv'
<1> DEFINE s == [watcher EXCEPT !.debounce = FALSE]
<1>1. /\ s \in Watcher /\ Consistent(s, queries) /\ InSession(s, store, queries)
      /\ s.handled = watcher.handled
  BY DEF IInv, TypeOK, WatcherInv, Consistent, Watcher, SessionInv, InSession
<1>2. Refreshed(s) \in Watcher /\ Consistent(Refreshed(s), queries)
  BY <1>1, RefreshedType
<1>3. store \in Store /\ queries \in SUBSET Query
  BY DEF IInv, TypeOK
<1>4. /\ Check(Refreshed(s), queries)
      /\ UNCHANGED <<store, shown, version, events, connected, reloading>>
  BY DEF DebounceFires
<1> HIDE DEF s
<1>5. /\ InSession(Refreshed(s), store, queries) /\ Refreshed(s).handled = Nil
      /\ \A c \in Channels : Fresh(Refreshed(s), queries, c, shown', version')
  BY <1>1, <1>3, RefreshedIsFresh
<1>6. reloading' = "startup" => ~store'.config /\ queries = {}
  BY <1>4 DEF SessionInv, NotStarted
<1> QED
  BY <1>2, <1>3, <1>4, <1>5, <1>6, AfterCheckSession, WatcherAssumption

LEMMA RetryFiresSession == ASSUME IInv, SessionInv, RetryFires PROVE SessionInv'
<1> DEFINE s == [watcher EXCEPT !.retry = Nil]
<1>1. /\ s \in Watcher /\ Consistent(s, queries) /\ InSession(s, store, queries)
      /\ s.handled = watcher.handled /\ s.stopped = watcher.stopped
      /\ s.debounce = watcher.debounce
      /\ s.refreshRequested = watcher.refreshRequested
  BY DEF IInv, TypeOK, WatcherInv, Consistent, Watcher, SessionInv, InSession
<1>2. store \in Store /\ queries \in SUBSET Query
  BY DEF IInv, TypeOK
<1>3. /\ Check(s, queries)
      /\ UNCHANGED <<store, shown, version, events, connected, reloading>>
  BY DEF RetryFires
<1> HIDE DEF s
<1>4. reloading' = "startup" => ~store'.config /\ s.handled = Nil /\ queries = {}
  BY <1>1, <1>3 DEF SessionInv, NotStarted
<1>5. Listening(s, store', connected') =>
        \A c \in Enabled : events'[c] = 0 /\ ~s.debounce =>
          Fresh(s, queries, c, shown', version')
  BY <1>1, <1>3 DEF SessionInv, FreshUnlessNoticed, Listening, Fresh
<1> QED
  BY <1>1, <1>2, <1>3, <1>4, <1>5, AfterCheckSession

(* The server's part of a query: the counts it tells are the latest.       *)
LEMMA AnsweredSession ==
  ASSUME IInv, SessionInv, NEW q \in queries, NEW r \in Query,
         r.channel = q.channel, r.status # "refused",
         r.status = "ok" => r.of = version[q.channel], Answered(q, r)
  PROVE  SessionInv'
<1>1. queries' = {r} /\ queries = {q}
  BY DEF Answered, IInv, WatcherInv, Consistent
<1>2. UNCHANGED <<store, shown, watcher, version, events, connected, reloading>>
  BY DEF Answered
<1>3. /\ InSession(watcher', store', queries')
      /\ NotStarted(watcher', store', queries', reloading')
  BY <1>1, <1>2 DEF SessionInv, InSession, NotStarted
<1>4. FreshUnlessNoticed'
  BY <1>1, <1>2 DEF SessionInv, FreshUnlessNoticed, Listening, Fresh
<1> QED
  BY <1>3, <1>4 DEF SessionInv

LEMMA ServerAnswersSession ==
  ASSUME "refuse" \notin Faults, IInv, SessionInv, ServerAnswers
  PROVE  SessionInv'
<1>1. \A q \in queries : q \in Query /\ version[q.channel] \in Versions
  BY DEF IInv, TypeOK, Query
<1>2. ASSUME NEW q \in queries,
             Answered(q, [q EXCEPT !.status = "ok", !.of = version[q.channel]])
      PROVE  SessionInv'
  <2> DEFINE r == [q EXCEPT !.status = "ok", !.of = version[q.channel]]
  <2>1. /\ r \in Query /\ r.channel = q.channel /\ r.of = version[q.channel]
        /\ r.status = "ok"
    BY <1>1 DEF Query
  <2> HIDE DEF r
  <2>2. Answered(q, r)
    BY <1>2 DEF r
  <2> QED
    BY <2>1, <2>2, AnsweredSession
<1>3. ASSUME NEW q \in queries, Answered(q, [q EXCEPT !.status = "failed"])
      PROVE  SessionInv'
  <2> DEFINE r == [q EXCEPT !.status = "failed"]
  <2>1. r \in Query /\ r.channel = q.channel /\ r.status = "failed"
    BY <1>1 DEF Query
  <2> HIDE DEF r
  <2>2. Answered(q, r)
    BY <1>3 DEF r
  <2> QED
    BY <2>1, <2>2, AnsweredSession
<1> QED
  BY <1>2, <1>3 DEF ServerAnswers, Answer, AnswerBadly

(* done handles the channel only if the counts that arrived are the latest *)
(* or a notice of newer ones is to come.                                   *)
LEMMA ReplySession == ASSUME IInv, SessionInv, Reply PROVE SessionInv'
<1>1. PICK q \in queries :
        /\ shown' = IF Dispatches(q) THEN [shown EXCEPT ![q.channel] = q.of] ELSE shown
        /\ UNCHANGED <<store, version, events, connected, reloading>>
        /\ Check(Done(watcher, q.channel, q.status # "failed"), queries \ {q})
        /\ q.status # "waiting"
  BY DEF Reply, Recheck
<1>2. /\ q \in Query /\ q.channel \in Channels /\ queries \ {q} = {}
      /\ q.channel = store.current /\ q.status \in {"failed", "ok"}
      /\ store.stage[store.current] # "unknown"
      /\ ~watcher.stopped => watcher.handled = Nil
      /\ reloading # "startup" /\ store \in Store /\ watcher \in Watcher
  BY <1>1 DEF IInv, TypeOK, WatcherInv, Consistent, Query, SessionInv, InSession,
     NotStarted
<1> DEFINE s == Done(watcher, q.channel, q.status # "failed")
<1>3. s \in Watcher /\ Consistent(s, {})
  BY <1>2, DoneType DEF IInv, WatcherInv, Consistent
<1>4. /\ s.stopped = watcher.stopped /\ s.debounce = watcher.debounce
      /\ s.stopped => s.handled = watcher.handled
      /\ ~s.stopped => \/ s.handled = Nil
                       \/ /\ s.handled = q.channel /\ q.status = "ok"
                          /\ ~watcher.refreshRequested
  BY <1>2 DEF Done, Watcher
<1>5. Check(s, {})
  BY <1>1, <1>2
<1> HIDE DEF s
<1>6. InSession(s, store', {})
  BY <1>1, <1>2, <1>4, Types DEF SessionInv, InSession
<1>7. ASSUME Listening(s, store', connected'), NEW c \in Enabled,
             events'[c] = 0, ~s.debounce
      PROVE  Fresh(s, {}, c, shown', version')
  <2>1. SUFFICES ASSUME s.handled = c PROVE shown'[c] = version[c]
    BY <1>1 DEF Fresh
  <2>2. /\ c \in Channels /\ c # Nil /\ q.channel = c /\ q.status = "ok"
        /\ ~watcher.refreshRequested
    BY <1>4, <1>7, <2>1, WatcherAssumption DEF Listening
  <2>3. Fresh(watcher, queries, c, shown, version)
    BY <1>1, <1>4, <1>7 DEF SessionInv, FreshUnlessNoticed, Listening
  <2>4. q.of = version[c]
    BY <2>2, <2>3 DEF Fresh
  <2> QED
    BY <1>1, <2>2, <2>4 DEF Dispatches, IInv, TypeOK
<1>8. store' \in Store /\ {} \in SUBSET Query
      /\ (reloading' = "startup" => ~store'.config /\ s.handled = Nil /\ {} = {})
  BY <1>1, <1>2
<1> QED
  BY <1>3, <1>5, <1>6, <1>7, <1>8, AfterCheckSession

(* A connection that goes down promises nothing until the next             *)
(* configuration, which comes with a refresh.                              *)
LEMMA DisconnectSession == ASSUME SessionInv, Disconnect PROVE SessionInv'
BY DEF Disconnect, SessionInv, InSession, NotStarted, FreshUnlessNoticed, Listening

LEMMA ReconnectSession == ASSUME IInv, SessionInv, Reconnect PROVE SessionInv'
<1>1. /\ store' \in Store /\ ~store'.config /\ store'.current = store.current
      /\ store'.stage = store.stage
  BY DEF Reconnect, IInv, TypeOK, Store
<1>2. /\ watcher \in Watcher /\ queries \in SUBSET Query
      /\ Consistent(watcher, queries)
  BY DEF IInv, TypeOK, WatcherInv
<1>3. InSession(watcher, store', queries)
  BY <1>1 DEF SessionInv, InSession
<1>4. Check(watcher, queries) /\ reloading' = "reconnect"
  BY DEF Reconnect
<1> QED
  BY <1>1, <1>2, <1>3, <1>4, AfterCheckSession DEF Listening

LEMMA ConfigLoadsSession == ASSUME IInv, SessionInv, ConfigLoads PROVE SessionInv'
<1>1. /\ store' \in Store /\ store'.current = store.current
      /\ store'.stage = store.stage
  BY DEF ConfigLoads, IInv, TypeOK, Store
<1>2. /\ watcher \in Watcher /\ queries \in SUBSET Query
      /\ Consistent(watcher, queries)
  BY DEF IInv, TypeOK, WatcherInv
<1>3. InSession(watcher, store', queries)
  BY <1>1 DEF SessionInv, InSession
<1>4. reloading' # "startup"
  BY WatcherAssumption DEF ConfigLoads
<1>5. CASE reloading = "startup"
  <2>1. watcher.handled = Nil /\ queries = {}
    BY <1>5 DEF SessionInv, NotStarted
  <2>2. Check(watcher, queries)
    BY <1>5 DEF ConfigLoads
  <2>3. \A c \in Enabled : Fresh(watcher, queries, c, shown', version')
    BY <2>1, WatcherAssumption DEF Fresh
  <2> QED
    BY <1>1, <1>2, <1>3, <1>4, <2>1, <2>2, <2>3, AfterCheckSession
<1>6. CASE reloading = "reconnect"
  <2> DEFINE s == Checked(watcher, store')
             qs == queries \cup Sent(watcher, store')
  <2>1. /\ s \in Watcher /\ qs \in SUBSET Query /\ Consistent(s, qs)
        /\ InSession(s, store', qs)
    BY <1>1, <1>2, <1>3, CheckKeeps, CheckInSession
  <2>2. Check(Refreshed(s), qs)
    BY <1>6 DEF ConfigLoads
  <2> HIDE DEF s, qs
  <2>3. /\ InSession(Refreshed(s), store', qs)
        /\ \A c \in Channels : Fresh(Refreshed(s), qs, c, shown', version')
    BY <1>1, <2>1, RefreshedIsFresh
  <2>4. Refreshed(s) \in Watcher /\ Consistent(Refreshed(s), qs)
    BY <2>1, RefreshedType
  <2> QED
    BY <1>1, <1>4, <2>1, <2>2, <2>3, <2>4, AfterCheckSession, WatcherAssumption
<1> QED
  BY <1>5, <1>6 DEF ConfigLoads, IInv, TypeOK

LEMMA StopSession == ASSUME IInv, SessionInv, Stop PROVE SessionInv'
<1>1. /\ watcher'.stopped /\ watcher'.handled = watcher.handled
      /\ UNCHANGED <<store, queries>>
      /\ reloading' # "startup"
  BY WatcherAssumption DEF Stop, IInv, TypeOK, Watcher
<1> QED
  BY <1>1 DEF SessionInv, InSession, NotStarted, FreshUnlessNoticed, Listening

LEMMA StepSession ==
  ASSUME "switch" \notin Faults, "refuse" \notin Faults
  PROVE  IInv /\ SessionInv /\ [Next]_vars => SessionInv'
<1> SUFFICES ASSUME IInv, SessionInv, [Next]_vars PROVE SessionInv'
  OBVIOUS
<1>1. CASE UNCHANGED vars
  BY <1>1 DEF vars, SessionInv, FreshUnlessNoticed
<1>2. CASE ConfigGivesUp
  BY <1>2, WatcherAssumption
  DEF ConfigGivesUp, SessionInv, NotStarted, FreshUnlessNoticed
<1>3. CASE Next
  BY <1>2, <1>3, OpenSession, LoadSession, CoverSession, DeliverEventSession,
     DebounceFiresSession, ServerAnswersSession, ReplySession, RetryFiresSession,
     DisconnectSession, ReconnectSession, ConfigLoadsSession, StopSession DEF Next
<1> QED
  BY <1>1, <1>3

(* As long as the user stays in a channel that the server does not refuse, *)
(* whatever reads, failed queries, refreshes and reconnections come in     *)
(* between: counts the watcher shows as handled are the server's, or a     *)
(* notice or a refresh is on its way.                                      *)
THEOREM StaleCountsHaveAReason ==
  ASSUME "switch" \notin Faults, "refuse" \notin Faults
  PROVE  Spec => []StalenessIsPending
<1>1. Init => SessionInv
  BY InitSession
<1>2. IInv /\ SessionInv /\ [Next]_vars => SessionInv'
  BY StepSession
<1>3. IInv /\ SessionInv => StalenessIsPending
  <2> SUFFICES ASSUME IInv, SessionInv, Live, connected,
                      shown[store.current] # version[store.current],
                      ~(events[store.current] > 0), ~watcher.debounce
               PROVE  watcher.handled # store.current
    BY DEF StalenessIsPending
  <2>1. store.current \in Enabled /\ store.current \in Channels
    BY WatcherAssumption DEF Live, Ready, Eligible
  <2>2. events[store.current] = 0
    <3>1. events[store.current] \in Nat
      BY <2>1, Types DEF IInv, TypeOK
    <3> QED
      BY <3>1
  <2>3. Listening(watcher, store, connected)
    BY DEF Listening, Live, Ready, Eligible, Decided
  <2>4. Fresh(watcher, queries, store.current, shown, version)
    BY <2>1, <2>2, <2>3 DEF SessionInv, FreshUnlessNoticed
  <2> QED
    BY <2>4 DEF Fresh
<1> QED
  BY <1>1, <1>2, <1>3, Invariance, PTL DEF Spec

(* check leaves the plugin running or stopped as it was, refresh too.      *)
LEMMA StillRunning ==
  ASSUME NEW s \in Watcher, NEW st \in Store
  PROVE  /\ Checked(s, st).stopped = s.stopped
         /\ Refreshed(s).stopped = s.stopped
BY DEF Checked, DropForeignRetry, Refreshed, Watcher

(* A step that only runs check.                                            *)
LEMMA CheckOutsideSession ==
  ASSUME IInv, store' \in Store, store'.config = store.config,
         NEW s \in Watcher, s.stopped = watcher.stopped,
         watcher' = Checked(s, store'), reloading' = reloading
  PROVE  UNCHANGED Loader!vars
BY StillRunning DEF Loader!vars

LEMMA StoreOutsideSession ==
  ASSUME IInv, NEW c \in Channels, Open(c) \/ Load(c)
  PROVE  UNCHANGED Loader!vars
<1>1. store'.config = store.config /\ store' \in Store
  <2>1. CASE Open(c)
    BY <2>1 DEF Open, IInv, TypeOK, Store
  <2>2. CASE Load(c)
    <3>1. PICK x \in {"known", "ready"} : store' = [store EXCEPT !.stage[c] = x]
      BY <2>2 DEF Load
    <3>2. [store.stage EXCEPT ![c] = x] \in [Channels -> {"unknown", "known", "ready"}]
      BY DEF IInv, TypeOK, Store
    <3>3. store' = [store EXCEPT !.stage = [store.stage EXCEPT ![c] = x]]
      BY <3>1 DEF IInv, TypeOK, Store
    <3> QED
      BY <3>2, <3>3 DEF IInv, TypeOK, Store
  <2> QED
    BY <2>1, <2>2
<1> QED
  BY <1>1, CheckOutsideSession DEF Open, Load, Check, IInv, TypeOK

LEMMA TimersOutsideSession ==
  ASSUME IInv, DebounceFires \/ RetryFires \/ Reply
  PROVE  UNCHANGED Loader!vars
<1>1. CASE DebounceFires
  <2> DEFINE s == [watcher EXCEPT !.debounce = FALSE]
  <2>1. s \in Watcher /\ s.stopped = watcher.stopped
    BY DEF IInv, TypeOK, Watcher
  <2>2. Refreshed(s) \in Watcher /\ Refreshed(s).stopped = watcher.stopped
    BY <2>1 DEF Refreshed, Watcher
  <2>3. watcher' = Checked(Refreshed(s), store') /\ UNCHANGED <<store, reloading>>
    BY <1>1 DEF DebounceFires, Check
  <2> HIDE DEF s
  <2> QED
    BY <2>2, <2>3, CheckOutsideSession DEF IInv, TypeOK
<1>2. CASE RetryFires
  <2> DEFINE s == [watcher EXCEPT !.retry = Nil]
  <2>1. s \in Watcher /\ s.stopped = watcher.stopped
    BY DEF IInv, TypeOK, Watcher
  <2>2. watcher' = Checked(s, store') /\ UNCHANGED <<store, reloading>>
    BY <1>2 DEF RetryFires, Check
  <2> HIDE DEF s
  <2> QED
    BY <2>1, <2>2, CheckOutsideSession DEF IInv, TypeOK
<1>3. CASE Reply
  <2>1. PICK q \in queries :
          /\ watcher' = Checked(Done(watcher, q.channel, q.status # "failed"), store')
          /\ UNCHANGED <<store, reloading>>
    BY <1>3 DEF Reply, Recheck, Check
  <2> DEFINE s == Done(watcher, q.channel, q.status # "failed")
  <2>2. s \in Watcher /\ s.stopped = watcher.stopped
    BY DEF Done, IInv, TypeOK, Watcher, Query
  <2> HIDE DEF s
  <2>3. watcher' = Checked(s, store')
    BY <2>1 DEF s
  <2> QED
    BY <2>1, <2>2, <2>3, CheckOutsideSession DEF IInv, TypeOK
<1> QED
  BY <1>1, <1>2, <1>3

LEMMA ReconnectSessionStep == ASSUME IInv, Reconnect PROVE Loader!Reconnect
<1>1. store' \in Store /\ ~store'.config
  BY DEF Reconnect, IInv, TypeOK, Store
<1>2. watcher'.stopped = watcher.stopped
  BY <1>1, StillRunning DEF Reconnect, Check, IInv, TypeOK
<1> QED
  BY <1>1, <1>2, WatcherAssumption DEF Reconnect, Loader!Reconnect, IInv, TypeOK, Store

LEMMA ConfigLoadsSessionStep == ASSUME IInv, ConfigLoads PROVE Loader!Load
<1>1. store' \in Store /\ store'.config = TRUE
  BY DEF ConfigLoads, IInv, TypeOK, Store
<1>2. watcher \in Watcher /\ Consistent(watcher, queries) /\ queries \in SUBSET Query
  BY DEF IInv, TypeOK, WatcherInv
<1>3. watcher'.stopped = watcher.stopped
  <2> DEFINE s == Checked(watcher, store')
  <2>1. s \in Watcher /\ s.stopped = watcher.stopped
    BY <1>1, <1>2, CheckKeeps
  <2>2. watcher' = Checked(watcher, store') \/ watcher' = Checked(Refreshed(s), store')
    BY DEF ConfigLoads, Check
  <2> HIDE DEF s
  <2>3. Refreshed(s) \in Watcher /\ Refreshed(s).stopped = s.stopped
    BY <2>1 DEF Refreshed, Watcher
  <2> QED
    BY <1>1, <1>2, <2>1, <2>2, <2>3, StillRunning
<1>4. reloading \in {"startup", "reconnect"} /\ reloading' = Nil
  BY DEF ConfigLoads, IInv, TypeOK
<1> QED
  BY <1>1, <1>3, <1>4, WatcherAssumption DEF Loader!Load

(* The watcher's module uses the loader as the loader promises to behave:  *)
(* its configuration steps are those of a session, and nothing else the    *)
(* watcher does touches the session.                                       *)
THEOREM WatcherFollowsSession == Spec => FollowsSession
<1>1. Init => Loader!Init
  BY WatcherAssumption DEF Init, Loader!Init
<1>2. IInv /\ [Next]_vars => [Loader!Next]_(Loader!vars)
  <2> SUFFICES ASSUME IInv, [Next]_vars PROVE [Loader!Next]_(Loader!vars)
    OBVIOUS
  <2>1. ASSUME NEW c \in Channels, Cover(c) \/ DeliverEvent(c)
        PROVE  UNCHANGED Loader!vars
    BY <2>1 DEF Cover, DeliverEvent, Loader!vars, IInv, TypeOK, Watcher
  <2>2. CASE ServerAnswers \/ Disconnect \/ UNCHANGED vars
    BY <2>2 DEF ServerAnswers, Answer, AnswerBadly, Answered, Disconnect, vars,
       Loader!vars
  <2>3. CASE ConfigGivesUp
    BY <2>3 DEF ConfigGivesUp, Loader!Next, Loader!GiveUp, IInv, TypeOK
  <2>4. CASE Stop
    BY <2>4 DEF Stop, Loader!Next, Loader!Stop, IInv, TypeOK, Watcher
  <2> QED
    BY <2>1, <2>2, <2>3, <2>4, StoreOutsideSession, TimersOutsideSession,
       ReconnectSessionStep, ConfigLoadsSessionStep DEF Next, Loader!Next
<1> QED
  BY <1>1, <1>2, Invariance, PTL DEF Spec, FollowsSession, Loader!Spec
=============================================================================
