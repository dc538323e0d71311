----------------------------- MODULE ConfigLoader -----------------------------
(***************************************************************************)
(* The webapp's configuration loader: startConfigLoader with its attempt   *)
(* sequences, loadPluginConfig, the config slice of the reducer and the    *)
(* reconnect handler of index.tsx.  JavaScript runs one macrotask at a     *)
(* time and drains its microtasks, so an action is one macrotask: a        *)
(* reconnect, a response, a timer, uninitialize.                           *)
(***************************************************************************)
EXTENDS Integers

CONSTANTS
  Nil,
  MaxAttempts,   \* CONFIG_MAX_ATTEMPTS (6 in the code)
  MaxReconnects, \* bound of this model on reconnects
  MaxChanges     \* bound of this model on changes of the setting

ASSUME LoaderAssumption ==
  /\ MaxAttempts \in Nat \ {0}
  /\ MaxReconnects \in Nat
  /\ MaxChanges \in Nat

Versions  == 0..MaxChanges         \* of the server's EnabledChannelTypes
Sequences == 1..(MaxReconnects + 1) \* a sequence is known by its epoch
Failed    == -1

Sequence ==
  [ pc         : {"sent", "answered", "waiting"},
    attempt    : 1..MaxAttempts,
    generation : Nat,
    answer     : Versions \cup {Failed} ]

ASSUME NilSequenceAssumption == Nil \notin Sequence /\ Nil \notin Nat

VARIABLES
  served,      \* the server's current setting
  config,      \* Redux: the setting the plugin gates on, Nil while unknown
  generation,  \* configRequestGeneration
  epoch,
  seq,         \* sequences under way
  waiter,      \* the sequence that owns timer and cancelWait
  stopped,
  refreshed,   \* epoch of the last sequence that refreshed the watcher
  since        \* history: the setting when the last sequence was started

vars == <<served, config, generation, epoch, seq, waiter, stopped, refreshed, since>>

TypeOK ==
  /\ served \in Versions
  /\ config \in Versions \cup {Nil}
  /\ generation \in Nat
  /\ epoch \in Nat
  /\ seq \in [Sequences -> Sequence \cup {Nil}]
  /\ waiter \in Sequences \cup {Nil}
  /\ stopped \in BOOLEAN
  /\ refreshed \in Sequences \cup {0}
  /\ since \in Versions

-----------------------------------------------------------------------------
(* loadPluginConfig, up to its await. *)
Request(attempt, gen) ==
  [pc |-> "sent", attempt |-> attempt, generation |-> gen, answer |-> Failed]

(* clear(): the wait under way, if any, resolves to false: its sequence ends. *)
CancelTimerOnly(seqs) == seqs
Cancel(seqs) == IF waiter = Nil THEN seqs ELSE [seqs EXCEPT ![waiter] = Nil]

(* The response is not that of the latest request: it is inert. *)
OutdatedNever(s) == FALSE
Outdated(s) == s.generation # generation

(* The sequence is not the latest one: whatever it learned, it ends. *)
SupersededByStop(e) == stopped
Superseded(e) == stopped \/ epoch # e

(* The reload's promise tells the outcome of its whole sequence. *)
RefreshingFirst(e) ==
  IF e > 1 /\ seq[e].attempt = 1 THEN e ELSE refreshed
Refreshing(e) == IF e > 1 THEN e ELSE refreshed

LastAttemptOffByOne(s) == s.attempt > MaxAttempts
LastAttempt(s) == s.attempt = MaxAttempts

(* invalidatePluginConfigRequests *)
GenerationKept == generation
InvalidatedGeneration == generation + 1

-----------------------------------------------------------------------------
(* startConfigLoader at initialize. *)
Init ==
  /\ served = 0 /\ since = 0
  /\ config = Nil
  /\ generation = 1 /\ epoch = 1
  /\ seq = [e \in Sequences |-> IF e = 1 THEN Request(1, 1) ELSE Nil]
  /\ waiter = Nil /\ stopped = FALSE /\ refreshed = 0

(* The reconnect handler: reload supersedes what was running. *)
Reconnect ==
  /\ ~stopped
  /\ epoch <= MaxReconnects
  /\ epoch' = epoch + 1
  /\ generation' = generation + 1
  /\ config' = Nil
  /\ seq' = [Cancel(seq) EXCEPT ![epoch + 1] = Request(1, generation + 1)]
  /\ waiter' = Nil
  /\ since' = served
  /\ UNCHANGED <<served, stopped, refreshed>>

(* handleConfig answers, or the request fails or times out. *)
Answer(e) ==
  /\ seq[e] # Nil /\ seq[e].pc = "sent"
  /\ \E v \in {served, Failed} :
       seq' = [seq EXCEPT ![e].pc = "answered", ![e].answer = v]
  /\ UNCHANGED <<served, config, generation, epoch, waiter, stopped, refreshed, since>>

(* The response has arrived: the rest of loadPluginConfig, then runSequence *)
(* up to its next await.                                                    *)
Continue(e) ==
  /\ seq[e] # Nil /\ seq[e].pc = "answered"
  /\ LET s      == seq[e]
         loaded == ~Outdated(s) /\ s.answer # Failed
     IN  /\ config' = IF loaded THEN s.answer ELSE config
         /\ IF Superseded(e)
            THEN /\ seq' = [seq EXCEPT ![e] = Nil]
                 /\ UNCHANGED <<waiter, refreshed>>
            ELSE IF loaded
            THEN /\ seq' = [Cancel(seq) EXCEPT ![e] = Nil]
                 /\ waiter' = Nil
                 /\ refreshed' = Refreshing(e)
            ELSE IF LastAttempt(s)
            THEN /\ seq' = [seq EXCEPT ![e] = Nil]
                 /\ UNCHANGED <<waiter, refreshed>>
            ELSE /\ seq' = [Cancel(seq) EXCEPT ![e] = [s EXCEPT !.pc = "waiting"]]
                 /\ waiter' = e
                 /\ UNCHANGED refreshed
  /\ UNCHANGED <<served, generation, epoch, stopped, since>>

(* The backoff is over: the next attempt, which fails closed first. *)
TimerFires ==
  /\ waiter # Nil
  /\ generation' = generation + 1
  /\ config' = Nil
  /\ seq' = [seq EXCEPT ![waiter] = Request(@.attempt + 1, generation + 1)]
  /\ waiter' = Nil
  /\ UNCHANGED <<served, epoch, stopped, refreshed, since>>

(* uninitialize: invalidatePluginConfigRequests, then stop. *)
Uninitialize ==
  /\ ~stopped
  /\ stopped' = TRUE
  /\ generation' = InvalidatedGeneration
  /\ epoch' = epoch + 1
  /\ seq' = Cancel(seq)
  /\ waiter' = Nil
  /\ UNCHANGED <<served, config, refreshed, since>>

(* An administrator edits EnabledChannelTypes. *)
ChangeSetting ==
  /\ served < MaxChanges
  /\ served' = served + 1
  /\ UNCHANGED <<config, generation, epoch, seq, waiter, stopped, refreshed, since>>

LoaderStep(e) == Answer(e) \/ Continue(e)

Next ==
  \/ Reconnect \/ TimerFires \/ Uninitialize \/ ChangeSetting
  \/ \E e \in Sequences : LoaderStep(e)

Spec == Init /\ [][Next]_vars

(* Requests time out, timers fire and the event loop takes every task. *)
FairSpec ==
  /\ Spec
  /\ WF_vars(TimerFires)
  /\ \A e \in Sequences : WF_vars(LoaderStep(e))

-----------------------------------------------------------------------------
(* The allow-list the plugin works with is never older than the last       *)
(* reconnect, however late earlier responses come in (the generation of    *)
(* loadPluginConfig).                                                      *)
ConfigIsFresh == config # Nil => config >= since

(* A loaded configuration is dropped by a reconnect only: no superseded    *)
(* sequence comes back to dispatch CONFIG_LOADING over it (the epoch of    *)
(* startConfigLoader).                                                     *)
LoadedStays == [][config # Nil /\ config' = Nil => epoch' = epoch + 1]_vars

(* After uninitialize the Redux store is left alone.                       *)
NothingAfterStop == [][stopped => UNCHANGED config]_vars

(* A configuration that a reconnect's sequence loaded, at whatever         *)
(* attempt, has refreshed the channel watcher.                             *)
LoadedMeansRefreshed == ~stopped /\ epoch > 1 /\ config # Nil => refreshed = epoch

(* Only the latest sequence waits for a retry, and a waiting sequence has  *)
(* its timer.                                                              *)
WaiterIsLatest ==
  \A e \in Sequences : seq[e] # Nil /\ seq[e].pc = "waiting" =>
    waiter = e /\ epoch = e /\ ~stopped

(* The session that the latest sequence runs for. *)
Session ==
  IF stopped \/ seq[epoch] = Nil THEN "settled"
  ELSE IF epoch = 1 THEN "startup" ELSE "reconnect"

Promise == INSTANCE ConfigSession WITH loaded <- config # Nil, session <- Session

(* However the sequences of several reconnects overlap, to the rest of the *)
(* webapp the loader is one session at a time: the configuration is absent *)
(* from its begin to its end, and only that session's answer puts it back. *)
ImplementsSession == Promise!Spec

(* Every sequence settles, so that whoever awaits reload learns of it.     *)
EverySequenceSettles == \A e \in Sequences : seq[e] # Nil ~> seq[e] = Nil
=============================================================================
