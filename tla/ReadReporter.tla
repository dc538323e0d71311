----------------------------- MODULE ReadReporter -----------------------------
(***************************************************************************)
(* The reading client: the reporting effect of the ReadReceipt component   *)
(* (one instance per mounted post), the visibility tracker, the gating and *)
(* the deduplicator, for the posts of one channel.  The deduplicator is    *)
(* keyed by channel, so channels do not interact.  An action is one        *)
(* macrotask; timers have no duration, they fire some time.                *)
(***************************************************************************)
EXTENDS Integers, FiniteSets

CONSTANTS
  Posts, Nil,
  Own,          \* posts of the current user
  Replies,      \* thread replies
  CreateAt,
  Height,       \* of a post's element
  Slices,       \* heights of a post's slice in view at which frames are drawn
  Ancestors,    \* of a post, inside out: [scrolls |-> , height |-> ]
  WindowHeight,
  MaxFailures,  \* bound of this model on requests that fail
  Events        \* what else may happen, see below

EventKinds == {"refuse", "config", "identity", "channel", "delete", "unmount",
               "stop", "hide", "idle"}

ASSUME ReporterAssumption ==
  /\ Own \subseteq Posts /\ Replies \subseteq Posts
  /\ CreateAt \in [Posts -> Nat \ {0}]
  /\ Height \in [Posts -> Nat \ {0}]
  /\ Slices \in [Posts -> SUBSET Nat]
  /\ \A p \in Posts : 0 \in Slices[p]
  /\ MaxFailures \in Nat
  /\ Events \subseteq EventKinds

-----------------------------------------------------------------------------
(* resolveScrollRoot: the nearest scrolling ancestor, else the window. *)
RootIsWindow == WindowHeight
RootHeight ==
  LET Scrolling == {i \in DOMAIN Ancestors : Ancestors[i].scrolls}
      Nearest   == CHOOSE i \in Scrolling : \A j \in Scrolling : i <= j
  IN  IF Scrolling = {} THEN WindowHeight ELSE Ancestors[Nearest].height

(* isSufficientlyVisible, with VISIBILITY_THRESHOLD = 3/4. *)
IsSufficientlyVisible(p, slice) ==
  \/ 4 * slice >= 3 * Height[p]
  \/ RootHeight > 0 /\ 4 * slice >= 3 * RootHeight

(* VISIBILITY_THRESHOLDS in 1/10000.  An observer is told of a frame when  *)
(* the index of the ratio among them is not the one it was last told.      *)
Thresholds == {0, 10, 20, 30, 40, 50, 60, 75} \cup {100 * i : i \in 1..100}

ThresholdIndex ==
  [p \in Posts |-> [s \in Slices[p] |->
     IF s = 0 THEN 0
     ELSE Cardinality({t \in Thresholds : 10000 * s >= t * Height[p]})]]

-----------------------------------------------------------------------------
(* The local variables of one run of the effect.  A retry timer that the   *)
(* variable retryTimer no longer names is an orphan.                       *)
Closure ==
  [ status  : {"idle", "pending", "sent"},
    visible : BOOLEAN,            \* sufficientlyVisible
    dwell   : BOOLEAN,            \* dwellTimer
    retry   : BOOLEAN,            \* retryTimer
    orphans : 0..MaxFailures,
    index   : -1..Cardinality(Thresholds) ]

Fresh == [status |-> "idle", visible |-> FALSE, dwell |-> FALSE, retry |-> FALSE,
          orphans |-> 0, index |-> -1]

VisibilityState == [isVisible : BOOLEAN, isFocused : BOOLEAN, isIdle : BOOLEAN]

(* What an orphan of a disposed effect would find: whether it would send. *)
Ghost == [post : Posts, willing : BOOLEAN]

VARIABLES
  closure,   \* of a post's component, Nil when it has none
  slice,     \* of a post, as the last frame showed it
  tracker,   \* the visibility tracker
  dedup,     \* the deduplicator of the channel
  detached,  \* requests whose effect is disposed
  ghosts,    \* orphans whose effect is disposed
  eligible,  \* the channel's entity and the configuration allow its type
  identity,  \* currentUserId is known
  current,   \* the channel is the current one
  deleted,   \* deleted posts
  stopped,   \* uninitialize was called
  failures,  \* requests that failed so far
  recorded,  \* history: creation time of the newest post recorded as read
  refused    \* history: creation time of the newest post refused

inputs  == <<eligible, identity, current, deleted, stopped>>
results == <<dedup, failures, recorded, refused>>
vars    == <<closure, slice, tracker, detached, ghosts, inputs, results>>

TypeOK ==
  /\ closure \in [Posts -> Closure \cup {Nil}]
  /\ slice \in [Posts -> Nat]
  /\ tracker \in VisibilityState
  /\ dedup \in [time : Nat, posts : SUBSET Posts]
  /\ detached \subseteq Posts
  /\ ghosts \subseteq Ghost
  /\ {eligible, identity, current, stopped} \subseteq BOOLEAN
  /\ deleted \subseteq Posts
  /\ failures \in 0..MaxFailures
  /\ recorded \in Nat /\ refused \in Nat

-----------------------------------------------------------------------------
IsActive(v) == v.isVisible /\ v.isFocused /\ ~v.isIdle

IsOwn(p) == identity /\ p \in Own

ShouldReportRead(p) ==
  eligible /\ current /\ ~IsOwn(p) /\ p \notin deleted /\ p \notin Replies

ShouldSend(p) ==
  /\ ~(dedup.time # 0 /\ CreateAt[p] <= dedup.time)
  /\ p \notin dedup.posts

Latest(a, b) == IF a > b THEN a ELSE b

(* markSent(channelId, postId, createAt). *)
MarkSent(p) ==
  [time  |-> Latest(CreateAt[p], dedup.time),
   posts |-> dedup.posts \cup {p}]

Pending(p) == closure[p] # Nil /\ closure[p].status = "pending"

(* clearDwell, and clearRetry unless the read is sent. *)
Clear(c) ==
  [c EXCEPT !.dwell = FALSE,
            !.retry = IF c.status = "sent" THEN @ ELSE FALSE]

StartDwell(c) ==
  [c EXCEPT !.dwell = @ \/ c.status = "idle"]

(* The callback of the IntersectionObserver. *)
OnEntry(c, visible) ==
  LET d == [c EXCEPT !.visible = visible] IN
  IF ~visible \/ ~IsActive(tracker) \/ c.status = "pending" THEN Clear(d)
  ELSE StartDwell(d)

(* onVisibilityChange, with the tracker's new state v. *)
OnVisibilityChange(c, v) ==
  IF ~IsActive(v) THEN Clear(c)
  ELSE IF c.visible THEN StartDwell(c) ELSE c

(* attemptSend, and sendReadReceipt up to its request: the closure then. *)
AttemptSend(p, c) ==
  IF c.status # "idle" \/ ~IsActive(tracker) \/ ~ShouldReportRead(p) THEN c
  ELSE [c EXCEPT !.status = IF ShouldSend(p) THEN "pending" ELSE "sent"]

(* The promise of sendReadReceipt settles.  A failure sets the retry       *)
(* timer, whatever timer retryTimer names.                                 *)
SettledAlways(c, ok) == [c EXCEPT !.status = "sent"]
Settled(c, ok) ==
  IF ok THEN [c EXCEPT !.status = "sent"]
  ELSE [c EXCEPT !.status = "idle", !.retry = TRUE,
                 !.orphans = IF c.retry THEN @ + 1 ELSE @]

(* The effect's cleanup leaves sufficientlyVisible false, so that a timer  *)
(* it cannot clear does nothing.                                           *)
WillingAfter(c) == c.visible /\ c.status = "idle"
Willing(c) == FALSE

Disposed(S) ==
  /\ detached' = detached \cup {p \in S : Pending(p)}
  /\ ghosts' = ghosts \cup
       {[post |-> p, willing |-> Willing(closure[p])] :
          p \in {q \in S : closure[q] # Nil /\ closure[q].orphans > 0}}

-----------------------------------------------------------------------------
(* Nothing is mounted; the configuration may still be on its way. *)
Init ==
  /\ closure = [p \in Posts |-> Nil]
  /\ slice = [p \in Posts |-> 0]
  /\ tracker \in [isVisible : {TRUE}, isFocused : BOOLEAN, isIdle : {FALSE}]
  /\ dedup = [time |-> 0, posts |-> {}]
  /\ detached = {} /\ ghosts = {}
  /\ eligible = ("config" \notin Events)
  /\ identity = ("identity" \notin Events)
  /\ current = TRUE /\ deleted = {} /\ stopped = FALSE
  /\ failures = 0 /\ recorded = 0 /\ refused = 0

(* The component of p is rendered, or reused for p: the effect runs. *)
Mount(p) ==
  /\ closure[p] = Nil /\ ~stopped /\ current /\ ~IsOwn(p)
  /\ closure' = [closure EXCEPT ![p] = Fresh]
  /\ slice' = [slice EXCEPT ![p] = 0]
  /\ UNCHANGED <<tracker, detached, ghosts, inputs, results>>

(* The component of p goes, or is reused for another post: the cleanup. *)
Unmount(p) ==
  /\ "unmount" \in Events \/ ~current
  /\ closure[p] # Nil
  /\ closure' = [closure EXCEPT ![p] = Nil]
  /\ slice' = [slice EXCEPT ![p] = 0]
  /\ Disposed({p})
  /\ UNCHANGED <<tracker, inputs, results>>

(* A frame shows another slice of p. *)
Scroll(p) ==
  /\ closure[p] # Nil
  /\ \E s \in Slices[p] \ {slice[p]} : slice' = [slice EXCEPT ![p] = s]
  /\ UNCHANGED <<closure, tracker, detached, ghosts, inputs, results>>

(* The observer is attached to what the component renders: nothing, unless *)
(* the post is a root post of an eligible channel.                         *)
Observe(p) ==
  /\ closure[p] # Nil /\ eligible /\ p \notin Replies
  /\ ThresholdIndex[p][slice[p]] # closure[p].index
  /\ closure' = [closure EXCEPT ![p] =
       [OnEntry(@, IsSufficientlyVisible(p, slice[p])) EXCEPT
          !.index = ThresholdIndex[p][slice[p]]]]
  /\ UNCHANGED <<slice, tracker, detached, ghosts, inputs, results>>

(* updateState: one of the tracker's inputs changes, its listeners run. *)
UpdateState ==
  /\ \E v \in VisibilityState :
       /\ \/ v = [tracker EXCEPT !.isFocused = ~@]
          \/ v = [tracker EXCEPT !.isVisible = ~@] /\ "hide" \in Events
          \/ v = [tracker EXCEPT !.isIdle = ~@] /\ "idle" \in Events
       /\ tracker' = v
       /\ closure' = [p \in Posts |->
            IF closure[p] = Nil THEN Nil ELSE OnVisibilityChange(closure[p], v)]
  /\ ~stopped
  /\ UNCHANGED <<slice, detached, ghosts, inputs, results>>

DwellFires(p) ==
  /\ closure[p] # Nil /\ closure[p].dwell
  /\ closure' = [closure EXCEPT ![p] =
       AttemptSend(p, [@ EXCEPT !.dwell = FALSE])]
  /\ UNCHANGED <<slice, tracker, detached, ghosts, inputs, results>>

(* What the retry timer does once it has fired. *)
Retried(p, c) == IF c.visible THEN AttemptSend(p, c) ELSE c

RetryFires(p) ==
  /\ closure[p] # Nil /\ closure[p].retry
  /\ closure' = [closure EXCEPT ![p] =
       Retried(p, [@ EXCEPT !.retry = FALSE])]
  /\ UNCHANGED <<slice, tracker, detached, ghosts, inputs, results>>

(* An orphan fires: it resets retryTimer, and orphans the timer named there. *)
Reset(c) == [c EXCEPT !.retry = FALSE, !.orphans = IF c.retry THEN @ ELSE @ - 1]

OrphanFires(p) ==
  /\ closure[p] # Nil /\ closure[p].orphans > 0
  /\ closure' = [closure EXCEPT ![p] = Retried(p, Reset(@))]
  /\ UNCHANGED <<slice, tracker, detached, ghosts, inputs, results>>

GhostFires(p) ==
  \E g \in ghosts :
    /\ g.post = p
    /\ ghosts' = ghosts \ {g}
    /\ detached' = IF g.willing /\ IsActive(tracker) /\ ShouldReportRead(p) /\ ShouldSend(p)
                   THEN detached \cup {p} ELSE detached
    /\ UNCHANGED <<closure, slice, tracker, inputs, results>>

(* A request ends, for an effect that still waits for it or for none. *)
Ends(p, ok) ==
  /\ \/ /\ Pending(p)
        /\ closure' = [closure EXCEPT ![p] = Settled(@, ok)]
        /\ UNCHANGED detached
     \/ /\ p \in detached
        /\ detached' = detached \ {p}
        /\ UNCHANGED closure
  /\ UNCHANGED <<slice, tracker, ghosts, inputs>>

Succeed(p) ==
  /\ p \notin Own
  /\ Ends(p, TRUE)
  /\ dedup' = MarkSent(p)
  /\ recorded' = Latest(CreateAt[p], recorded)
  /\ UNCHANGED <<failures, refused>>

(* 403: always for the reader's own post. *)
Refuse(p) ==
  /\ p \in Own \/ "refuse" \in Events
  /\ Ends(p, TRUE)
  /\ dedup' = MarkSent(p)
  /\ refused' = Latest(CreateAt[p], refused)
  /\ UNCHANGED <<failures, recorded>>

(* An error, a timeout or a lost answer: the server may have recorded it. *)
Fail(p) ==
  /\ failures < MaxFailures
  /\ Ends(p, FALSE)
  /\ failures' = failures + 1
  /\ \/ UNCHANGED recorded
     \/ p \notin Own /\ recorded' = Latest(CreateAt[p], recorded)
  /\ UNCHANGED <<dedup, refused>>

-----------------------------------------------------------------------------
(* CONFIG_LOADING, or CONFIG with the channel's type: every effect runs   *)
(* anew, as eligible is one of its dependencies.                           *)
RerunEffects ==
  /\ Disposed(Posts)
  /\ closure' = [p \in Posts |-> IF closure[p] = Nil THEN Nil ELSE Fresh]

ConfigChanges ==
  /\ "config" \in Events /\ ~stopped
  /\ eligible' = ~eligible
  /\ RerunEffects
  /\ UNCHANGED <<slice, tracker, identity, current, deleted, stopped, results>>

IdentityArrives ==
  /\ ~identity
  /\ identity' = TRUE
  /\ closure' = [p \in Posts |-> IF p \in Own THEN Nil ELSE closure[p]]
  /\ Disposed(Own)
  /\ UNCHANGED <<slice, tracker, eligible, current, deleted, stopped, results>>

(* The user leaves the channel; its posts are unmounted a moment later.    *)
SwitchChannel ==
  /\ "channel" \in Events
  /\ ~current => \A p \in Posts : closure[p] = Nil
  /\ current' = ~current
  /\ UNCHANGED <<closure, slice, tracker, detached, ghosts, eligible, identity,
                 deleted, stopped, results>>

(* Only posts of others, to bound the model.                               *)
Delete(p) ==
  /\ "delete" \in Events
  /\ p \notin deleted \cup Own
  /\ deleted' = deleted \cup {p}
  /\ UNCHANGED <<closure, slice, tracker, detached, ghosts, eligible, identity,
                 current, stopped, results>>

(* uninitialize; the webapp unmounts the plugin's components with it. *)
Uninitialize ==
  /\ "stop" \in Events /\ ~stopped
  /\ stopped' = TRUE
  /\ closure' = [p \in Posts |-> Nil]
  /\ Disposed(Posts)
  /\ dedup' = [time |-> 0, posts |-> {}]
  /\ UNCHANGED <<slice, tracker, eligible, identity, current, deleted, failures,
                 recorded, refused>>

RequestEnds(p) == Succeed(p) \/ Refuse(p) \/ Fail(p)

Next ==
  \/ \E p \in Posts :
       \/ Mount(p) \/ Unmount(p) \/ Scroll(p) \/ Observe(p) \/ Delete(p)
       \/ DwellFires(p) \/ RetryFires(p) \/ OrphanFires(p) \/ GhostFires(p)
       \/ RequestEnds(p)
  \/ UpdateState \/ ConfigChanges \/ IdentityArrives \/ SwitchChannel \/ Uninitialize

Spec == Init /\ [][Next]_vars

(* Frames are told to observers, timers fire, requests end: client.ts      *)
(* aborts one that does not.                                               *)
FairSpec ==
  /\ Spec
  /\ \A p \in Posts :
       /\ WF_vars(Observe(p)) /\ WF_vars(DwellFires(p)) /\ WF_vars(RetryFires(p))
       /\ WF_vars(OrphanFires(p)) /\ WF_vars(RequestEnds(p))

-----------------------------------------------------------------------------
(* A request for p goes out in this step. *)
Sends(p) ==
  \/ Pending(p)' /\ ~Pending(p)
  \/ p \in detached' \ detached /\ ~Pending(p)

(* Whatever timer sends a report, of a mounted component or a forgotten    *)
(* one, the window is active and the component last saw its post in view.  *)
SendsOnlyWatched ==
  [][\A p \in Posts : Sends(p) =>
       closure[p] # Nil /\ closure[p].visible /\ IsActive(tracker)]_vars

(* The server knows of a read at least as new, or has refused one.         *)
Accounted(p) == CreateAt[p] <= recorded \/ CreateAt[p] <= refused

(* No report is suppressed, by the deduplicator or by a component that     *)
(* believes it sent, unless a post at least as new was recorded or refused *)
(* (markSent after the answer, the watermark's order).                     *)
SuppressedForAReason ==
  /\ \A p \in Posts : ~ShouldSend(p) => Accounted(p)
  /\ \A p \in Posts : closure[p] # Nil /\ closure[p].status = "sent" => Accounted(p)

(* As much of p is in view as there can be, in an active window, and the   *)
(* report is allowed.                                                      *)
Watching(p) ==
  /\ closure[p] # Nil /\ slice[p] # 0
  /\ \A s \in Slices[p] : s <= slice[p]
  /\ IsActive(tracker) /\ ShouldReportRead(p)

(* A post that is watched for good is accounted for, through failures,     *)
(* blurs, disposed effects and a configuration that comes late; a post     *)
(* taller than the list as well (README, "Retry" and "visibility").        *)
WatchedIsReported ==
  \A p \in Posts : <>[]Watching(p) => <>Accounted(p)
=============================================================================
