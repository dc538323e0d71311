-------------------------- MODULE ReadReporterProofs --------------------------
(***************************************************************************)
(* Theorems about ReadReporter, for any posts, creation times, heights,    *)
(* slices, ancestors, number of failures and kinds of events.              *)
(***************************************************************************)
EXTENDS ReadReporter, FiniteSetTheorems, TLAPS

(* What holds of the local variables c of an effect that runs for p: a     *)
(* dwell timer runs only for a post in view, a component that believes it  *)
(* sent is right to suppress its report, and every retry timer, named or   *)
(* orphaned, was set by a failure of its own.                              *)
RetryCount(c) == IF c.retry THEN 1 ELSE 0

GoodClosure(p, c) ==
  /\ c \in Closure
  /\ c.dwell => c.visible
  /\ c.status = "sent" => Accounted(p)
  /\ c.orphans + RetryCount(c) <= failures

ClosuresInv == \A p \in Posts : closure[p] # Nil => GoodClosure(p, closure[p])

(* The deduplicator remembers nothing that is not accounted for. *)
DedupInv ==
  /\ dedup.time <= recorded \/ dedup.time <= refused
  /\ \A p \in dedup.posts : Accounted(p)

GhostsInv == \A g \in ghosts : ~g.willing

SlicesInv == \A p \in Posts : slice[p] \in Slices[p]

IInv == TypeOK /\ ClosuresInv /\ DedupInv /\ GhostsInv /\ SlicesInv

-----------------------------------------------------------------------------
(* The helpers. *)

LEMMA ThresholdsFinite == IsFiniteSet(Thresholds) /\ Cardinality(Thresholds) \in Nat
<1>1. Thresholds \in SUBSET Nat /\ \A t \in Thresholds : t <= 10000
  BY DEF Thresholds
<1> QED
  BY <1>1, FS_BoundedSetOfNaturals, FS_CardinalityType

LEMMA IndexType ==
  ASSUME NEW p \in Posts, NEW s \in Slices[p]
  PROVE  ThresholdIndex[p][s] \in -1..Cardinality(Thresholds)
<1> DEFINE T == {t \in Thresholds : 10000 * s >= t * Height[p]}
<1>1. T \in SUBSET Thresholds
  OBVIOUS
<1>2. Cardinality(T) \in Nat /\ Cardinality(T) <= Cardinality(Thresholds)
  BY <1>1, ThresholdsFinite, FS_Subset, FS_CardinalityType
<1>3. ThresholdIndex[p][s] = IF s = 0 THEN 0 ELSE Cardinality(T)
  BY DEF ThresholdIndex
<1> HIDE DEF T
<1> QED
  BY <1>2, <1>3, ThresholdsFinite

LEMMA FreshGood == ASSUME NEW p \in Posts, TypeOK PROVE GoodClosure(p, Fresh)
BY ThresholdsFinite, ReporterAssumption DEF GoodClosure, Fresh, Closure, RetryCount, TypeOK

LEMMA ClearGood ==
  ASSUME NEW p \in Posts, TypeOK, NEW c \in Closure, GoodClosure(p, [c EXCEPT !.dwell = FALSE])
  PROVE  /\ GoodClosure(p, Clear(c)) /\ ~Clear(c).dwell
         /\ Clear(c).status = c.status /\ Clear(c).visible = c.visible
<1> DEFINE d == [c EXCEPT !.dwell = FALSE]
<1>1. /\ Clear(c) \in Closure /\ ~Clear(c).dwell
      /\ Clear(c).status = c.status /\ Clear(c).visible = c.visible
      /\ Clear(c).orphans = c.orphans
      /\ Clear(c).retry => c.retry
  BY DEF Clear, Closure
<1>2. /\ d.status = c.status /\ d.orphans = c.orphans /\ d.retry = c.retry
      /\ c.orphans \in Nat /\ c.retry \in BOOLEAN /\ failures \in Nat
  BY ReporterAssumption DEF Closure, TypeOK
<1>3. (c.status = "sent" => Accounted(p)) /\ c.orphans + RetryCount(d) <= failures
  BY <1>2 DEF GoodClosure
<1>4. RetryCount(d) = RetryCount(c)
  BY <1>2 DEF RetryCount
<1>5. c.orphans + RetryCount(Clear(c)) <= failures
  BY <1>1, <1>2, <1>3, <1>4 DEF RetryCount
<1>6. Clear(c).orphans + RetryCount(Clear(c)) <= failures
  BY <1>1, <1>5
<1> QED
  BY <1>1, <1>3, <1>6 DEF GoodClosure

LEMMA StartDwellGood ==
  ASSUME NEW p \in Posts, NEW c, GoodClosure(p, c), c.visible
  PROVE  GoodClosure(p, StartDwell(c)) /\ StartDwell(c).status = c.status
<1> DEFINE d == StartDwell(c)
<1>1. /\ d \in Closure /\ d.status = c.status /\ d.visible = c.visible
      /\ d.orphans = c.orphans /\ d.retry = c.retry
  BY DEF StartDwell, Closure, GoodClosure
<1> HIDE DEF d
<1>2. RetryCount(d) = RetryCount(c)
  BY <1>1 DEF RetryCount
<1>3. GoodClosure(p, d)
  BY <1>1, <1>2 DEF GoodClosure
<1> QED
  BY <1>1, <1>3 DEF d

(* The effect's variables c, changed in visible only. *)
LEMMA OnEntryGood ==
  ASSUME NEW p \in Posts, TypeOK, NEW c, GoodClosure(p, c), NEW visible \in BOOLEAN
  PROVE  GoodClosure(p, OnEntry(c, visible)) /\ OnEntry(c, visible).status = c.status
<1> DEFINE d == [c EXCEPT !.visible = visible]
<1>1. /\ d \in Closure /\ d.status = c.status /\ d.visible = visible
      /\ GoodClosure(p, [d EXCEPT !.dwell = FALSE])
      /\ visible => GoodClosure(p, d)
  BY DEF GoodClosure, Closure, RetryCount
<1>2. OnEntry(c, visible) =
        IF ~visible \/ ~IsActive(tracker) \/ c.status = "pending" THEN Clear(d)
        ELSE StartDwell(d)
  BY DEF OnEntry
<1> HIDE DEF d
<1> QED
  BY <1>1, <1>2, ClearGood, StartDwellGood

LEMMA OnVisibilityChangeGood ==
  ASSUME NEW p \in Posts, TypeOK, NEW c, GoodClosure(p, c), NEW v \in VisibilityState
  PROVE  /\ GoodClosure(p, OnVisibilityChange(c, v))
         /\ OnVisibilityChange(c, v).status = c.status
<1>1. c \in Closure /\ GoodClosure(p, [c EXCEPT !.dwell = FALSE])
  BY DEF GoodClosure, Closure, RetryCount
<1> QED
  BY <1>1, ClearGood, StartDwellGood DEF OnVisibilityChange

(* A report that is suppressed is one the deduplicator accounts for. *)
LEMMA SuppressedAccounted ==
  ASSUME IInv, NEW p \in Posts, ~ShouldSend(p)
  PROVE  Accounted(p)
BY ReporterAssumption DEF IInv, TypeOK, DedupInv, ShouldSend, Accounted

LEMMA AttemptSendGood ==
  ASSUME IInv, NEW p \in Posts, NEW c, GoodClosure(p, c)
  PROVE  /\ GoodClosure(p, AttemptSend(p, c))
         /\ AttemptSend(p, c).status = "pending" => c.status = "pending" \/ IsActive(tracker)
BY SuppressedAccounted DEF GoodClosure, AttemptSend, Closure, RetryCount

LEMMA RetriedGood ==
  ASSUME IInv, NEW p \in Posts, NEW c, GoodClosure(p, c)
  PROVE  /\ GoodClosure(p, Retried(p, c))
         /\ Retried(p, c).status = "pending" =>
              c.status = "pending" \/ (c.visible /\ IsActive(tracker))
BY AttemptSendGood DEF Retried

(* What a step that forgets nothing keeps of an effect it does not run. *)
LEMMA GoodStays ==
  ASSUME NEW p \in Posts, NEW c, TypeOK, TypeOK', GoodClosure(p, c),
         failures <= failures', recorded <= recorded', refused <= refused'
  PROVE  GoodClosure(p, c)'
BY ReporterAssumption DEF GoodClosure, Accounted, TypeOK, Closure, RetryCount

-----------------------------------------------------------------------------
LEMMA InitInv == Init => IInv
<1> SUFFICES ASSUME Init PROVE IInv
  OBVIOUS
<1>1. TypeOK
  <2>1. closure \in [Posts -> Closure \cup {Nil}] /\ slice \in [Posts -> Nat]
    BY DEF Init
  <2>2. tracker \in VisibilityState
    BY DEF Init, VisibilityState
  <2>3. dedup \in [time : Nat, posts : SUBSET Posts]
    BY DEF Init
  <2>4. {eligible, identity, current, stopped} \subseteq BOOLEAN
    BY DEF Init
  <2>5. failures \in 0..MaxFailures /\ recorded \in Nat /\ refused \in Nat
    BY ReporterAssumption DEF Init
  <2> QED
    BY <2>1, <2>2, <2>3, <2>4, <2>5 DEF Init, TypeOK
<1>2. ClosuresInv /\ DedupInv /\ GhostsInv /\ SlicesInv
  BY ReporterAssumption DEF Init, ClosuresInv, DedupInv, GhostsInv, SlicesInv
<1> QED
  BY <1>1, <1>2 DEF IInv

(* The effects in S are disposed of: their requests go on unheard, their   *)
(* orphans find nothing in view.                                           *)
LEMMA DisposedType ==
  ASSUME TypeOK, GhostsInv, NEW S \in SUBSET Posts, Disposed(S)
  PROVE  /\ detached' \subseteq Posts /\ ghosts' \subseteq Ghost /\ GhostsInv'
         /\ \A p \in detached' \ detached : Pending(p)
<1>1. detached' \subseteq Posts /\ \A p \in detached' \ detached : Pending(p)
  BY DEF Disposed, TypeOK
<1>2. \A g \in ghosts' : g \in ghosts \/ \E p \in S : g = [post |-> p, willing |-> FALSE]
  BY DEF Disposed, Willing
<1>3. ghosts' \subseteq Ghost
  <2> SUFFICES ASSUME NEW g \in ghosts', g \notin ghosts PROVE g \in Ghost
    BY DEF TypeOK
  <2>1. PICK p \in S : g = [post |-> p, willing |-> FALSE]
    BY <1>2
  <2> QED
    BY <2>1 DEF Ghost
<1>4. GhostsInv'
  BY <1>2 DEF GhostsInv
<1> QED
  BY <1>1, <1>3, <1>4

(* A step that runs the effect of p only, up to what it leaves of it. *)
LEMMA EffectStep ==
  ASSUME IInv, NEW p \in Posts, NEW c, closure[p] # Nil, GoodClosure(p, c),
         closure' = [closure EXCEPT ![p] = c],
         UNCHANGED <<slice, tracker, detached, ghosts, inputs, results>>
  PROVE  IInv'
<1> USE DEF IInv, inputs, results
<1>1. TypeOK'
  BY DEF TypeOK, GoodClosure
<1>2. ClosuresInv'
  <2>1. \A q \in Posts : closure'[q] # Nil => GoodClosure(q, closure'[q])
    BY DEF ClosuresInv, TypeOK
  <2> QED
    BY <2>1 DEF ClosuresInv, GoodClosure, Accounted, RetryCount
<1>3. DedupInv' /\ GhostsInv' /\ SlicesInv'
  BY DEF DedupInv, GhostsInv, SlicesInv, Accounted
<1> QED
  BY <1>1, <1>2, <1>3

(* A step that starts, ends or keeps effects, and disposes of some. *)
LEMMA LifeStep ==
  ASSUME IInv,
         closure' \in [Posts -> Closure \cup {Nil}],
         \A p \in Posts : closure'[p] \in {Nil, Fresh, closure[p]},
         slice' \in [Posts -> Nat], SlicesInv', GhostsInv',
         detached' \subseteq Posts, ghosts' \subseteq Ghost,
         {eligible', identity', current', stopped'} \subseteq BOOLEAN,
         deleted' \subseteq Posts, tracker' = tracker,
         dedup' \in {dedup, [time |-> 0, posts |-> {}]},
         UNCHANGED <<failures, recorded, refused>>
  PROVE  IInv'
<1> USE DEF IInv
<1>1. TypeOK'
  BY DEF TypeOK
<1>2. ClosuresInv'
  <2>1. \A p \in Posts : closure'[p] # Nil => GoodClosure(p, closure'[p])
    BY FreshGood DEF ClosuresInv
  <2> QED
    BY <2>1 DEF ClosuresInv, GoodClosure, Accounted, RetryCount
<1>3. DedupInv'
  BY DEF DedupInv, Accounted, TypeOK
<1> QED
  BY <1>1, <1>2, <1>3

LEMMA MountInv == ASSUME IInv, NEW p \in Posts, Mount(p) PROVE IInv'
<1>1. /\ closure' \in [Posts -> Closure \cup {Nil}]
      /\ \A q \in Posts : closure'[q] \in {Nil, Fresh, closure[q]}
  BY FreshGood DEF Mount, IInv, TypeOK, GoodClosure
<1>2. slice' \in [Posts -> Nat] /\ SlicesInv'
  BY ReporterAssumption DEF Mount, IInv, TypeOK, SlicesInv
<1> QED
  BY <1>1, <1>2, LifeStep DEF Mount, IInv, TypeOK, inputs, results, GhostsInv

LEMMA UnmountInv == ASSUME IInv, NEW p \in Posts, Unmount(p) PROVE IInv'
<1>1. /\ closure' \in [Posts -> Closure \cup {Nil}]
      /\ \A q \in Posts : closure'[q] \in {Nil, Fresh, closure[q]}
  BY DEF Unmount, IInv, TypeOK
<1>2. slice' \in [Posts -> Nat] /\ SlicesInv'
  BY ReporterAssumption DEF Unmount, IInv, TypeOK, SlicesInv
<1>3. detached' \subseteq Posts /\ ghosts' \subseteq Ghost /\ GhostsInv'
  BY DisposedType DEF Unmount, IInv
<1> QED
  BY <1>1, <1>2, <1>3, LifeStep DEF Unmount, IInv, TypeOK, inputs, results

LEMMA ScrollInv == ASSUME IInv, NEW p \in Posts, Scroll(p) PROVE IInv'
<1>1. slice' \in [Posts -> Nat] /\ SlicesInv'
  BY ReporterAssumption DEF Scroll, IInv, TypeOK, SlicesInv
<1> QED
  BY <1>1, LifeStep DEF Scroll, IInv, TypeOK, inputs, results, GhostsInv

LEMMA ObserveInv == ASSUME IInv, NEW p \in Posts, Observe(p) PROVE IInv'
<1> DEFINE visible == IsSufficientlyVisible(p, slice[p])
           d == OnEntry(closure[p], visible)
           c == [d EXCEPT !.index = ThresholdIndex[p][slice[p]]]
<1>1. visible \in BOOLEAN /\ GoodClosure(p, closure[p]) /\ TypeOK
  BY DEF Observe, IInv, ClosuresInv, IsSufficientlyVisible
<1>2. GoodClosure(p, d)
  <2> HIDE DEF visible
  <2> QED BY <1>1, OnEntryGood
<1>3. ThresholdIndex[p][slice[p]] \in -1..Cardinality(Thresholds)
  BY IndexType DEF IInv, SlicesInv
<1>4. GoodClosure(p, c)
  <2> HIDE DEF d
  <2> QED BY <1>2, <1>3 DEF GoodClosure, Closure, RetryCount
<1>5. closure' = [closure EXCEPT ![p] = c] /\ closure[p] # Nil
  BY DEF Observe, IInv, TypeOK
<1> HIDE DEF c
<1> QED
  BY <1>4, <1>5, EffectStep DEF Observe

LEMMA DwellFiresInv == ASSUME IInv, NEW p \in Posts, DwellFires(p) PROVE IInv'
<1> DEFINE c == [closure[p] EXCEPT !.dwell = FALSE]
<1>1. GoodClosure(p, c)
  BY DEF DwellFires, IInv, ClosuresInv, GoodClosure, Closure, RetryCount
<1>2. GoodClosure(p, AttemptSend(p, c))
  <2> HIDE DEF c
  <2> QED BY <1>1, AttemptSendGood
<1>3. closure' = [closure EXCEPT ![p] = AttemptSend(p, c)] /\ closure[p] # Nil
  BY DEF DwellFires, IInv, TypeOK
<1> HIDE DEF c
<1> QED
  BY <1>2, <1>3, EffectStep DEF DwellFires

(* A timer of a failure has fired: retryTimer is reset. *)
LEMMA ResetGood ==
  ASSUME IInv, NEW p \in Posts, closure[p] # Nil, NEW n \in 0..MaxFailures, n <= failures
  PROVE  GoodClosure(p, [closure[p] EXCEPT !.retry = FALSE, !.orphans = n])
<1> DEFINE c == closure[p]
           d == [c EXCEPT !.retry = FALSE, !.orphans = n]
<1>1. GoodClosure(p, c) /\ c \in Closure
  BY DEF IInv, ClosuresInv, GoodClosure
<1>2. /\ d \in Closure /\ d.status = c.status /\ d.visible = c.visible
      /\ d.dwell = c.dwell /\ d.orphans = n /\ d.retry = FALSE
  BY <1>1 DEF Closure
<1>3. n + RetryCount(d) <= failures
  BY <1>2, ReporterAssumption DEF RetryCount, IInv, TypeOK
<1> HIDE DEF c, d
<1>4. GoodClosure(p, d)
  BY <1>1, <1>2, <1>3 DEF GoodClosure
<1> QED
  BY <1>4 DEF c, d

LEMMA RetryFiresInv == ASSUME IInv, NEW p \in Posts, RetryFires(p) PROVE IInv'
<1> DEFINE c == [closure[p] EXCEPT !.retry = FALSE]
<1>1. /\ GoodClosure(p, closure[p]) /\ closure[p] # Nil
      /\ closure[p].orphans \in 0..MaxFailures /\ RetryCount(closure[p]) \in Nat
      /\ failures \in Nat
  BY ReporterAssumption DEF RetryFires, IInv, ClosuresInv, TypeOK, GoodClosure, Closure, RetryCount
<1>2. closure[p].orphans <= failures
  BY <1>1, ReporterAssumption DEF GoodClosure
<1>3. c = [closure[p] EXCEPT !.retry = FALSE, !.orphans = closure[p].orphans]
  BY <1>1 DEF GoodClosure, Closure
<1>4. GoodClosure(p, c)
  <2> HIDE DEF c
  <2> QED BY <1>1, <1>2, <1>3, ResetGood
<1>5. GoodClosure(p, Retried(p, c))
  <2> HIDE DEF c
  <2> QED BY <1>4, RetriedGood
<1>6. closure' = [closure EXCEPT ![p] = Retried(p, c)]
  BY DEF RetryFires, IInv, TypeOK
<1> HIDE DEF c
<1> QED
  BY <1>1, <1>5, <1>6, EffectStep DEF RetryFires

LEMMA OrphanFiresInv == ASSUME IInv, NEW p \in Posts, OrphanFires(p) PROVE IInv'
<1> DEFINE n == IF closure[p].retry THEN closure[p].orphans ELSE closure[p].orphans - 1
           c == [closure[p] EXCEPT !.retry = FALSE, !.orphans = n]
<1>1. /\ GoodClosure(p, closure[p]) /\ closure[p].orphans > 0 /\ closure[p] # Nil
      /\ closure[p].orphans \in 0..MaxFailures /\ RetryCount(closure[p]) \in Nat
      /\ failures \in Nat /\ MaxFailures \in Nat
  BY ReporterAssumption
  DEF OrphanFires, IInv, ClosuresInv, TypeOK, GoodClosure, Closure, RetryCount
<1>2. closure[p].orphans <= failures
  BY <1>1 DEF GoodClosure
<1>3. n \in 0..MaxFailures /\ n <= failures
  BY <1>1, <1>2
<1>4. GoodClosure(p, c)
  <2> HIDE DEF n
  <2> QED BY <1>1, <1>3, ResetGood
<1>5. GoodClosure(p, Retried(p, c))
  <2> HIDE DEF c
  <2> QED BY <1>4, RetriedGood
<1>6. closure' = [closure EXCEPT ![p] = Retried(p, c)]
  BY DEF OrphanFires, Reset
<1> HIDE DEF c
<1> QED
  BY <1>1, <1>5, <1>6, EffectStep DEF OrphanFires

LEMMA GhostFiresInv == ASSUME IInv, NEW p \in Posts, GhostFires(p) PROVE IInv'
<1>1. /\ ghosts' \subseteq ghosts /\ detached' \subseteq detached \cup {p}
      /\ UNCHANGED <<closure, slice, tracker, inputs, results>>
  BY DEF GhostFires
<1> QED
  BY <1>1, LifeStep DEF IInv, TypeOK, inputs, results, GhostsInv, SlicesInv

LEMMA UpdateStateInv == IInv /\ UpdateState => IInv'
<1> SUFFICES ASSUME IInv, UpdateState PROVE IInv'
  OBVIOUS
<1> USE DEF IInv
<1>1. PICK v \in VisibilityState :
        /\ tracker' = v
        /\ closure' = [p \in Posts |->
             IF closure[p] = Nil THEN Nil ELSE OnVisibilityChange(closure[p], v)]
  BY DEF UpdateState
<1>2. \A p \in Posts : closure[p] # Nil => GoodClosure(p, OnVisibilityChange(closure[p], v))
  BY OnVisibilityChangeGood DEF ClosuresInv
<1>3. UNCHANGED <<slice, detached, ghosts, inputs, results>>
  BY DEF UpdateState
<1>4. TypeOK'
  BY <1>1, <1>2, <1>3 DEF TypeOK, GoodClosure, inputs, results
<1>5. ClosuresInv'
  BY <1>1, <1>2, <1>3 DEF ClosuresInv, GoodClosure, Accounted, results
<1>6. DedupInv' /\ GhostsInv' /\ SlicesInv'
  BY <1>3 DEF DedupInv, GhostsInv, SlicesInv, Accounted, results
<1> QED
  BY <1>4, <1>5, <1>6

LEMMA SettledGood ==
  ASSUME NEW p \in Posts, NEW c, TypeOK, TypeOK', GoodClosure(p, c), NEW ok \in BOOLEAN,
         c.status = "pending",
         failures' = (IF ok THEN failures ELSE failures + 1),
         recorded <= recorded', refused <= refused',
         ok => Accounted(p)'
  PROVE  GoodClosure(p, Settled(c, ok))'
<1> DEFINE d == Settled(c, ok)
<1>1. /\ c \in Closure /\ c.orphans \in 0..MaxFailures /\ c.retry \in BOOLEAN
      /\ failures \in 0..MaxFailures /\ failures' \in 0..MaxFailures /\ MaxFailures \in Nat
      /\ c.orphans + RetryCount(c) <= failures
  BY ReporterAssumption DEF GoodClosure, Closure, TypeOK
<1>2. CASE ok
  <2>1. /\ d \in Closure /\ d.status = "sent" /\ d.visible = c.visible
        /\ d.dwell = c.dwell /\ d.orphans = c.orphans /\ d.retry = c.retry
    BY <1>1, <1>2 DEF Settled, Closure
  <2>2. RetryCount(d) = RetryCount(c) /\ failures' = failures
    BY <2>1, <1>2 DEF RetryCount
  <2> HIDE DEF d
  <2>3. GoodClosure(p, d)'
    BY <1>1, <1>2, <2>1, <2>2 DEF GoodClosure
  <2> QED
    BY <2>3 DEF d
<1>3. CASE ~ok
  <2>1. c.orphans + (IF c.retry THEN 1 ELSE 0) <= failures /\ failures' = failures + 1
    BY <1>1, <1>3 DEF RetryCount
  <2>2. (IF c.retry THEN c.orphans + 1 ELSE c.orphans) \in 0..MaxFailures
    BY <1>1, <2>1
  <2>3. /\ d \in Closure /\ d.status = "idle" /\ d.visible = c.visible
        /\ d.dwell = c.dwell /\ d.retry = TRUE
        /\ d.orphans = (IF c.retry THEN c.orphans + 1 ELSE c.orphans)
    BY <1>1, <1>3, <2>2 DEF Settled, Closure
  <2>4. d.orphans + RetryCount(d) <= failures'
    BY <1>1, <2>1, <2>3 DEF RetryCount
  <2> HIDE DEF d
  <2>5. GoodClosure(p, d)'
    BY <1>1, <2>3, <2>4 DEF GoodClosure
  <2> QED
    BY <2>5 DEF d
<1> QED
  BY <1>2, <1>3

(* A request of p ends: what it tells is remembered, no more. *)
LEMMA EndsInv ==
  ASSUME IInv, NEW p \in Posts, NEW ok \in BOOLEAN, Ends(p, ok),
         failures' \in 0..MaxFailures,
         failures' = (IF ok THEN failures ELSE failures + 1),
         recorded' \in {recorded, Latest(CreateAt[p], recorded)},
         refused' \in {refused, Latest(CreateAt[p], refused)},
         ok => Accounted(p)',
         dedup' = (IF ok THEN MarkSent(p) ELSE dedup)
  PROVE  IInv'
<1> USE DEF IInv
<1>1. /\ recorded \in Nat /\ recorded' \in Nat /\ recorded <= recorded'
      /\ refused \in Nat /\ refused' \in Nat /\ refused <= refused'
      /\ failures \in Nat /\ failures' \in Nat /\ failures <= failures'
      /\ CreateAt[p] \in Nat /\ CreateAt \in [Posts -> Nat]
  BY ReporterAssumption DEF TypeOK, Latest
<1>2. dedup' \in [time : Nat, posts : SUBSET Posts]
  BY <1>1 DEF TypeOK, MarkSent, Latest
<1>3. \A q \in Posts : Accounted(q) => Accounted(q)'
  BY <1>1 DEF Accounted
<1>4. /\ closure' \in {closure, [closure EXCEPT ![p] = Settled(closure[p], ok)]}
      /\ closure' # closure => Pending(p)
      /\ detached' \subseteq Posts
      /\ UNCHANGED <<slice, tracker, ghosts, inputs>>
  BY DEF Ends, TypeOK
<1>5. closure' # closure => Settled(closure[p], ok) \in Closure
  <2> SUFFICES ASSUME Pending(p) PROVE Settled(closure[p], ok) \in Closure
    BY <1>4
  <2> DEFINE c == closure[p]
  <2>1. /\ c \in Closure /\ c.orphans + RetryCount(c) <= failures
        /\ MaxFailures \in Nat
    BY ReporterAssumption DEF ClosuresInv, GoodClosure, Pending
  <2>2. ~ok /\ c.retry => c.orphans + 1 \in 0..MaxFailures
    BY <1>1, <2>1 DEF RetryCount, Closure
  <2> QED
    BY <2>1, <2>2 DEF Settled, Closure
<1>6. TypeOK'
  BY <1>1, <1>2, <1>4, <1>5 DEF TypeOK, inputs
<1>7. ClosuresInv'
  <2> SUFFICES ASSUME NEW q \in Posts, NEW c, c = closure'[q], c # Nil
               PROVE  GoodClosure(q, c)'
    BY DEF ClosuresInv, GoodClosure, RetryCount, Accounted
  <2>1. CASE c = closure[q]
    BY <1>1, <1>6, <2>1, GoodStays DEF ClosuresInv
  <2>2. CASE c # closure[q]
    <3>1. q = p /\ Pending(p) /\ c = Settled(closure[p], ok)
      BY <1>4, <2>2 DEF TypeOK
    <3>2. GoodClosure(p, closure[p]) /\ closure[p].status = "pending"
      BY <3>1 DEF ClosuresInv, Pending
    <3> QED
      BY <1>1, <1>6, <3>1, <3>2, SettledGood
  <2> QED
    BY <2>1, <2>2
<1>8. DedupInv'
  BY <1>1, <1>3 DEF DedupInv, MarkSent, Latest, Accounted, TypeOK
<1>9. GhostsInv' /\ SlicesInv'
  BY <1>4 DEF GhostsInv, SlicesInv
<1> QED
  BY <1>6, <1>7, <1>8, <1>9

LEMMA RequestEndsInv == ASSUME IInv, NEW p \in Posts, RequestEnds(p) PROVE IInv'
<1>1. CreateAt[p] \in Nat /\ recorded \in Nat /\ refused \in Nat /\ failures \in 0..MaxFailures
      /\ MaxFailures \in Nat
  BY ReporterAssumption DEF IInv, TypeOK
<1>2. CASE Succeed(p)
  <2>1. Accounted(p)'
    BY <1>1, <1>2 DEF Succeed, Latest, Accounted
  <2> QED
    BY <1>1, <1>2, <2>1, EndsInv DEF Succeed
<1>3. CASE Refuse(p)
  <2>1. Accounted(p)'
    BY <1>1, <1>3 DEF Refuse, Latest, Accounted
  <2> QED
    BY <1>1, <1>3, <2>1, EndsInv DEF Refuse
<1>4. CASE Fail(p)
  <2>1. Ends(p, FALSE) /\ failures' = failures + 1 /\ dedup' = dedup /\ refused' = refused
    BY <1>4 DEF Fail
  <2>2. failures' \in 0..MaxFailures /\ recorded' \in {recorded, Latest(CreateAt[p], recorded)}
    BY <1>1, <1>4 DEF Fail
  <2> QED
    BY <2>1, <2>2, EndsInv
<1> QED
  BY <1>2, <1>3, <1>4 DEF RequestEnds

LEMMA ConfigChangesInv == IInv /\ ConfigChanges => IInv'
<1> SUFFICES ASSUME IInv, ConfigChanges PROVE IInv'
  OBVIOUS
<1>1. detached' \subseteq Posts /\ ghosts' \subseteq Ghost /\ GhostsInv'
  BY DisposedType DEF ConfigChanges, RerunEffects, IInv
<1>2. \A p \in Posts : Fresh \in Closure
  BY FreshGood DEF IInv, GoodClosure
<1>3. /\ closure' \in [Posts -> Closure \cup {Nil}]
      /\ \A p \in Posts : closure'[p] \in {Nil, Fresh, closure[p]}
  BY <1>2 DEF ConfigChanges, RerunEffects
<1>4. eligible' \in BOOLEAN
  BY DEF ConfigChanges, IInv, TypeOK
<1> QED
  BY <1>1, <1>3, <1>4, LifeStep DEF ConfigChanges, IInv, TypeOK, results, SlicesInv

LEMMA IdentityArrivesInv == IInv /\ IdentityArrives => IInv'
<1> SUFFICES ASSUME IInv, IdentityArrives PROVE IInv'
  OBVIOUS
<1>1. detached' \subseteq Posts /\ ghosts' \subseteq Ghost /\ GhostsInv'
  BY DisposedType, ReporterAssumption DEF IdentityArrives, IInv
<1>2. /\ closure' \in [Posts -> Closure \cup {Nil}]
      /\ \A p \in Posts : closure'[p] \in {Nil, Fresh, closure[p]}
  BY DEF IdentityArrives, IInv, TypeOK
<1> QED
  BY <1>1, <1>2, LifeStep DEF IdentityArrives, IInv, TypeOK, results, SlicesInv

LEMMA SwitchChannelInv == IInv /\ SwitchChannel => IInv'
<1> SUFFICES ASSUME IInv, SwitchChannel PROVE IInv'
  OBVIOUS
<1>1. current' \in BOOLEAN
  BY DEF SwitchChannel
<1> QED
  BY <1>1, LifeStep DEF SwitchChannel, IInv, TypeOK, results, SlicesInv, GhostsInv

LEMMA DeleteInv == ASSUME IInv, NEW p \in Posts, Delete(p) PROVE IInv'
BY LifeStep DEF Delete, IInv, TypeOK, results, SlicesInv, GhostsInv

LEMMA UninitializeInv == IInv /\ Uninitialize => IInv'
<1> SUFFICES ASSUME IInv, Uninitialize PROVE IInv'
  OBVIOUS
<1>1. detached' \subseteq Posts /\ ghosts' \subseteq Ghost /\ GhostsInv'
  BY DisposedType DEF Uninitialize, IInv
<1>2. /\ closure' \in [Posts -> Closure \cup {Nil}]
      /\ \A p \in Posts : closure'[p] \in {Nil, Fresh, closure[p]}
  BY DEF Uninitialize
<1> QED
  BY <1>1, <1>2, LifeStep DEF Uninitialize, IInv, TypeOK, SlicesInv

LEMMA StepInv == IInv /\ [Next]_vars => IInv'
<1> SUFFICES ASSUME IInv, [Next]_vars PROVE IInv'
  OBVIOUS
<1>1. ASSUME NEW p \in Posts, Mount(p) \/ Unmount(p) \/ Scroll(p) \/ Observe(p) \/ Delete(p)
      PROVE IInv'
  BY <1>1, MountInv, UnmountInv, ScrollInv, ObserveInv, DeleteInv
<1>2. ASSUME NEW p \in Posts, DwellFires(p) \/ RetryFires(p) \/ OrphanFires(p) \/ GhostFires(p)
      PROVE IInv'
  BY <1>2, DwellFiresInv, RetryFiresInv, OrphanFiresInv, GhostFiresInv
<1>3. ASSUME NEW p \in Posts, RequestEnds(p) PROVE IInv'
  BY <1>3, RequestEndsInv
<1>4. CASE UpdateState
  BY <1>4, UpdateStateInv
<1>5. CASE ConfigChanges \/ IdentityArrives \/ SwitchChannel \/ Uninitialize
  BY <1>5, ConfigChangesInv, IdentityArrivesInv, SwitchChannelInv, UninitializeInv
<1>6. CASE UNCHANGED vars
  BY <1>6 DEF vars, inputs, results, IInv, TypeOK, ClosuresInv, DedupInv, GhostsInv,
              SlicesInv, GoodClosure, Accounted, RetryCount
<1> QED
  BY <1>1, <1>2, <1>3, <1>4, <1>5, <1>6 DEF Next

LEMMA Invariance == Spec => []IInv
<1>1. Init => IInv
  BY InitInv
<1>2. IInv /\ [Next]_vars => IInv'
  BY StepInv
<1> QED
  BY <1>1, <1>2, PTL DEF Spec

-----------------------------------------------------------------------------
(* The type invariant, which bounds the timers a component leaves behind   *)
(* by the requests that failed: the retry timer of read_receipt.tsx that a *)
(* later failure or a new effect orphans.                                  *)
THEOREM ReporterTypeCorrect == Spec => []TypeOK
<1>1. IInv => TypeOK
  BY DEF IInv
<1> QED
  BY <1>1, Invariance, PTL

(* No report is suppressed unless the server recorded or refused a post at *)
(* least as new: the deduplicator of actions.ts learns of a read from its  *)
(* answer only.                                                            *)
THEOREM SuppressionIsAccounted == Spec => []SuppressedForAReason
<1>1. IInv => SuppressedForAReason
  BY SuppressedAccounted DEF IInv, SuppressedForAReason, ClosuresInv, GoodClosure
<1> QED
  BY <1>1, Invariance, PTL

-----------------------------------------------------------------------------
(* The step of the property SendsOnlyWatched. *)
Watched(p) == closure[p] # Nil /\ closure[p].visible /\ IsActive(tracker)

(* An effect that runs for p, and forgets no request, starts one only for  *)
(* a post that is watched.                                                 *)
LEMMA EffectSends ==
  ASSUME NEW p \in Posts, NEW c, closure \in [Posts -> Closure \cup {Nil}],
         closure' = [closure EXCEPT ![p] = c], detached' = detached,
         c.status = "pending" => closure[p].status = "pending" \/ Watched(p),
         closure[p] # Nil
  PROVE  \A q \in Posts : Sends(q) => Watched(q)
BY DEF Sends, Pending

LEMMA StepSends == IInv /\ [Next]_vars => \A p \in Posts : Sends(p) => Watched(p)
<1> SUFFICES ASSUME IInv, [Next]_vars PROVE \A q \in Posts : Sends(q) => Watched(q)
  OBVIOUS
<1> USE DEF IInv
<1>0. closure \in [Posts -> Closure \cup {Nil}]
  BY DEF TypeOK
<1>1. ASSUME NEW p \in Posts, Mount(p) \/ Scroll(p) \/ Delete(p)
      PROVE \A q \in Posts : Sends(q) => Watched(q)
  BY <1>1, <1>0 DEF Mount, Scroll, Delete, Sends, Pending, Fresh
<1>2. ASSUME NEW p \in Posts, Unmount(p) PROVE \A q \in Posts : Sends(q) => Watched(q)
  <2>1. \A q \in detached' \ detached : Pending(q)
    BY <1>2, DisposedType DEF Unmount
  <2> QED
    BY <1>2, <1>0, <2>1 DEF Unmount, Sends, Pending
<1>3. ASSUME NEW p \in Posts, Observe(p) PROVE \A q \in Posts : Sends(q) => Watched(q)
  <2> DEFINE d == OnEntry(closure[p], IsSufficientlyVisible(p, slice[p]))
             c == [d EXCEPT !.index = ThresholdIndex[p][slice[p]]]
  <2>1. closure[p] # Nil /\ GoodClosure(p, closure[p])
        /\ IsSufficientlyVisible(p, slice[p]) \in BOOLEAN
    BY <1>3 DEF Observe, ClosuresInv, IsSufficientlyVisible
  <2>2. d \in Closure /\ d.status = closure[p].status
    BY <2>1, OnEntryGood DEF GoodClosure
  <2>3. c.status = closure[p].status
    <3> HIDE DEF d
    <3> QED BY <2>2 DEF Closure
  <2>4. closure' = [closure EXCEPT ![p] = c] /\ detached' = detached
    BY <1>3 DEF Observe
  <2> HIDE DEF c
  <2> QED
    BY <1>0, <2>1, <2>3, <2>4, EffectSends
<1>4. ASSUME NEW p \in Posts, DwellFires(p) PROVE \A q \in Posts : Sends(q) => Watched(q)
  <2> DEFINE c == [closure[p] EXCEPT !.dwell = FALSE]
  <2>1. /\ closure[p] # Nil /\ closure[p].visible
        /\ GoodClosure(p, c) /\ c.status = closure[p].status
        /\ closure' = [closure EXCEPT ![p] = AttemptSend(p, c)] /\ detached' = detached
    BY <1>4 DEF DwellFires, ClosuresInv, GoodClosure, Closure, RetryCount
  <2> HIDE DEF c
  <2>2. AttemptSend(p, c).status = "pending" => closure[p].status = "pending" \/ IsActive(tracker)
    BY <2>1, AttemptSendGood
  <2> QED
    BY <1>0, <2>1, <2>2, EffectSends DEF Watched
<1>5. ASSUME NEW p \in Posts, RetryFires(p) \/ OrphanFires(p)
      PROVE \A q \in Posts : Sends(q) => Watched(q)
  <2>1. PICK n \in {closure[p].orphans, Reset(closure[p]).orphans} :
          /\ closure[p] # Nil /\ detached' = detached
          /\ closure' = [closure EXCEPT ![p] =
               Retried(p, [closure[p] EXCEPT !.retry = FALSE, !.orphans = n])]
          /\ n \in 0..MaxFailures /\ n <= failures
    <3>1. closure[p] # Nil /\ detached' = detached
      BY <1>5 DEF RetryFires, OrphanFires
    <3>2. /\ closure[p] \in Closure
          /\ closure[p].orphans + RetryCount(closure[p]) <= failures
          /\ failures \in Nat /\ MaxFailures \in Nat
      BY <3>1, ReporterAssumption DEF ClosuresInv, GoodClosure, TypeOK
    <3>3. closure[p].orphans \in 0..MaxFailures /\ closure[p].orphans <= failures
      BY <3>2 DEF Closure, RetryCount
    <3>4. CASE RetryFires(p)
      <4>1. [closure[p] EXCEPT !.retry = FALSE] =
              [closure[p] EXCEPT !.retry = FALSE, !.orphans = closure[p].orphans]
        BY <3>2 DEF Closure
      <4>2. closure' = [closure EXCEPT ![p] =
               Retried(p, [closure[p] EXCEPT !.retry = FALSE, !.orphans = closure[p].orphans])]
        BY <3>4, <4>1 DEF RetryFires
      <4> QED
        BY <3>1, <3>3, <4>2
    <3>5. CASE OrphanFires(p)
      <4> DEFINE n == IF closure[p].retry THEN closure[p].orphans ELSE closure[p].orphans - 1
      <4>1. n \in 0..MaxFailures /\ n <= failures
        BY <3>2, <3>3, <3>5 DEF OrphanFires
      <4>2. Reset(closure[p]) = [closure[p] EXCEPT !.retry = FALSE, !.orphans = n]
        BY DEF Reset
      <4>3. Reset(closure[p]).orphans = n
        BY <3>2, <4>2 DEF Closure
      <4>4. closure' = [closure EXCEPT ![p] = Retried(p, Reset(closure[p]))]
        BY <3>5 DEF OrphanFires
      <4> HIDE DEF n
      <4> QED
        BY <3>1, <4>1, <4>2, <4>3, <4>4
    <3> QED
      BY <1>5, <3>4, <3>5
  <2> DEFINE c == [closure[p] EXCEPT !.retry = FALSE, !.orphans = n]
  <2>2. GoodClosure(p, c)
    BY <2>1, ResetGood
  <2>3. c.status = closure[p].status /\ c.visible = closure[p].visible
    BY <2>1, <1>0 DEF Closure
  <2> HIDE DEF c
  <2>4. Retried(p, c).status = "pending" =>
          closure[p].status = "pending" \/ (closure[p].visible /\ IsActive(tracker))
    BY <2>2, <2>3, RetriedGood
  <2>5. closure' = [closure EXCEPT ![p] = Retried(p, c)] /\ closure[p] # Nil
        /\ detached' = detached
    BY <2>1 DEF c
  <2> QED
    BY <1>0, <2>4, <2>5, EffectSends DEF Watched
<1>6. ASSUME NEW p \in Posts, GhostFires(p) PROVE \A q \in Posts : Sends(q) => Watched(q)
  <2>1. detached' = detached /\ closure' = closure
    BY <1>6 DEF GhostFires, GhostsInv
  <2> QED
    BY <2>1 DEF Sends, Pending
<1>7. ASSUME NEW p \in Posts, RequestEnds(p) PROVE \A q \in Posts : Sends(q) => Watched(q)
  <2>1. PICK ok \in BOOLEAN : Ends(p, ok)
    BY <1>7 DEF RequestEnds, Succeed, Refuse, Fail
  <2>2. detached' \subseteq detached
    BY <2>1 DEF Ends
  <2>3. closure' = closure \/ (Pending(p) /\ closure' = [closure EXCEPT ![p] = Settled(@, ok)])
    BY <2>1 DEF Ends
  <2> QED
    BY <1>0, <2>2, <2>3 DEF Sends, Pending
<1>8. CASE UpdateState
  <2>1. PICK v \in VisibilityState : closure' = [p \in Posts |->
             IF closure[p] = Nil THEN Nil ELSE OnVisibilityChange(closure[p], v)]
    BY <1>8 DEF UpdateState
  <2>2. \A p \in Posts : closure[p] # Nil =>
          OnVisibilityChange(closure[p], v).status = closure[p].status
    BY OnVisibilityChangeGood DEF ClosuresInv
  <2>3. detached' = detached
    BY <1>8 DEF UpdateState
  <2> QED
    BY <2>1, <2>2, <2>3 DEF Sends, Pending
<1>9. CASE ConfigChanges
  <2>1. \A q \in detached' \ detached : Pending(q)
    BY <1>9, DisposedType DEF ConfigChanges, RerunEffects
  <2> QED
    BY <1>9, <2>1 DEF ConfigChanges, RerunEffects, Sends, Pending, Fresh
<1>10. CASE IdentityArrives
  <2>1. \A q \in detached' \ detached : Pending(q)
    BY <1>10, DisposedType, ReporterAssumption DEF IdentityArrives
  <2> QED
    BY <1>10, <2>1 DEF IdentityArrives, Sends, Pending
<1>11. CASE Uninitialize
  <2>1. \A q \in detached' \ detached : Pending(q)
    BY <1>11, DisposedType DEF Uninitialize
  <2> QED
    BY <1>11, <2>1 DEF Uninitialize, Sends, Pending
<1>12. CASE SwitchChannel \/ UNCHANGED vars
  BY <1>12 DEF SwitchChannel, vars, Sends, Pending
<1> QED
  BY <1>1, <1>2, <1>3, <1>4, <1>5, <1>6, <1>7, <1>8, <1>9, <1>10, <1>11, <1>12 DEF Next

(* A report goes out, from whichever timer of read_receipt.tsx, only while *)
(* the component sees its post and the window is active; the orphans of a  *)
(* disposed effect never send.                                             *)
THEOREM OnlyTheWatchedIsSent == Spec => SendsOnlyWatched
<1>1. IInv /\ [Next]_vars =>
        [\A p \in Posts : Sends(p) =>
           closure[p] # Nil /\ closure[p].visible /\ IsActive(tracker)]_vars
  BY StepSends DEF Watched
<1> QED
  BY <1>1, Invariance, PTL DEF Spec, SendsOnlyWatched

=============================================================================
