--------------------------- MODULE ReadServerProofs ---------------------------
(***************************************************************************)
(* Theorems about ReadServer, for any users, posts, request slots, bounds  *)
(* and faults.                                                             *)
(***************************************************************************)
EXTENDS ReadServer, TLAPS

-----------------------------------------------------------------------------
(* What the helpers return. *)

LEMMA WatermarkOfType ==
  ASSUME NEW p \in Posts, NEW t \in Nat
  PROVE  WatermarkOf(p, t) \in Watermark
BY CreateAtAssumption DEF WatermarkOf, Watermark

LEMMA GotoType ==
  ASSUME NEW s \in Request, NEW c \in Steps
  PROVE  Goto(s, c) \in Request
BY DEF Goto, Request

(* The fields a handler never changes once they are set. *)
SameRead(t, s) ==
  /\ t.reader = s.reader
  /\ t.post = s.post
  /\ t.seen = s.seen
  /\ t.late = s.late

LEMMA GotoShape ==
  ASSUME NEW s \in Request, NEW c \in Steps
  PROVE  /\ Goto(s, c).pc = c
         /\ SameRead(Goto(s, c), s)
         /\ Goto(s, c).failed = s.failed
BY DEF Goto, Request, SameRead

LEMMA AfterErrorShape ==
  ASSUME NEW s \in Request, AfterError(s) # Nil
  PROVE  /\ AfterError(s) \in Request
         /\ AfterError(s).pc = "publishChanged"
         /\ AfterError(s).failed
         /\ SameRead(AfterError(s), s)
BY DEF AfterError, Request, Steps, SameRead

LEMMA AfterPublishShape ==
  ASSUME NEW s \in Request
  PROVE  /\ AfterPublish(s) \in Request
         /\ AfterPublish(s).pc \in {"publishChanged", "respond"}
         /\ SameRead(AfterPublish(s), s)
<1>1. CASE s.legacy \/ s.advanced
  BY <1>1, GotoType, GotoShape DEF AfterPublish, Steps
<1>2. CASE ~(s.legacy \/ s.advanced)
  BY <1>2, GotoType, GotoShape DEF AfterPublish, Steps
<1> QED
  BY <1>1, <1>2

LEMMA AfterAdvanceShape ==
  ASSUME NEW s \in Request
  PROVE  /\ AfterAdvance(s) \in Request
         /\ AfterAdvance(s).pc \in {"publishReceipt", "publishChanged", "respond"}
         /\ SameRead(AfterAdvance(s), s)
<1> DEFINE t == [s EXCEPT !.attempt = 0]
<1>1. t \in Request /\ SameRead(t, s)
  BY DEF Request, SameRead
<1>2. AfterAdvance(s) = IF t.written \/ t.advanced THEN Goto(t, "publishReceipt")
                                                   ELSE AfterPublish(t)
  BY DEF AfterAdvance
<1> HIDE DEF t
<1>3. CASE t.written \/ t.advanced
  <2>1. /\ Goto(t, "publishReceipt") \in Request
        /\ Goto(t, "publishReceipt").pc = "publishReceipt"
        /\ SameRead(Goto(t, "publishReceipt"), t)
    BY <1>1, GotoType, GotoShape DEF Steps
  <2> QED
    BY <1>1, <1>2, <1>3, <2>1 DEF SameRead
<1>4. CASE ~(t.written \/ t.advanced)
  BY <1>1, <1>2, <1>4, AfterPublishShape DEF SameRead
<1> QED
  BY <1>3, <1>4

LEMMA AfterIndexShape ==
  ASSUME NEW s \in Request, NEW indexed \in BOOLEAN
  PROVE  /\ AfterIndex(s, indexed) \in Request
         /\ AlreadyRead(s) =>
              AfterIndex(s, indexed).pc \in {"publishChanged", "readStored"}
         /\ ~AlreadyRead(s) => AfterIndex(s, indexed).pc = "putReceipt"
         /\ SameRead(AfterIndex(s, indexed), s)
<1> DEFINE b == indexed /\ s.seen # Nil
           t == [s EXCEPT !.legacy = b, !.oldIndex = <<>>,
                          !.newIndex = <<>>, !.attempt = 0, !.absent = {}]
<1>1. b \in BOOLEAN /\ <<>> \in Seq(Users)
  OBVIOUS
<1>2. AfterIndex(s, indexed) =
        IF AlreadyRead(s)
        THEN [t EXCEPT !.readAt = s.seen.readAt,
                       !.pc = IF t.legacy THEN "publishChanged" ELSE "readStored"]
        ELSE Goto(t, "putReceipt")
  BY DEF AfterIndex
<1> HIDE DEF b
<1>3. t \in Request /\ SameRead(t, s)
  BY <1>1 DEF Request, SameRead
<1> HIDE DEF t
<1>4. CASE AlreadyRead(s)
  <2>1. s.seen.readAt \in Nat
    BY <1>4 DEF AlreadyRead, Covers, Request, Watermark
  <2> QED
    BY <1>2, <1>3, <1>4, <2>1 DEF Request, Steps, SameRead
<1>5. CASE ~AlreadyRead(s)
  <2>1. /\ Goto(t, "putReceipt") \in Request
        /\ Goto(t, "putReceipt").pc = "putReceipt"
        /\ SameRead(Goto(t, "putReceipt"), t)
    BY <1>3, GotoType, GotoShape DEF Steps
  <2> QED
    BY <1>2, <1>3, <1>5, <2>1 DEF SameRead
<1> QED
  BY <1>4, <1>5

LEMMA RetryShape ==
  ASSUME NEW s \in Request, NEW c \in Steps, NEW bound \in Nat, NEW giveUp
  PROVE  \/ Retry(s, c, bound, giveUp) = giveUp
         \/ /\ Retry(s, c, bound, giveUp) \in Request
            /\ Retry(s, c, bound, giveUp).pc = c
            /\ SameRead(Retry(s, c, bound, giveUp), s)
<1> DEFINE t == [s EXCEPT !.pc = c, !.attempt = s.attempt + 1]
<1>1. s.attempt + 1 \in Nat
  BY DEF Request
<1>2. t \in Request /\ t.pc = c /\ SameRead(t, s)
  BY <1>1 DEF Request, SameRead
<1>3. Retry(s, c, bound, giveUp) = IF s.attempt + 1 < bound THEN t ELSE giveUp
  BY DEF Retry
<1> HIDE DEF t
<1> QED
  BY <1>2, <1>3

(* Writing slot q changes no other slot and keeps req well typed. *)
LEMMA BecomeType ==
  ASSUME TypeOK, NEW q \in Requests, NEW s \in Request \cup {Nil}, Become(q, s)
  PROVE  /\ req' \in [Requests -> Request \cup {Nil}]
         /\ req'[q] = s
         /\ \A o \in Requests : o # q => req'[o] = req[o]
BY DEF TypeOK, Become

LEMMA AtType ==
  ASSUME TypeOK, NEW q \in Requests, NEW c, At(q, c)
  PROVE  /\ req[q] \in Request
         /\ req[q].pc = c
         /\ req[q] # Nil
BY DEF TypeOK, At

LEMMA ReceiptOfType ==
  ASSUME NEW s \in Request
  PROVE  ReceiptOf(s) \in Receipt
BY DEF ReceiptOf, Receipt, Request

-----------------------------------------------------------------------------
(* Type correctness, one lemma for each group of actions. *)

LEMMA InitType == Init => TypeOK
<1> SUFFICES ASSUME Init PROVE TypeOK
  OBVIOUS
<1>1. wm \in [Users -> Watermark \cup {Nil}]
  <2>1. PICK legacy \in [Users -> {Nil} \cup {WatermarkOf(p, 0) : p \in Posts}] :
          wm = legacy
    BY DEF Init
  <2>2. \A p \in Posts : WatermarkOf(p, 0) \in Watermark
    BY WatermarkOfType
  <2> QED
    BY <2>1, <2>2
<1>2. rr \in [Users \X Posts -> Nat \cup {Nil}]
  BY DEF Init
<1>3. req \in [Requests -> Request \cup {Nil}]
  BY DEF Init
<1>4. /\ idx = <<>> /\ members = Users /\ enabled = TRUE /\ clock = 1
      /\ answered = {} /\ announced = {} /\ stale = FALSE
  BY DEF Init
<1>5. idx \in Seq(Users)
  BY <1>4
<1> QED
  BY <1>1, <1>2, <1>3, <1>4, <1>5 DEF TypeOK

LEMMA NewRequestType ==
  ASSUME TypeOK, NEW r \in Users, NEW p \in Posts
  PROVE  NewRequest(r, p) \in Request
<1>1. Covers(wm[r], p) \in BOOLEAN /\ <<>> \in Seq(Users) /\ clock \in Nat
  BY DEF Covers, TypeOK
<1> DEFINE late == Covers(wm[r], p)
<1> HIDE DEF late
<1>2. late \in BOOLEAN
  BY <1>1 DEF late
<1>3. [ pc |-> "getWatermark", reader |-> r, post |-> p, now |-> clock,
        seen |-> Nil, oldIndex |-> <<>>, newIndex |-> <<>>, current |-> Nil,
        attempt |-> 0, legacy |-> FALSE, written |-> FALSE, advanced |-> FALSE,
        failed |-> FALSE, readAt |-> clock, absent |-> {},
        late |-> late ] \in Request
  BY <1>1, <1>2 DEF Request, Steps
<1> QED
  BY <1>3 DEF NewRequest, late

(* The steps that only move their own handler. *)
LEMMA LocalStepType ==
  ASSUME TypeOK, NEW q \in Requests, NEW s \in Request \cup {Nil},
         Become(q, s), UNCHANGED <<store, env, history>>
  PROVE  TypeOK'
BY BecomeType DEF TypeOK, store, env, history

LEMMA GetWatermarkType ==
  ASSUME TypeOK, NEW q \in Requests, GetWatermark(q)
  PROVE  TypeOK'
<1>1. req[q] \in Request
  BY AtType DEF GetWatermark
<1>2. [req[q] EXCEPT !.pc = "getIndex", !.seen = wm[req[q].reader]] \in Request
  BY <1>1 DEF Request, Steps, TypeOK
<1> QED
  BY <1>2, LocalStepType DEF GetWatermark

LEMMA GetIndexType ==
  ASSUME TypeOK, NEW q \in Requests, GetIndex(q)
  PROVE  TypeOK'
<1> DEFINE s == req[q]
<1>1. s \in Request /\ idx \in Seq(Users)
  BY AtType DEF GetIndex, TypeOK
<1>2. AfterIndex(s, FALSE) \in Request
  BY <1>1, AfterIndexShape
<1>3. [s EXCEPT !.pc = "pruneIndex", !.oldIndex = idx] \in Request
  BY <1>1 DEF Request, Steps
<1>4. Append(idx, s.reader) \in Seq(Users)
  BY <1>1 DEF Request
<1>5. [s EXCEPT !.pc = "casIndex", !.oldIndex = idx,
                !.newIndex = Append(idx, s.reader)] \in Request
  BY <1>1, <1>4 DEF Request, Steps
<1> QED
  BY <1>2, <1>3, <1>5, LocalStepType DEF GetIndex

LEMMA PruneIndexType ==
  ASSUME TypeOK, NEW q \in Requests, PruneIndex(q)
  PROVE  TypeOK'
<1> DEFINE s == req[q]
<1>1. s \in Request /\ members \subseteq Users
  BY AtType DEF PruneIndex, TypeOK
<1>2. PICK kept \in UNION {[1..n -> members] : n \in 0..Len(s.oldIndex)} :
        Become(q, IF IndexFull(kept) THEN AfterFullIndex(s)
                  ELSE [s EXCEPT !.pc = "casIndex",
                                 !.newIndex = Append(kept, s.reader),
                                 !.absent = Range(s.oldIndex) \ members])
  BY DEF PruneIndex
<1>3. AfterFullIndex(s) \in Request
  BY <1>1, AfterIndexShape DEF AfterFullIndex
<1>4. PICK n \in 0..Len(s.oldIndex) : kept \in [1..n -> members]
  OBVIOUS
<1>5. kept \in Seq(Users)
  <2>1. n \in Nat
    BY <1>1 DEF Request
  <2> QED
    BY <1>1, <1>4, <2>1
<1>6. Append(kept, s.reader) \in Seq(Users)
  BY <1>1, <1>5 DEF Request
<1>7. Range(s.oldIndex) \ members \subseteq Users
  BY <1>1 DEF Request, Range
<1>8. [s EXCEPT !.pc = "casIndex", !.newIndex = Append(kept, s.reader),
                !.absent = Range(s.oldIndex) \ members] \in Request
  BY <1>1, <1>6, <1>7 DEF Request, Steps
<1> QED
  BY <1>2, <1>3, <1>8, LocalStepType DEF PruneIndex

LEMMA CasIndexType ==
  ASSUME TypeOK, NEW q \in Requests, CasIndex(q)
  PROVE  TypeOK'
<1> DEFINE s == req[q]
           t == [s EXCEPT !.oldIndex = <<>>, !.newIndex = <<>>, !.absent = {}]
<1>1. s \in Request
  BY AtType DEF CasIndex
<1>2. CASE Swaps(idx, s.oldIndex)
  <2>1. AfterIndex(s, TRUE) \in Request
    BY <1>1, AfterIndexShape
  <2>2. req' \in [Requests -> Request \cup {Nil}]
    BY <1>2, <2>1, BecomeType DEF CasIndex
  <2>3. idx' \in Seq(Users)
    BY <1>1, <1>2 DEF CasIndex, Request
  <2>4. stale' \in BOOLEAN
    BY <1>2 DEF CasIndex
  <2> QED
    BY <2>2, <2>3, <2>4 DEF CasIndex, TypeOK, env
<1>3. CASE ~Swaps(idx, s.oldIndex)
  <2>1. <<>> \in Seq(Users)
    OBVIOUS
  <2>2. t \in Request
    BY <1>1, <2>1 DEF Request
  <2>3. Retry(t, "getIndex", MaxIndexCASRetries, Nil) \in Request \cup {Nil}
    BY <2>2, RetryShape, BoundsAssumption DEF Steps
  <2>4. req' \in [Requests -> Request \cup {Nil}]
    BY <1>3, <2>3, BecomeType DEF CasIndex
  <2> QED
    BY <1>3, <2>4 DEF CasIndex, TypeOK, env
<1> QED
  BY <1>2, <1>3

LEMMA PutReceiptType ==
  ASSUME TypeOK, NEW q \in Requests, PutReceipt(q)
  PROVE  TypeOK'
<1> DEFINE s == req[q]
           k == <<s.reader, s.post>>
<1>1. s \in Request
  BY AtType DEF PutReceipt
<1>2. k \in Users \X Posts /\ s.now \in Nat
  BY <1>1 DEF Request
<1>3. CASE Swaps(rr[k], Nil)
  <2>1. AfterReceipt(s) \in Request
    BY <1>1 DEF AfterReceipt, Request, Steps
  <2>2. req' \in [Requests -> Request \cup {Nil}]
    BY <1>3, <2>1, BecomeType DEF PutReceipt
  <2>3. rr' = [rr EXCEPT ![k] = s.now]
    BY <1>3 DEF PutReceipt
  <2>4. rr' \in [Users \X Posts -> Nat \cup {Nil}]
    BY <1>2, <2>3 DEF TypeOK
  <2> QED
    BY <2>2, <2>4 DEF PutReceipt, TypeOK, env, history
<1>4. CASE ~Swaps(rr[k], Nil)
  <2>1. Goto(s, "readStored") \in Request
    BY <1>1, GotoType DEF Steps
  <2> QED
    BY <1>4, <2>1, LocalStepType DEF PutReceipt, store
<1> QED
  BY <1>3, <1>4

LEMMA ReadStoredType ==
  ASSUME TypeOK, NEW q \in Requests, ReadStored(q)
  PROVE  TypeOK'
<1> DEFINE s == req[q]
           t == StoredTime(rr[<<s.reader, s.post>>], s.readAt)
<1>1. s \in Request
  BY AtType DEF ReadStored
<1>2. t \in Nat
  BY <1>1 DEF StoredTime, Request, TypeOK
<1> HIDE DEF t
<1>3. [s EXCEPT !.readAt = t,
                !.pc = IF AlreadyRead(s) THEN "respond" ELSE "getCurrent"] \in Request
  BY <1>1, <1>2 DEF Request, Steps
<1> QED
  BY <1>3, LocalStepType DEF ReadStored, t

LEMMA GetCurrentType ==
  ASSUME TypeOK, NEW q \in Requests, GetCurrent(q)
  PROVE  TypeOK'
<1> DEFINE s == req[q]
           w == wm[s.reader]
<1>1. s \in Request
  BY AtType DEF GetCurrent
<1>2. w \in Watermark \cup {Nil}
  BY <1>1 DEF Request, TypeOK
<1>3. AfterAdvance(s) \in Request
  BY <1>1, AfterAdvanceShape
<1>4. [s EXCEPT !.pc = "casWatermark", !.current = w] \in Request
  BY <1>1, <1>2 DEF Request, Steps
<1> QED
  BY <1>3, <1>4, LocalStepType DEF GetCurrent

LEMMA CasWatermarkType ==
  ASSUME TypeOK, NEW q \in Requests, CasWatermark(q)
  PROVE  TypeOK'
<1> DEFINE s == [req[q] EXCEPT !.current = Nil]
           t == [s EXCEPT !.advanced = TRUE]
           r == s.reader
<1>1. req[q] \in Request
  BY AtType DEF CasWatermark
<1>2. s \in Request
  BY <1>1 DEF Request
<1>3. r \in Users /\ s.post \in Posts /\ s.readAt \in Nat
  BY <1>2 DEF Request
<1>4. CASE Swaps(wm[r], req[q].current)
  <2>1. t \in Request
    BY <1>2 DEF Request
  <2>2. AfterAdvance(t) \in Request
    BY <2>1, AfterAdvanceShape
  <2>3. req' \in [Requests -> Request \cup {Nil}]
    BY <1>4, <2>2, BecomeType DEF CasWatermark
  <2>4. wm' = [wm EXCEPT ![r] = WatermarkOf(s.post, s.readAt)]
    BY <1>4 DEF CasWatermark
  <2>5. wm' \in [Users -> Watermark \cup {Nil}]
    BY <1>3, <2>4, WatermarkOfType DEF TypeOK
  <2>6. stale' \in BOOLEAN
    BY <1>4 DEF CasWatermark, TypeOK
  <2> QED
    BY <2>3, <2>5, <2>6 DEF CasWatermark, TypeOK, env
<1>5. CASE ~Swaps(wm[r], req[q].current)
  <2>1. AfterError(s) \in Request \cup {Nil}
    BY <1>2, AfterErrorShape
  <2>2. Retry(s, "getCurrent", MaxWatermarkCASRetries, AfterError(s))
          \in Request \cup {Nil}
    BY <1>2, <2>1, RetryShape, BoundsAssumption DEF Steps
  <2>3. req' \in [Requests -> Request \cup {Nil}]
    BY <1>5, <2>2, BecomeType DEF CasWatermark
  <2> QED
    BY <1>5, <2>3 DEF CasWatermark, TypeOK, env
<1> QED
  BY <1>4, <1>5

LEMMA PublishReceiptType ==
  ASSUME TypeOK, NEW q \in Requests, PublishReceipt(q)
  PROVE  TypeOK'
<1>1. req[q] \in Request
  BY AtType DEF PublishReceipt
<1>2. AfterPublish(req[q]) \in Request
  BY <1>1, AfterPublishShape
<1>3. req' \in [Requests -> Request \cup {Nil}]
  BY <1>2, BecomeType DEF PublishReceipt
<1>4. announced' \in SUBSET Receipt
  BY <1>1, ReceiptOfType DEF PublishReceipt, TypeOK
<1> QED
  BY <1>3, <1>4 DEF PublishReceipt, TypeOK, store, env

LEMMA PublishChangedType ==
  ASSUME TypeOK, NEW q \in Requests, PublishChanged(q)
  PROVE  TypeOK'
<1> DEFINE s == req[q]
           c == IF AlreadyRead(s) THEN "readStored" ELSE "respond"
<1>1. s \in Request /\ c \in Steps
  BY AtType DEF PublishChanged, Steps
<1>2. Goto(s, c) \in Request
  BY <1>1, GotoType
<1>3. req' \in [Requests -> Request \cup {Nil}]
  BY <1>2, BecomeType DEF PublishChanged
<1> QED
  BY <1>3 DEF PublishChanged, TypeOK, store, env

LEMMA RespondType ==
  ASSUME TypeOK, NEW q \in Requests, Respond(q)
  PROVE  TypeOK'
<1>1. req[q] \in Request
  BY AtType DEF Respond
<1>2. req' \in [Requests -> Request \cup {Nil}]
  BY BecomeType DEF Respond
<1>3. answered' \in SUBSET Receipt
  BY <1>1, ReceiptOfType DEF Respond, TypeOK
<1> QED
  BY <1>2, <1>3 DEF Respond, TypeOK, store, env

LEMMA KVErrorType ==
  ASSUME TypeOK, NEW q \in Requests, KVError(q)
  PROVE  TypeOK'
<1> DEFINE s == req[q]
           t == [s EXCEPT !.current = Nil]
           c == IF AlreadyRead(s) THEN "respond" ELSE "getCurrent"
<1>1. s \in Request /\ c \in Steps
  BY DEF KVError, TypeOK, Steps
<1>2. t \in Request
  BY <1>1 DEF Request
<1>3. AfterError(t) \in Request \cup {Nil}
  BY <1>2, AfterErrorShape
<1>4. Goto(s, c) \in Request
  BY <1>1, GotoType
<1>5. Become(q, Nil) \/ Become(q, AfterError(t)) \/ Become(q, Goto(s, c))
  BY DEF KVError
<1> QED
  BY <1>3, <1>4, <1>5, LocalStepType DEF KVError

LEMMA EnvironmentType ==
  ASSUME TypeOK, Environment
  PROVE  TypeOK'
<1>1. ASSUME NEW q \in Requests, KVError(q) PROVE TypeOK'
  BY <1>1, KVErrorType
<1>2. ASSUME NEW q \in Requests, Crash(q) PROVE TypeOK'
  BY <1>2, LocalStepType DEF Crash
<1>3. ASSUME NEW r \in Users, Leave(r) PROVE TypeOK'
  BY <1>3 DEF Leave, TypeOK, store, history
<1>4. ASSUME NEW r \in Users, Join(r) PROVE TypeOK'
  BY <1>4 DEF Join, TypeOK, store, history
<1>5. ASSUME NEW k \in Users \X Posts, Expire(k) PROVE TypeOK'
  BY <1>5 DEF Expire, TypeOK, env, history
<1>6. CASE SetEnabled
  BY <1>6 DEF SetEnabled, TypeOK, store, history
<1>7. CASE Tick
  BY <1>7 DEF Tick, TypeOK, store, history
<1> QED
  BY <1>1, <1>2, <1>3, <1>4, <1>5, <1>6, <1>7 DEF Environment

LEMMA StepType == TypeOK /\ [Next]_vars => TypeOK'
<1> SUFFICES ASSUME TypeOK, [Next]_vars PROVE TypeOK'
  OBVIOUS
<1>1. ASSUME NEW q \in Requests, NEW r \in Users, NEW p \in Posts,
             HandleRead(q, r, p)
      PROVE  TypeOK'
  BY <1>1, NewRequestType, LocalStepType DEF HandleRead
<1>2. ASSUME NEW q \in Requests, HandlerStep(q) PROVE TypeOK'
  BY <1>2, GetWatermarkType, GetIndexType, PruneIndexType, CasIndexType,
     PutReceiptType, ReadStoredType, GetCurrentType, CasWatermarkType,
     PublishReceiptType, PublishChangedType, RespondType DEF HandlerStep
<1>3. CASE Environment
  BY <1>3, EnvironmentType
<1>4. CASE UNCHANGED vars
  BY <1>4 DEF vars, store, env, history, TypeOK
<1> QED
  BY <1>1, <1>2, <1>3, <1>4 DEF Next

(* The server's state is always well typed: in particular no handler is    *)
(* ever left with half a request, and the store holds watermarks, read     *)
(* times and lists of users only.                                          *)
THEOREM TypeCorrect == Spec => []TypeOK
<1> QED
  BY InitType, StepType, PTL DEF Spec

-----------------------------------------------------------------------------
(* The inductive invariant. *)

Inv ==
  /\ TypeOK
  /\ HandlersInv
  /\ WatermarkWellFormed
  /\ IndexWellFormed
  /\ AcknowledgedIsCovered
  /\ AnnouncedIsCovered

(* v is w or a later watermark. *)
NotBefore(v, w) == w # Nil => v # Nil /\ w.createAt <= v.createAt

LEMMA CoversStays ==
  ASSUME NEW w \in Watermark \cup {Nil}, NEW v \in Watermark \cup {Nil},
         NotBefore(v, w), NEW p \in Posts, Covers(w, p)
  PROVE  Covers(v, p)
BY CreateAtAssumption DEF Covers, NotBefore, Watermark

(* What a handler knows survives the others moving the watermark. *)
LEMMA HandlerInvStays ==
  ASSUME NEW s \in Request,
         NEW w \in Watermark \cup {Nil}, NEW v \in Watermark \cup {Nil},
         NotBefore(v, w), HandlerInv(s, w)
  PROVE  HandlerInv(s, v)
<1>1. s.post \in Posts
  BY DEF Request
<1>2. Covers(w, s.post) => Covers(v, s.post)
  BY <1>1, CoversStays
<1>3. s.seen # Nil => v # Nil /\ s.seen.createAt <= v.createAt
  BY DEF HandlerInv, Promising, NotBefore, Request, Watermark
<1> QED
  BY <1>2, <1>3 DEF HandlerInv, Promising

(* The handler goes on from s to t, and t touches neither the index nor    *)
(* the watermark next.                                                     *)
LEMMA HandlerInvMoves ==
  ASSUME NEW s \in Request, NEW t \in Request, NEW w \in Watermark \cup {Nil},
         HandlerInv(s, w), SameRead(t, s), s.pc # "getWatermark",
         t.pc \notin {"getWatermark", "casWatermark", "pruneIndex", "casIndex"},
         t.pc \in {"putReceipt", "getCurrent", "publishReceipt"} => ~AlreadyRead(s),
         Promising(t) => Covers(w, s.post)
  PROVE  HandlerInv(t, w)
<1>1. AlreadyRead(t) <=> AlreadyRead(s)
  BY DEF AlreadyRead, SameRead
<1> QED
  BY <1>1 DEF HandlerInv, Promising, SameRead

(* A handler that saw the post covered can rely on it. *)
LEMMA AlreadyReadCovers ==
  ASSUME NEW s \in Request, NEW w \in Watermark \cup {Nil},
         HandlerInv(s, w), AlreadyRead(s)
  PROVE  Covers(w, s.post)
<1>1. s.seen \in Watermark /\ s.post \in Posts /\ NotBefore(w, s.seen)
  BY DEF HandlerInv, Promising, AlreadyRead, Covers, Request, NotBefore
<1> QED
  BY <1>1, CoversStays DEF AlreadyRead

LEMMA AfterIndexInv ==
  ASSUME NEW s \in Request, NEW w \in Watermark \cup {Nil}, NEW indexed \in BOOLEAN,
         HandlerInv(s, w), s.pc # "getWatermark"
  PROVE  HandlerInv(AfterIndex(s, indexed), w)
<1>1. AlreadyRead(s) => Covers(w, s.post)
  BY AlreadyReadCovers
<1> DEFINE t == AfterIndex(s, indexed)
<1>2. /\ t \in Request
      /\ AlreadyRead(s) => t.pc \in {"publishChanged", "readStored"}
      /\ ~AlreadyRead(s) => t.pc = "putReceipt"
      /\ SameRead(t, s)
  BY AfterIndexShape
<1> HIDE DEF t
<1>3. HandlerInv(t, w)
  BY <1>1, <1>2, HandlerInvMoves DEF Promising
<1> QED
  BY <1>3 DEF t

(* Appending a new reader to a list without duplicates. *)
LEMMA AppendReader ==
  ASSUME NEW readers \in Seq(Users), NEW r \in Users, r \notin Range(readers),
         IsInjective(readers)
  PROVE  /\ IsInjective(Append(readers, r))
         /\ Range(Append(readers, r)) = Range(readers) \cup {r}
         /\ Len(Append(readers, r)) = Len(readers) + 1
<1> DEFINE t == Append(readers, r)
<1>1. /\ Len(t) = Len(readers) + 1
      /\ DOMAIN t = 1..(Len(readers) + 1)
      /\ DOMAIN readers = 1..Len(readers)
      /\ Len(readers) \in Nat
      /\ \A i \in 1..Len(readers) : t[i] = readers[i]
      /\ t[Len(readers) + 1] = r
  OBVIOUS
<1> HIDE DEF t
<1>2. Range(t) = Range(readers) \cup {r}
  BY <1>1 DEF Range
<1>3. IsInjective(t)
  <2> SUFFICES ASSUME NEW i \in DOMAIN t, NEW j \in DOMAIN t, t[i] = t[j]
               PROVE  i = j
    BY DEF IsInjective
  <2>1. \A n \in 1..Len(readers) : readers[n] # r
    BY <1>1 DEF Range
  <2> QED
    BY <1>1, <2>1 DEF IsInjective
<1> QED
  BY <1>1, <1>2, <1>3 DEF t

(* Pruning keeps a list without duplicates, and adds no one. *)
LEMMA PrunedReaders ==
  ASSUME NEW kept \in Seq(Users), NEW readers \in Seq(Users), NEW present,
         IsPruned(kept, readers, present), IsInjective(readers)
  PROVE  /\ IsInjective(kept)
         /\ Range(kept) \subseteq Range(readers)
<1>1. DOMAIN kept \subseteq Int /\ DOMAIN readers \subseteq Int
  OBVIOUS
<1>2. \A i, j \in DOMAIN kept : i < j => kept[i] # kept[j]
  <2> SUFFICES ASSUME NEW i \in DOMAIN kept, NEW j \in DOMAIN kept, i < j
               PROVE  kept[i] # kept[j]
    OBVIOUS
  <2>1. PICK m \in DOMAIN readers, n \in DOMAIN readers :
          m < n /\ kept[i] = readers[m] /\ kept[j] = readers[n]
    BY DEF IsPruned
  <2> QED
    BY <1>1, <2>1 DEF IsInjective
<1>3. IsInjective(kept)
  BY <1>1, <1>2 DEF IsInjective
<1> QED
  BY <1>3 DEF IsPruned

(* One handler moves, and the watermarks do not move back. *)
LEMMA HandlersStay ==
  ASSUME TypeOK, TypeOK', HandlersInv, NEW q \in Requests,
         \A r \in Users : NotBefore(wm'[r], wm[r]),
         \A o \in Requests : o # q => req'[o] = req[o],
         req'[q] # Nil => HandlerInv(req'[q], wm'[req'[q].reader])
  PROVE  HandlersInv'
<1> SUFFICES ASSUME NEW o \in Requests, req'[o] # Nil
             PROVE  HandlerInv(req'[o], wm'[req'[o].reader])
  BY DEF HandlersInv
<1>1. CASE o = q
  BY <1>1
<1>2. CASE o # q
  <2>1. req'[o] = req[o] /\ req[o] \in Request
    BY <1>2 DEF TypeOK
  <2>2. req[o].reader \in Users
    BY <2>1 DEF Request
  <2>3. HandlerInv(req[o], wm[req[o].reader])
    BY <1>2, <2>1 DEF HandlersInv
  <2>4. /\ wm[req[o].reader] \in Watermark \cup {Nil}
        /\ wm'[req[o].reader] \in Watermark \cup {Nil}
        /\ NotBefore(wm'[req[o].reader], wm[req[o].reader])
    BY <2>2 DEF TypeOK
  <2> QED
    BY <2>1, <2>3, <2>4, HandlerInvStays
<1> QED
  BY <1>1, <1>2

(* A step that moves one handler and leaves the store and the history be. *)
LEMMA LocalStepInv ==
  ASSUME Inv, TypeOK', NEW q \in Requests, NEW t \in Request \cup {Nil},
         Become(q, t), UNCHANGED <<wm, idx, answered, announced>>,
         t # Nil => HandlerInv(t, wm[t.reader])
  PROVE  Inv'
<1>1. \A r \in Users : NotBefore(wm'[r], wm[r])
  BY DEF Inv, TypeOK, NotBefore, Watermark
<1>2. req'[q] = t /\ \A o \in Requests : o # q => req'[o] = req[o]
  BY BecomeType DEF Inv
<1>3. HandlersInv'
  BY <1>1, <1>2, HandlersStay DEF Inv
<1> QED
  BY <1>3 DEF Inv, WatermarkWellFormed, IndexWellFormed,
             AcknowledgedIsCovered, AnnouncedIsCovered

LEMMA CurrentHandler ==
  ASSUME Inv, NEW q \in Requests, req[q] # Nil
  PROVE  /\ req[q] \in Request
         /\ req[q].reader \in Users
         /\ req[q].post \in Posts
         /\ wm[req[q].reader] \in Watermark \cup {Nil}
         /\ HandlerInv(req[q], wm[req[q].reader])
<1>1. req[q] \in Request
  BY DEF Inv, TypeOK
<1>2. req[q].reader \in Users /\ req[q].post \in Posts
  BY <1>1 DEF Request
<1> QED
  BY <1>1, <1>2 DEF Inv, TypeOK, HandlersInv

-----------------------------------------------------------------------------
(* Every action preserves the inductive invariant. *)

LEMMA InitInv == Init => Inv
<1> SUFFICES ASSUME Init PROVE Inv
  OBVIOUS
<1>1. TypeOK
  BY InitType
<1>2. WatermarkWellFormed
  <2>1. PICK legacy \in [Users -> {Nil} \cup {WatermarkOf(p, 0) : p \in Posts}] :
          /\ \A r \in Users : legacy[r] # Nil => Author[legacy[r].post] # r
          /\ wm = legacy
    BY DEF Init
  <2> SUFFICES ASSUME NEW r \in Users, wm[r] # Nil
               PROVE  /\ wm[r].createAt = CreateAt[wm[r].post]
                      /\ Author[wm[r].post] # r
    BY DEF WatermarkWellFormed
  <2>2. PICK p \in Posts : wm[r] = WatermarkOf(p, 0)
    BY <2>1
  <2> QED
    BY <2>1, <2>2 DEF WatermarkOf
<1>3. /\ idx = <<>> /\ answered = {} /\ announced = {}
      /\ req = [q \in Requests |-> Nil]
  BY DEF Init
<1>4. IsInjective(<<>>) /\ Len(<<>>) = 0
  BY DEF IsInjective
<1>5. IndexWellFormed
  BY <1>3, <1>4, BoundsAssumption DEF IndexWellFormed
<1>6. HandlersInv
  BY <1>3 DEF HandlersInv
<1> QED
  BY <1>1, <1>2, <1>3, <1>5, <1>6 DEF Inv, AcknowledgedIsCovered, AnnouncedIsCovered

LEMMA HandleReadInv ==
  ASSUME Inv, TypeOK', NEW q \in Requests, NEW r \in Users, NEW p \in Posts,
         HandleRead(q, r, p)
  PROVE  Inv'
<1> DEFINE t == NewRequest(r, p)
<1>1. t \in Request
  BY NewRequestType DEF Inv
<1>2. /\ t.reader = r /\ t.post = p /\ t.seen = Nil /\ t.pc = "getWatermark"
      /\ t.late = Covers(wm[r], p) /\ r # Author[p]
  BY DEF NewRequest, HandleRead, CanRead
<1> HIDE DEF t
<1>3. HandlerInv(t, wm[t.reader])
  BY <1>2 DEF HandlerInv, Promising
<1>4. Become(q, t) /\ UNCHANGED <<wm, idx, answered, announced>>
  BY DEF HandleRead, t, store, history
<1> QED
  BY <1>1, <1>3, <1>4, LocalStepInv

LEMMA GetWatermarkInv ==
  ASSUME Inv, TypeOK', NEW q \in Requests, GetWatermark(q)
  PROVE  Inv'
<1> DEFINE s == req[q]
           w == wm[s.reader]
           t == [s EXCEPT !.pc = "getIndex", !.seen = w]
<1>1. /\ s \in Request /\ s.post \in Posts /\ w \in Watermark \cup {Nil}
      /\ HandlerInv(s, w) /\ s.pc = "getWatermark"
  BY CurrentHandler DEF GetWatermark, At
<1>2. Become(q, t) /\ UNCHANGED <<wm, idx, answered, announced>>
  BY DEF GetWatermark, store, history
<1> HIDE DEF w
<1>3. /\ t \in Request /\ t.pc = "getIndex" /\ t.reader = s.reader
      /\ t.post = s.post /\ t.seen = w /\ t.late = s.late
  BY <1>1 DEF Request, Steps
<1> HIDE DEF t, s
<1>4. t.late => AlreadyRead(t)
  BY <1>1, <1>3 DEF HandlerInv, Promising, AlreadyRead
<1>5. w # Nil => w.createAt <= w.createAt
  BY <1>1 DEF Watermark
<1>6. HandlerInv(t, w)
  BY <1>1, <1>3, <1>4, <1>5 DEF HandlerInv, Promising
<1>7. w = wm[t.reader]
  BY <1>3 DEF w
<1> QED
  BY <1>2, <1>3, <1>6, <1>7, LocalStepInv

LEMMA GetIndexInv ==
  ASSUME Inv, TypeOK', NEW q \in Requests, GetIndex(q)
  PROVE  Inv'
<1> DEFINE s == req[q]
           w == wm[s.reader]
           u == AfterIndex(s, FALSE)
           v == [s EXCEPT !.pc = "pruneIndex", !.oldIndex = idx]
           t == [s EXCEPT !.pc = "casIndex", !.oldIndex = idx,
                          !.newIndex = Append(idx, s.reader)]
<1>1. /\ s \in Request /\ s.reader \in Users /\ w \in Watermark \cup {Nil}
      /\ HandlerInv(s, w) /\ s.pc = "getIndex"
  BY CurrentHandler DEF GetIndex, At
<1>2. idx \in Seq(Users) /\ IsInjective(idx) /\ Len(idx) <= MaxIndexReaders
  BY DEF Inv, TypeOK, IndexWellFormed
<1>3. UNCHANGED <<wm, idx, answered, announced>>
  BY DEF GetIndex, store, history
<1>4. CASE s.reader \in Range(idx)
  <2>1. u \in Request /\ u.reader = s.reader /\ HandlerInv(u, w)
    BY <1>1, AfterIndexShape, AfterIndexInv DEF SameRead
  <2>2. Become(q, u)
    BY <1>4 DEF GetIndex
  <2> QED
    BY <1>3, <2>1, <2>2, LocalStepInv
<1>5. CASE s.reader \notin Range(idx) /\ IndexFull(idx)
  <2>1. /\ v \in Request /\ v.pc = "pruneIndex" /\ v.oldIndex = idx
        /\ v.seen = s.seen /\ v.late = s.late
        /\ v.reader = s.reader /\ v.post = s.post
    BY <1>1, <1>2 DEF Request, Steps
  <2>2. Become(q, v)
    BY <1>5 DEF GetIndex
  <2> HIDE DEF v, s
  <2>3. HandlerInv(v, w)
    BY <1>1, <1>2, <1>5, <2>1 DEF HandlerInv, Promising, AlreadyRead
  <2> QED
    BY <1>3, <2>1, <2>2, <2>3, LocalStepInv
<1>6. CASE s.reader \notin Range(idx) /\ ~IndexFull(idx)
  <2> DEFINE new == Append(idx, s.reader)
  <2>1. /\ IsInjective(new)
        /\ Range(new) = Range(idx) \cup {s.reader}
        /\ Len(new) = Len(idx) + 1
    BY <1>1, <1>2, <1>6, AppendReader
  <2>2. Len(new) <= MaxIndexReaders
    BY <1>2, <1>6, <2>1, BoundsAssumption DEF IndexFull
  <2>3. new \in Seq(Users)
    BY <1>1, <1>2
  <2>4. Become(q, t)
    BY <1>6 DEF GetIndex
  <2> HIDE DEF new
  <2>5. /\ t \in Request /\ t.pc = "casIndex" /\ t.oldIndex = idx
        /\ t.newIndex = new /\ t.seen = s.seen /\ t.late = s.late
        /\ t.reader = s.reader /\ t.post = s.post
    BY <1>1, <1>2, <2>3 DEF Request, Steps, new
  <2> HIDE DEF t, s
  <2>6. HandlerInv(t, w)
    BY <1>1, <1>2, <1>6, <2>1, <2>2, <2>5 DEF HandlerInv, Promising, AlreadyRead
  <2> QED
    BY <1>3, <2>4, <2>5, <2>6, LocalStepInv
<1> QED
  BY <1>4, <1>5, <1>6

LEMMA PruneIndexInv ==
  ASSUME Inv, TypeOK', NEW q \in Requests, PruneIndex(q)
  PROVE  Inv'
<1> DEFINE s == req[q]
           w == wm[s.reader]
<1>1. /\ s \in Request /\ s.reader \in Users /\ w \in Watermark \cup {Nil}
      /\ HandlerInv(s, w) /\ s.pc = "pruneIndex" /\ s.oldIndex \in Seq(Users)
  BY CurrentHandler DEF PruneIndex, At, Request
<1>2. UNCHANGED <<wm, idx, answered, announced>>
  BY DEF PruneIndex, store, history
<1>3. PICK kept \in UNION {[1..n -> members] : n \in 0..Len(s.oldIndex)} :
        /\ IsPruned(kept, s.oldIndex, members)
        /\ Become(q, IF IndexFull(kept) THEN AfterFullIndex(s)
                     ELSE [s EXCEPT !.pc = "casIndex",
                                    !.newIndex = Append(kept, s.reader),
                                    !.absent = Range(s.oldIndex) \ members])
  BY DEF PruneIndex
<1>4. kept \in Seq(Users)
  <2>1. PICK n \in 0..Len(s.oldIndex) : kept \in [1..n -> members]
    OBVIOUS
  <2>2. n \in Nat /\ members \subseteq Users
    BY <1>1 DEF Inv, TypeOK
  <2> QED
    BY <2>1, <2>2
<1>5. /\ IsInjective(kept) /\ Range(kept) = Range(s.oldIndex) \cap members
      /\ s.reader \notin Range(s.oldIndex)
  BY <1>1, <1>3, <1>4, PrunedReaders DEF HandlerInv, Promising, IsPruned
<1>6. CASE IndexFull(kept)
  <2> DEFINE u == AfterIndex(s, FALSE)
  <2>1. u \in Request /\ u.reader = s.reader /\ HandlerInv(u, w)
    BY <1>1, AfterIndexShape, AfterIndexInv DEF SameRead
  <2>2. Become(q, u)
    BY <1>3, <1>6 DEF AfterFullIndex
  <2> QED
    BY <1>2, <2>1, <2>2, LocalStepInv
<1>7. CASE ~IndexFull(kept)
  <2> DEFINE new == Append(kept, s.reader)
             gone == Range(s.oldIndex) \ members
             t == [s EXCEPT !.pc = "casIndex", !.newIndex = new,
                            !.absent = gone]
  <2>1. /\ IsInjective(new)
        /\ Range(new) = Range(kept) \cup {s.reader}
        /\ Len(new) = Len(kept) + 1
    BY <1>1, <1>4, <1>5, AppendReader
  <2>2. Len(new) <= MaxIndexReaders
    <3>1. Len(kept) \in Nat
      BY <1>4
    <3> QED
      BY <1>7, <2>1, <3>1, BoundsAssumption DEF IndexFull
  <2>3. new \in Seq(Users)
    BY <1>1, <1>4
  <2>4. Become(q, t)
    BY <1>3, <1>7
  <2>5. gone \subseteq Users
    BY <1>1 DEF Range
  <2>6. Range(s.oldIndex) \ Range(new) \subseteq gone
    BY <1>5, <2>1
  <2> HIDE DEF new, gone
  <2>7. /\ t \in Request /\ t.pc = "casIndex" /\ t.oldIndex = s.oldIndex
        /\ t.newIndex = new /\ t.seen = s.seen /\ t.late = s.late
        /\ t.reader = s.reader /\ t.post = s.post /\ t.absent = gone
    BY <1>1, <2>3, <2>5 DEF Request, Steps
  <2> HIDE DEF t, s
  <2>8. HandlerInv(t, w)
    BY <1>1, <1>5, <2>1, <2>2, <2>6, <2>7 DEF HandlerInv, Promising, AlreadyRead
  <2> QED
    BY <1>2, <2>4, <2>7, <2>8, LocalStepInv
<1> QED
  BY <1>6, <1>7

LEMMA CasIndexInv ==
  ASSUME Inv, TypeOK', NEW q \in Requests, CasIndex(q)
  PROVE  Inv'
<1> DEFINE s == req[q]
           w == wm[s.reader]
           u == AfterIndex(s, TRUE)
           t == [s EXCEPT !.oldIndex = <<>>, !.newIndex = <<>>, !.absent = {}]
           v == Retry(t, "getIndex", MaxIndexCASRetries, Nil)
<1>1. /\ s \in Request /\ s.reader \in Users /\ w \in Watermark \cup {Nil}
      /\ HandlerInv(s, w) /\ s.pc = "casIndex" /\ s # Nil
  BY CurrentHandler DEF CasIndex, At
<1>2. UNCHANGED <<wm, answered, announced>>
  BY DEF CasIndex
<1>3. CASE Swaps(idx, s.oldIndex)
  <2>1. u \in Request /\ u.reader = s.reader /\ HandlerInv(u, w)
    BY <1>1, AfterIndexShape, AfterIndexInv DEF SameRead
  <2>2. Become(q, u) /\ idx' = s.newIndex
    BY <1>3 DEF CasIndex
  <2> HIDE DEF u
  <2>3. req'[q] = u /\ \A o \in Requests : o # q => req'[o] = req[o]
    BY <2>1, <2>2, BecomeType DEF Inv
  <2>4. \A r \in Users : NotBefore(wm'[r], wm[r])
    BY <1>2 DEF Inv, TypeOK, NotBefore, Watermark
  <2>5. HandlersInv'
    BY <1>2, <2>1, <2>3, <2>4, HandlersStay DEF Inv
  <2>6. IndexWellFormed'
    BY <1>1, <2>2 DEF HandlerInv, Promising, IndexWellFormed
  <2> QED
    BY <1>2, <2>5, <2>6 DEF Inv, WatermarkWellFormed,
                            AcknowledgedIsCovered, AnnouncedIsCovered
<1>4. CASE ~Swaps(idx, s.oldIndex)
  <2>0. <<>> \in Seq(Users)
    OBVIOUS
  <2>1. t \in Request /\ SameRead(t, s)
    BY <1>1, <2>0 DEF Request, SameRead
  <2>2. \/ v = Nil
        \/ v \in Request /\ v.pc = "getIndex" /\ SameRead(v, t)
    BY <2>1, RetryShape, BoundsAssumption DEF Steps
  <2>3. Become(q, v) /\ UNCHANGED idx
    BY <1>4 DEF CasIndex
  <2> HIDE DEF v, t
  <2>4. v # Nil => v.reader = s.reader /\ HandlerInv(v, w)
    BY <1>1, <2>1, <2>2, HandlerInvMoves DEF Promising, SameRead
  <2> QED
    BY <1>2, <2>2, <2>3, <2>4, LocalStepInv
<1> QED
  BY <1>3, <1>4

LEMMA PutReceiptInv ==
  ASSUME Inv, TypeOK', NEW q \in Requests, PutReceipt(q)
  PROVE  Inv'
<1> DEFINE s == req[q]
           w == wm[s.reader]
           u == AfterReceipt(s)
           v == Goto(s, "readStored")
<1>1. /\ s \in Request /\ w \in Watermark \cup {Nil}
      /\ HandlerInv(s, w) /\ s.pc = "putReceipt"
  BY CurrentHandler DEF PutReceipt, At
<1>2. ~AlreadyRead(s)
  BY <1>1 DEF HandlerInv, Promising
<1>3. u \in Request /\ u.pc = "getCurrent" /\ SameRead(u, s)
  BY <1>1 DEF AfterReceipt, Request, Steps, SameRead
<1>4. v \in Request /\ v.pc = "readStored" /\ SameRead(v, s)
  BY <1>1, GotoType, GotoShape DEF Steps
<1>5. /\ Become(q, u) \/ Become(q, v)
      /\ UNCHANGED <<wm, idx, answered, announced>>
  BY DEF PutReceipt, history
<1> HIDE DEF u, v
<1>6. HandlerInv(u, w) /\ HandlerInv(v, w)
  BY <1>1, <1>2, <1>3, <1>4, HandlerInvMoves DEF Promising
<1> QED
  BY <1>3, <1>4, <1>5, <1>6, LocalStepInv DEF SameRead

(* After getReceipt a covered read is answered, a fresh one goes on. *)
LEMMA AfterStoredInv ==
  ASSUME NEW s \in Request, NEW t \in Request, NEW w \in Watermark \cup {Nil},
         HandlerInv(s, w), s.pc # "getWatermark", SameRead(t, s),
         t.pc = IF AlreadyRead(s) THEN "respond" ELSE "getCurrent"
  PROVE  HandlerInv(t, w)
BY AlreadyReadCovers, HandlerInvMoves DEF Promising

LEMMA ReadStoredInv ==
  ASSUME Inv, TypeOK', NEW q \in Requests, ReadStored(q)
  PROVE  Inv'
<1> DEFINE s == req[q]
           w == wm[s.reader]
           at == StoredTime(rr[<<s.reader, s.post>>], s.readAt)
           c == IF AlreadyRead(s) THEN "respond" ELSE "getCurrent"
           t == [s EXCEPT !.readAt = at, !.pc = c]
<1>1. /\ s \in Request /\ w \in Watermark \cup {Nil}
      /\ HandlerInv(s, w) /\ s.pc = "readStored"
  BY CurrentHandler DEF ReadStored, At
<1>2. at \in Nat /\ c \in Steps
  BY <1>1 DEF StoredTime, Request, Inv, TypeOK, Steps
<1>3. Become(q, t) /\ UNCHANGED <<wm, idx, answered, announced>>
  BY DEF ReadStored, store, history
<1> HIDE DEF at, c
<1>4. t \in Request /\ t.pc = c /\ SameRead(t, s)
  BY <1>1, <1>2 DEF Request, SameRead
<1> HIDE DEF t
<1>5. HandlerInv(t, w)
  BY <1>1, <1>4, AfterStoredInv DEF c
<1> QED
  BY <1>3, <1>4, <1>5, LocalStepInv DEF SameRead

LEMMA GetCurrentInv ==
  ASSUME Inv, TypeOK', NEW q \in Requests, GetCurrent(q)
  PROVE  Inv'
<1> DEFINE s == req[q]
           w == wm[s.reader]
           u == AfterAdvance(s)
           t == [s EXCEPT !.pc = "casWatermark", !.current = w]
<1>1. /\ s \in Request /\ w \in Watermark \cup {Nil}
      /\ HandlerInv(s, w) /\ s.pc = "getCurrent"
  BY CurrentHandler DEF GetCurrent, At
<1>2. ~AlreadyRead(s)
  BY <1>1 DEF HandlerInv, Promising
<1>3. UNCHANGED <<wm, idx, answered, announced>>
  BY DEF GetCurrent, store, history
<1>4. CASE Covers(w, s.post)
  <2>1. /\ u \in Request /\ SameRead(u, s)
        /\ u.pc \in {"publishReceipt", "publishChanged", "respond"}
    BY <1>1, AfterAdvanceShape
  <2>2. Become(q, u)
    BY <1>4 DEF GetCurrent
  <2> HIDE DEF u
  <2>3. HandlerInv(u, w)
    BY <1>1, <1>2, <1>4, <2>1, HandlerInvMoves DEF Promising
  <2> QED
    BY <1>3, <2>1, <2>2, <2>3, LocalStepInv DEF SameRead
<1>5. CASE ~Covers(w, s.post)
  <2>1. Become(q, t)
    BY <1>5 DEF GetCurrent
  <2> HIDE DEF w
  <2>2. /\ t \in Request /\ t.pc = "casWatermark" /\ t.current = w
        /\ t.reader = s.reader /\ t.post = s.post
        /\ t.seen = s.seen /\ t.late = s.late
    BY <1>1 DEF Request, Steps
  <2> HIDE DEF t, s
  <2>3. HandlerInv(t, w)
    BY <1>1, <1>2, <1>5, <2>2 DEF HandlerInv, Promising, AlreadyRead
  <2>4. w = wm[t.reader]
    BY <2>2 DEF w
  <2> QED
    BY <1>3, <2>1, <2>2, <2>3, <2>4, LocalStepInv
<1> QED
  BY <1>4, <1>5

(* The watermark's CAS either loses, or moves the watermark forward.       *)
LEMMA CasWatermarkGrows ==
  ASSUME Inv, NEW q \in Requests, CasWatermark(q), Swaps(wm[req[q].reader], req[q].current)
  PROVE  /\ wm' = [wm EXCEPT ![req[q].reader] =
                     WatermarkOf(req[q].post, req[q].readAt)]
         /\ ~Covers(wm[req[q].reader], req[q].post)
         /\ req[q].readAt \in Nat
<1> DEFINE s == req[q]
           t == [s EXCEPT !.current = Nil]
<1>1. s \in Request /\ HandlerInv(s, wm[s.reader]) /\ s.pc = "casWatermark"
  BY CurrentHandler DEF CasWatermark, At
<1>2. t.reader = s.reader /\ t.post = s.post /\ t.readAt = s.readAt
  BY <1>1 DEF Request
<1>3. wm' = [wm EXCEPT ![t.reader] = WatermarkOf(t.post, t.readAt)]
  BY <1>2 DEF CasWatermark
<1>4. ~Covers(s.current, s.post)
  BY <1>1 DEF HandlerInv, Promising
<1> QED
  BY <1>1, <1>2, <1>3, <1>4 DEF Swaps, Request

(* A watermark set where the old one did not cover the post is later. *)
LEMMA LaterWatermark ==
  ASSUME NEW w \in Watermark \cup {Nil}, NEW p \in Posts, NEW t \in Nat, ~Covers(w, p)
  PROVE  /\ WatermarkOf(p, t) \in Watermark
         /\ WatermarkOf(p, t) # Nil
         /\ w # Nil => w.createAt < WatermarkOf(p, t).createAt
         /\ Covers(WatermarkOf(p, t), p)
<1>1. WatermarkOf(p, t) \in Watermark
  BY WatermarkOfType
<1>2. WatermarkOf(p, t) # Nil
  BY <1>1, NilAssumption
<1>3. WatermarkOf(p, t).createAt = CreateAt[p] /\ CreateAt[p] \in Nat
  BY CreateAtAssumption DEF WatermarkOf
<1> QED
  BY <1>1, <1>2, <1>3 DEF Covers, Watermark

LEMMA CasWatermarkInv ==
  ASSUME Inv, TypeOK', NEW q \in Requests, CasWatermark(q)
  PROVE  Inv'
<1> DEFINE s == req[q]
           r == s.reader
           w == wm[r]
           t == [s EXCEPT !.current = Nil]
           t2 == [t EXCEPT !.advanced = TRUE]
           u == AfterAdvance(t2)
           v == Retry(t, "getCurrent", MaxWatermarkCASRetries, AfterError(t))
<1>1. /\ s \in Request /\ r \in Users /\ s.post \in Posts
      /\ w \in Watermark \cup {Nil}
      /\ HandlerInv(s, w) /\ s.pc = "casWatermark" /\ ~AlreadyRead(s)
  BY CurrentHandler DEF CasWatermark, At, HandlerInv, Promising
<1>2. t \in Request /\ SameRead(t, s)
  BY <1>1 DEF Request, SameRead
<1>3. CASE Swaps(w, s.current)
  <2> DEFINE new == WatermarkOf(s.post, s.readAt)
  <2>1. /\ wm' = [wm EXCEPT ![r] = new] /\ ~Covers(w, s.post) /\ s.readAt \in Nat
    BY <1>3, CasWatermarkGrows
  <2>2. /\ new \in Watermark /\ new # Nil /\ Covers(new, s.post)
        /\ w # Nil => w.createAt < new.createAt
    BY <1>1, <2>1, LaterWatermark
  <2>3. t2 \in Request /\ SameRead(t2, s)
    BY <1>2 DEF Request, SameRead
  <2>4. Become(q, u)
    BY <1>2, <1>3 DEF CasWatermark, SameRead
  <2> HIDE DEF t2, t
  <2>5. /\ u \in Request /\ SameRead(u, s)
        /\ u.pc \in {"publishReceipt", "publishChanged", "respond"}
    BY <2>3, AfterAdvanceShape DEF SameRead
  <2> HIDE DEF u
  <2>6. req'[q] = u /\ \A o \in Requests : o # q => req'[o] = req[o]
    BY <2>4, <2>5, BecomeType DEF Inv
  <2>7. NotBefore(new, w)
    BY <1>1, <2>2 DEF NotBefore, Watermark
  <2>8. wm'[r] = new /\ \A o \in Users : o # r => wm'[o] = wm[o]
    BY <1>1, <2>1 DEF Inv, TypeOK
  <2>9. \A o \in Users : NotBefore(wm'[o], wm[o])
    <3> SUFFICES ASSUME NEW o \in Users PROVE NotBefore(wm'[o], wm[o])
      OBVIOUS
    <3>1. wm[o] # Nil => wm[o].createAt <= wm[o].createAt
      BY DEF Inv, TypeOK, Watermark
    <3> QED
      BY <2>7, <2>8, <3>1 DEF NotBefore
  <2>10. HandlerInv(s, new)
    BY <1>1, <2>2, <2>7, HandlerInvStays
  <2>11. HandlerInv(u, new)
    BY <1>1, <2>2, <2>5, <2>10, HandlerInvMoves DEF Promising
  <2>12. u.reader = r
    BY <2>5 DEF SameRead
  <2>13. HandlersInv'
    BY <2>6, <2>8, <2>9, <2>11, <2>12, HandlersStay DEF Inv
  <2>14. WatermarkWellFormed'
    <3>1. new.createAt = CreateAt[new.post] /\ new.post = s.post
      BY DEF WatermarkOf
    <3>2. Author[new.post] # r
      BY <1>1, <3>1 DEF HandlerInv, Promising
    <3> QED
      BY <2>8, <3>1, <3>2 DEF WatermarkWellFormed, Inv
  <2>15. UNCHANGED <<idx, answered, announced>>
    BY DEF CasWatermark
  <2>16. \A e \in Receipt : Covers(wm[e.reader], e.post) => Covers(wm'[e.reader], e.post)
    <3> SUFFICES ASSUME NEW e \in Receipt, Covers(wm[e.reader], e.post)
                 PROVE  Covers(wm'[e.reader], e.post)
      OBVIOUS
    <3>1. e.reader \in Users /\ e.post \in Posts
      BY DEF Receipt
    <3>2. wm[e.reader] \in Watermark \cup {Nil} /\ wm'[e.reader] \in Watermark \cup {Nil}
      BY <3>1 DEF Inv, TypeOK
    <3> QED
      BY <2>9, <3>1, <3>2, CoversStays
  <2>17. AcknowledgedIsCovered' /\ AnnouncedIsCovered'
    BY <2>15, <2>16 DEF AcknowledgedIsCovered, AnnouncedIsCovered, Inv, TypeOK
  <2> QED
    BY <2>13, <2>14, <2>15, <2>17 DEF Inv, IndexWellFormed
<1>4. CASE ~Swaps(w, s.current)
  <2>1. Become(q, v) /\ UNCHANGED <<wm, idx, answered, announced>>
    BY <1>2, <1>4 DEF CasWatermark, SameRead
  <2> DEFINE e == AfterError(t)
  <2>2. e # Nil => /\ e \in Request /\ e.pc = "publishChanged"
                   /\ e.failed /\ SameRead(e, t)
    BY <1>2, AfterErrorShape
  <2>3. \/ v = e
        \/ v \in Request /\ v.pc = "getCurrent" /\ SameRead(v, t)
    BY <1>2, RetryShape, BoundsAssumption DEF Steps
  <2> HIDE DEF v, e, t
  <2>4. v # Nil => v \in Request /\ SameRead(v, s) /\ HandlerInv(v, w)
    <3> SUFFICES ASSUME v # Nil
                 PROVE  v \in Request /\ SameRead(v, s) /\ HandlerInv(v, w)
      OBVIOUS
    <3>1. v \in Request /\ SameRead(v, s)
      BY <1>2, <2>2, <2>3 DEF SameRead
    <3>2. v.pc = "getCurrent" \/ (v.pc = "publishChanged" /\ v.failed)
      BY <2>2, <2>3, Zenon
    <3> QED
      BY <1>1, <3>1, <3>2, HandlerInvMoves DEF Promising
  <2> QED
    BY <2>1, <2>4, LocalStepInv DEF SameRead
<1> QED
  BY <1>3, <1>4

LEMMA PublishReceiptInv ==
  ASSUME Inv, TypeOK', NEW q \in Requests, PublishReceipt(q)
  PROVE  Inv'
<1> DEFINE s == req[q]
           w == wm[s.reader]
           u == AfterPublish(s)
<1>1. /\ s \in Request /\ w \in Watermark \cup {Nil}
      /\ HandlerInv(s, w) /\ s.pc = "publishReceipt" /\ Covers(w, s.post)
  BY CurrentHandler DEF PublishReceipt, At, HandlerInv, Promising
<1>2. /\ u \in Request /\ SameRead(u, s) /\ u.pc \in {"publishChanged", "respond"}
  BY <1>1, AfterPublishShape
<1>3. Become(q, u) /\ UNCHANGED <<wm, idx, answered>>
  BY DEF PublishReceipt, store
<1> HIDE DEF u
<1>4. HandlerInv(u, w)
  BY <1>1, <1>2, HandlerInvMoves DEF Promising
<1>5. req'[q] = u /\ \A o \in Requests : o # q => req'[o] = req[o]
  BY <1>2, <1>3, BecomeType DEF Inv
<1>6. \A r \in Users : NotBefore(wm'[r], wm[r])
  BY <1>3 DEF Inv, TypeOK, NotBefore, Watermark
<1>7. HandlersInv'
  BY <1>2, <1>3, <1>4, <1>5, <1>6, HandlersStay DEF Inv, SameRead
<1>8. AnnouncedIsCovered'
  BY <1>1, <1>3 DEF PublishReceipt, ReceiptOf, AnnouncedIsCovered, Inv
<1> QED
  BY <1>3, <1>7, <1>8 DEF Inv, WatermarkWellFormed, IndexWellFormed,
                          AcknowledgedIsCovered

LEMMA PublishChangedInv ==
  ASSUME Inv, TypeOK', NEW q \in Requests, PublishChanged(q)
  PROVE  Inv'
<1> DEFINE s == req[q]
           w == wm[s.reader]
           c == IF AlreadyRead(s) THEN "readStored" ELSE "respond"
           t == Goto(s, c)
<1>1. /\ s \in Request /\ w \in Watermark \cup {Nil}
      /\ HandlerInv(s, w) /\ s.pc = "publishChanged" /\ c \in Steps
  BY CurrentHandler DEF PublishChanged, At, Steps
<1>2. UNCHANGED <<wm, idx, answered, announced>>
  BY DEF PublishChanged, store
<1>3. CASE s.failed
  BY <1>2, <1>3, LocalStepInv DEF PublishChanged
<1>4. CASE ~s.failed
  <2>1. t \in Request /\ t.pc = c /\ SameRead(t, s)
    BY <1>1, GotoType, GotoShape
  <2>2. Become(q, t)
    BY <1>4 DEF PublishChanged
  <2>3. Covers(w, s.post)
    BY <1>1, <1>4 DEF HandlerInv, Promising
  <2> HIDE DEF t
  <2>4. HandlerInv(t, w)
    BY <1>1, <2>1, <2>3, HandlerInvMoves DEF Promising
  <2> QED
    BY <1>2, <2>1, <2>2, <2>4, LocalStepInv DEF SameRead
<1> QED
  BY <1>3, <1>4

LEMMA RespondInv ==
  ASSUME Inv, TypeOK', NEW q \in Requests, Respond(q)
  PROVE  Inv'
<1> DEFINE s == req[q]
           w == wm[s.reader]
<1>1. Covers(w, s.post)
  BY CurrentHandler DEF Respond, At, HandlerInv, Promising
<1>2. Become(q, Nil) /\ UNCHANGED <<wm, idx, announced>>
  BY DEF Respond, store
<1>3. req'[q] = Nil /\ \A o \in Requests : o # q => req'[o] = req[o]
  BY <1>2, BecomeType DEF Inv
<1>4. \A r \in Users : NotBefore(wm'[r], wm[r])
  BY <1>2 DEF Inv, TypeOK, NotBefore, Watermark
<1>5. HandlersInv'
  BY <1>3, <1>4, HandlersStay DEF Inv
<1>6. AcknowledgedIsCovered'
  BY <1>1, <1>2 DEF Respond, ReceiptOf, AcknowledgedIsCovered, Inv
<1> QED
  BY <1>2, <1>5, <1>6 DEF Inv, WatermarkWellFormed, IndexWellFormed,
                          AnnouncedIsCovered

LEMMA KVErrorInv ==
  ASSUME Inv, TypeOK', NEW q \in Requests, KVError(q)
  PROVE  Inv'
<1> DEFINE s == req[q]
           w == wm[s.reader]
           t == [s EXCEPT !.current = Nil]
           e == AfterError(t)
           c == IF AlreadyRead(s) THEN "respond" ELSE "getCurrent"
           g == Goto(s, c)
<1>1. /\ s \in Request /\ w \in Watermark \cup {Nil}
      /\ HandlerInv(s, w) /\ c \in Steps
  BY CurrentHandler DEF KVError, Steps
<1>2. UNCHANGED <<wm, idx, answered, announced>>
  BY DEF KVError, store, history
<1>3. CASE Become(q, Nil)
  BY <1>2, <1>3, LocalStepInv
<1>4. CASE Become(q, e) /\ s.pc # "getWatermark"
  <2>1. t \in Request /\ SameRead(t, s)
    BY <1>1 DEF Request, SameRead
  <2>2. e # Nil => /\ e \in Request /\ e.pc = "publishChanged"
                   /\ e.failed /\ SameRead(e, t)
    BY <2>1, AfterErrorShape
  <2>3. e # Nil => SameRead(e, s)
    BY <2>1, <2>2 DEF SameRead
  <2> HIDE DEF e
  <2>4. e # Nil => HandlerInv(e, w)
    BY <1>1, <1>4, <2>2, <2>3, HandlerInvMoves DEF Promising
  <2> QED
    BY <1>2, <1>4, <2>2, <2>3, <2>4, LocalStepInv DEF SameRead
<1>5. CASE Become(q, g) /\ s.pc = "readStored"
  <2>1. g \in Request /\ g.pc = c /\ SameRead(g, s)
    BY <1>1, GotoType, GotoShape
  <2> HIDE DEF g
  <2>2. HandlerInv(g, w)
    BY <1>1, <1>5, <2>1, AfterStoredInv
  <2> QED
    BY <1>2, <1>5, <2>1, <2>2, LocalStepInv DEF SameRead
<1> QED
  BY <1>3, <1>4, <1>5 DEF KVError

(* Steps that touch neither the handlers nor what the invariant is about. *)
LEMMA UntouchedInv ==
  ASSUME Inv, TypeOK', UNCHANGED <<wm, idx, req, answered, announced>>
  PROVE  Inv'
BY DEF Inv, HandlersInv, WatermarkWellFormed, IndexWellFormed,
       AcknowledgedIsCovered, AnnouncedIsCovered

LEMMA EnvironmentInv ==
  ASSUME Inv, TypeOK', Environment
  PROVE  Inv'
<1>1. ASSUME NEW q \in Requests, KVError(q) PROVE Inv'
  BY <1>1, KVErrorInv
<1>2. ASSUME NEW q \in Requests, Crash(q) PROVE Inv'
  BY <1>2, LocalStepInv DEF Crash, store, history
<1>3. CASE UNCHANGED <<wm, idx, req, answered, announced>>
  BY <1>3, UntouchedInv
<1> QED
  BY <1>1, <1>2, <1>3 DEF Environment, Leave, Join, SetEnabled, Expire, Tick,
                          store, history

LEMMA StepInv == Inv /\ [Next]_vars => Inv'
<1> SUFFICES ASSUME Inv, [Next]_vars PROVE Inv'
  OBVIOUS
<1>1. TypeOK'
  BY StepType DEF Inv
<1>2. ASSUME NEW q \in Requests, NEW r \in Users, NEW p \in Posts,
             HandleRead(q, r, p)
      PROVE  Inv'
  BY <1>1, <1>2, HandleReadInv
<1>3. ASSUME NEW q \in Requests, HandlerStep(q) PROVE Inv'
  BY <1>1, <1>3, GetWatermarkInv, GetIndexInv, PruneIndexInv, CasIndexInv,
     PutReceiptInv, ReadStoredInv, GetCurrentInv, CasWatermarkInv,
     PublishReceiptInv, PublishChangedInv, RespondInv DEF HandlerStep
<1>4. CASE Environment
  BY <1>1, <1>4, EnvironmentInv
<1>5. CASE UNCHANGED vars
  BY <1>1, <1>5, UntouchedInv DEF vars, store, history
<1> QED
  BY <1>2, <1>3, <1>4, <1>5 DEF Next

LEMMA Invariance == Spec => []Inv
<1> QED
  BY InitInv, StepInv, PTL DEF Spec

-----------------------------------------------------------------------------
(* The safety properties. *)

(* A 200 response of markAsRead is never taken back: the watermark covers  *)
(* the post from then on.                                                  *)
THEOREM AcknowledgedReadsAreCovered == Spec => []AcknowledgedIsCovered
<1>1. Inv => AcknowledgedIsCovered
  BY DEF Inv
<1> QED
  BY <1>1, Invariance, PTL

(* Authors are told of covered posts only, whatever fails in between.      *)
THEOREM AnnouncedReadsAreCovered == Spec => []AnnouncedIsCovered
<1>1. Inv => AnnouncedIsCovered
  BY DEF Inv
<1> QED
  BY <1>1, Invariance, PTL

(* ensureReaderIndexed keeps the index within its bound and free of        *)
(* duplicates, for any number of concurrent first readers.                 *)
THEOREM IndexStaysWellFormed == Spec => []IndexWellFormed
<1>1. Inv => IndexWellFormed
  BY DEF Inv
<1> QED
  BY <1>1, Invariance, PTL

(* The watermark is the authority on "already read": a late read reaches   *)
(* neither a write nor an event, whether or not its receipt expired.       *)
THEOREM LateReadsAreNotRestamped == Spec => []NoRestamp
<1>1. Inv => NoRestamp
  <2> SUFFICES ASSUME Inv, NEW q \in Requests, req[q] # Nil, req[q].late
               PROVE  req[q].pc \notin {"putReceipt", "getCurrent",
                                        "casWatermark", "publishReceipt"}
    BY DEF NoRestamp
  <2> QED
    BY CurrentHandler DEF HandlerInv
<1> QED
  BY <1>1, Invariance, PTL

(* At each of its store calls a handler still knows of the store what it   *)
(* needs to decide: the facts its position stands for survive the calls of *)
(* every other handler.                                                    *)
THEOREM HandlersKeepTheirFacts == Spec => []HandlersInv
<1>1. Inv => HandlersInv
  BY DEF Inv
<1> QED
  BY <1>1, Invariance, PTL

(* A step changes the watermarks only by a CAS that wins. *)
LEMMA WatermarkSteps ==
  ASSUME Inv, [Next]_vars
  PROVE  \/ UNCHANGED wm
         \/ \E q \in Requests : /\ CasWatermark(q)
                                /\ Swaps(wm[req[q].reader], req[q].current)
<1>1. CASE UNCHANGED vars
  BY <1>1 DEF vars, store
<1>2. ASSUME NEW q \in Requests, CasWatermark(q),
             ~Swaps(wm[req[q].reader], req[q].current)
      PROVE  UNCHANGED wm
  <2>1. req[q] \in Request
    BY <1>2, CurrentHandler DEF CasWatermark, At
  <2>2. [req[q] EXCEPT !.current = Nil].reader = req[q].reader
    BY <2>1 DEF Request
  <2> QED
    BY <1>2, <2>2 DEF CasWatermark
<1>3. CASE Next
  BY <1>2, <1>3
     DEF Next, HandleRead, HandlerStep, GetWatermark, GetIndex, PruneIndex, CasIndex,
         PutReceipt, ReadStored, GetCurrent, PublishReceipt, PublishChanged, Respond,
         Environment, KVError, Crash, Leave, Join, SetEnabled, Expire, Tick, store
<1> QED
  BY <1>1, <1>3

LEMMA WatermarksForward ==
  ASSUME Inv, [Next]_vars
  PROVE  \A r \in Users : wm[r] # Nil =>
           /\ wm'[r] # Nil
           /\ wm'[r] = wm[r] \/ wm'[r].createAt > wm[r].createAt
<1> DEFINE Forward ==
             \A r \in Users : wm[r] # Nil =>
               /\ wm'[r] # Nil
               /\ wm'[r] = wm[r] \/ wm'[r].createAt > wm[r].createAt
<1> SUFFICES Forward
  OBVIOUS
<1>1. CASE UNCHANGED wm
  BY <1>1
<1>2. ASSUME NEW q \in Requests, CasWatermark(q),
             Swaps(wm[req[q].reader], req[q].current)
      PROVE  Forward
  <2> DEFINE s == req[q]
             new == WatermarkOf(s.post, s.readAt)
  <2>1. /\ s.reader \in Users /\ s.post \in Posts
        /\ wm[s.reader] \in Watermark \cup {Nil}
    BY <1>2, CurrentHandler DEF CasWatermark, At
  <2>2. wm' = [wm EXCEPT ![s.reader] = new] /\ ~Covers(wm[s.reader], s.post)
        /\ s.readAt \in Nat
    BY <1>2, CasWatermarkGrows
  <2>3. /\ new # Nil /\ new \in Watermark
        /\ wm[s.reader] # Nil => wm[s.reader].createAt < new.createAt
    BY <2>1, <2>2, LaterWatermark
  <2>4. wm'[s.reader] = new /\ \A r \in Users : r # s.reader => wm'[r] = wm[r]
    BY <2>1, <2>2 DEF Inv, TypeOK
  <2>5. wm[s.reader] # Nil => new.createAt > wm[s.reader].createAt
    BY <2>1, <2>3 DEF Watermark
  <2> QED
    BY <2>3, <2>4, <2>5
<1> QED
  BY <1>1, <1>2, WatermarkSteps

(* advanceWatermark never moves a watermark back, whatever it races with.  *)
THEOREM WatermarkNeverFalls == Spec => WatermarkMonotone
<1> QED
  BY WatermarksForward, Invariance, PTL DEF Spec, WatermarkMonotone

(* A reader leaves the index only through a request that found them gone.  *)
THEOREM IndexLosesOnlyDeparted == Spec => PruneOnlyDeparted
<1> DEFINE Excused ==
             \A r \in Range(idx) \ Range(idx') :
               \E q \in Requests : At(q, "casIndex") /\ r \in req[q].absent
<1>1. Inv /\ [Next]_vars => Excused
  <2> SUFFICES ASSUME Inv, [Next]_vars PROVE Excused
    OBVIOUS
  <2>1. CASE UNCHANGED idx
    BY <2>1
  <2>2. ASSUME NEW q \in Requests, CasIndex(q) PROVE Excused
    <3> DEFINE s == req[q]
    <3>1. At(q, "casIndex") /\ s.pc = "casIndex" /\ HandlerInv(s, wm[s.reader])
      BY <2>2, CurrentHandler DEF CasIndex, At
    <3>2. CASE Swaps(idx, s.oldIndex)
      <4>1. idx = s.oldIndex /\ idx' = s.newIndex
        BY <2>2, <3>2 DEF CasIndex, Swaps
      <4>2. Range(s.oldIndex) \ Range(s.newIndex) \subseteq s.absent
        BY <3>1 DEF HandlerInv
      <4>3. Range(idx) \ Range(idx') \subseteq s.absent
        BY <4>1, <4>2
      <4> QED
        BY <3>1, <4>3
    <3>3. CASE ~Swaps(idx, s.oldIndex)
      BY <2>1, <2>2, <3>3 DEF CasIndex
    <3> QED
      BY <3>2, <3>3
  <2>3. UNCHANGED idx \/ \E q \in Requests : CasIndex(q)
    BY DEF Next, HandleRead, HandlerStep, GetWatermark, GetIndex, PruneIndex,
           PutReceipt, ReadStored, GetCurrent, CasWatermark, PublishReceipt,
           PublishChanged, Respond, Environment, KVError, Crash, Leave, Join,
           Expire, SetEnabled, Tick, store, vars
  <2> QED
    BY <2>1, <2>2, <2>3
<1> QED
  BY <1>1, Invariance, PTL DEF Spec, PruneOnlyDeparted

LEMMA ReceiptsKept ==
  ASSUME Inv, [Next]_vars
  PROVE  \A k \in Users \X Posts : rr[k] # Nil =>
           \/ rr'[k] = rr[k]
           \/ rr'[k] = Nil /\ clock >= rr[k] + TTL
<1> DEFINE Kept ==
             \A k \in Users \X Posts : rr[k] # Nil =>
               \/ rr'[k] = rr[k]
               \/ rr'[k] = Nil /\ clock >= rr[k] + TTL
<1> SUFFICES Kept
  OBVIOUS
<1>1. CASE UNCHANGED rr
  BY <1>1
<1>2. ASSUME NEW q \in Requests, PutReceipt(q) PROVE Kept
  <2> DEFINE k == <<req[q].reader, req[q].post>>
  <2>1. CASE rr[k] = Nil
    <3>1. rr' = [rr EXCEPT ![k] = req[q].now]
      BY <1>2, <2>1 DEF PutReceipt, Swaps
    <3> QED
      BY <2>1, <3>1 DEF Inv, TypeOK
  <2>2. CASE rr[k] # Nil
    BY <1>2, <2>2 DEF PutReceipt, Swaps
  <2> QED
    BY <2>1, <2>2
<1>3. ASSUME NEW k \in Users \X Posts, Expire(k) PROVE Kept
  BY <1>3 DEF Expire, Inv, TypeOK
<1>4. \/ UNCHANGED rr
      \/ \E q \in Requests : PutReceipt(q)
      \/ \E k \in Users \X Posts : Expire(k)
  BY DEF Next, HandleRead, HandlerStep, GetWatermark, GetIndex, PruneIndex, CasIndex,
         ReadStored, GetCurrent, CasWatermark, PublishReceipt, PublishChanged,
         Respond, Environment, KVError, Crash, Leave, Join, SetEnabled, Tick,
         store, vars
<1> QED
  BY <1>1, <1>2, <1>3, <1>4

(* setReceiptAtomic never replaces a stored read time.                     *)
THEOREM FirstReceiptStays == Spec => ReceiptWriteOnce
<1> QED
  BY ReceiptsKept, Invariance, PTL DEF Spec, ReceiptWriteOnce

-----------------------------------------------------------------------------
(* The handlers implement ReadLedger. *)

(* The reader's position, as the refinement mapping reads it. *)
Position == [r \in Users |-> IF wm[r] = Nil THEN Nil ELSE wm[r].post]

LEMMA PositionCovers ==
  ASSUME Inv, NEW r \in Users, NEW p \in Posts
  PROVE  /\ Position[r] # Nil <=> wm[r] # Nil
         /\ Covers(wm[r], p) <=>
              Position[r] # Nil /\ CreateAt[p] <= CreateAt[Position[r]]
<1>1. CASE wm[r] = Nil
  BY <1>1 DEF Position, Covers
<1>2. CASE wm[r] # Nil
  <2>1. Position[r] = wm[r].post /\ wm[r].createAt = CreateAt[wm[r].post]
    BY <1>2 DEF Position, Inv, WatermarkWellFormed
  <2>2. wm[r].post \in Posts
    BY <1>2 DEF Inv, TypeOK, Watermark
  <2>3. wm[r].post # Nil
    BY <2>2, PostsAssumption
  <2> QED
    BY <1>2, <2>1, <2>3 DEF Covers
<1> QED
  BY <1>1, <1>2

LEMMA InitImplements == Init => Ledger!Init
<1> SUFFICES ASSUME Init PROVE Ledger!Init
  OBVIOUS
<1>1. Inv
  BY InitInv
<1>2. Position \in [Users -> Posts \cup {Nil}]
  BY <1>1 DEF Position, Inv, TypeOK, Watermark
<1>3. \A r \in Users : Position[r] # Nil => Author[Position[r]] # r
  BY <1>1 DEF Position, Inv, WatermarkWellFormed
<1>4. /\ idx = <<>> /\ stale = FALSE /\ answered = {} /\ announced = {}
  BY DEF Init
<1>5. Range(<<>>) = {} /\ Pairs({}) = {}
  BY DEF Range, Pairs
<1> QED
  BY <1>2, <1>3, <1>4, <1>5 DEF Ledger!Init, Position

LEMMA CommitImplements ==
  ASSUME Inv, NEW q \in Requests, CasWatermark(q),
         Swaps(wm[req[q].reader], req[q].current)
  PROVE  \E r \in Users, p \in Posts : Ledger!Commit(r, p)
<1> DEFINE s == req[q]
           r == s.reader
           new == WatermarkOf(s.post, s.readAt)
<1>1. /\ s \in Request /\ r \in Users /\ s.post \in Posts
      /\ wm[r] \in Watermark \cup {Nil} /\ HandlerInv(s, wm[r])
  BY CurrentHandler DEF CasWatermark, At
<1>2. wm' = [wm EXCEPT ![r] = new] /\ ~Covers(wm[r], s.post) /\ s.readAt \in Nat
  BY CasWatermarkGrows
<1>3. new # Nil /\ new.post = s.post
  BY <1>1, <1>2, LaterWatermark DEF WatermarkOf
<1>4. Author[s.post] # r
  BY <1>1 DEF HandlerInv
<1>5. ~Ledger!ReadUpTo(r, s.post)
  BY <1>1, <1>2, PositionCovers DEF Ledger!ReadUpTo, Position
<1>6. Position' = [Position EXCEPT ![r] = s.post]
  BY <1>1, <1>2, <1>3 DEF Position, Inv, TypeOK
<1>7. stale' = (stale \/ r \in Range(idx))
  <2>1. [s EXCEPT !.current = Nil].reader = r
    BY <1>1 DEF Request
  <2> QED
    BY <2>1 DEF CasWatermark
<1>8. UNCHANGED <<idx, answered, announced>>
  BY DEF CasWatermark
<1>9. PICK r0 \in Users, p0 \in Posts : r0 = r /\ p0 = s.post
  BY <1>1
<1> HIDE DEF s
<1>10. ~Ledger!ReadUpTo(r0, p0)
  BY <1>5, <1>9 DEF Ledger!ReadUpTo
<1>11. Ledger!Commit(r0, p0)
  BY <1>4, <1>6, <1>7, <1>8, <1>9, <1>10 DEF Ledger!Commit, Position
<1> QED
  BY <1>11

LEMMA ShowImplements ==
  ASSUME Inv, NEW q \in Requests, CasIndex(q), Swaps(idx, req[q].oldIndex)
  PROVE  \E gone \in SUBSET Range(idx) : Ledger!Show(req[q].reader, gone)
<1> DEFINE s == req[q]
           gone == Range(idx) \ Range(idx')
<1>1. s.reader \in Users /\ HandlerInv(s, wm[s.reader]) /\ s.pc = "casIndex"
  BY CurrentHandler DEF CasIndex, At
<1>2. idx' = s.newIndex /\ idx = s.oldIndex /\ stale' = (stale \/ wm[s.reader] # Nil)
  BY DEF CasIndex, Swaps
<1>3. s.reader \notin Range(idx)
  BY <1>1, <1>2 DEF HandlerInv
<1>4. s.reader \in Range(idx') /\ Range(idx') \subseteq Range(idx) \cup {s.reader}
  BY <1>1, <1>2 DEF HandlerInv
<1>5. Range(idx') = (Range(idx) \ gone) \cup {s.reader}
  BY <1>4
<1>6. (wm[s.reader] # Nil) <=> (Position[s.reader] # Nil)
  <2>1. wm[s.reader] # Nil => wm[s.reader].post # Nil
    BY <1>1, PostsAssumption DEF Inv, TypeOK, Watermark
  <2> QED
    BY <1>1, <2>1 DEF Position
<1>7. stale' = (stale \/ Position[s.reader] # Nil)
  BY <1>2, <1>6
<1>8. UNCHANGED <<wm, answered, announced>>
  BY DEF CasIndex
<1>9. Position' = Position
  BY <1>8 DEF Position
<1>10. Ledger!Show(s.reader, gone)
  BY <1>3, <1>5, <1>7, <1>8, <1>9 DEF Ledger!Show, Position
<1> QED
  BY <1>10

(* Everything the ledger can see of a step that leaves these alone. *)
LEMMA StutterImplements ==
  ASSUME UNCHANGED <<wm, idx, stale, answered, announced>>
  PROVE  UNCHANGED Ledger!vars
BY DEF Ledger!vars

LEMMA CreditImplements ==
  ASSUME Inv, NEW q \in Requests
  PROVE  /\ PublishReceipt(q) => Ledger!Announce(req[q].reader, req[q].post)
         /\ Respond(q) => Ledger!Acknowledge(req[q].reader, req[q].post)
<1> DEFINE s == req[q]
           pair == <<s.reader, s.post>>
<1>1. ASSUME PublishReceipt(q) \/ Respond(q)
      PROVE  Ledger!ReadUpTo(s.reader, s.post)
  <2>1. s.reader \in Users /\ s.post \in Posts /\ HandlerInv(s, wm[s.reader])
    BY <1>1, CurrentHandler DEF PublishReceipt, Respond, At
  <2>2. Covers(wm[s.reader], s.post)
    BY <1>1, <2>1 DEF HandlerInv, Promising, PublishReceipt, Respond, At
  <2> QED
    BY <2>1, <2>2, PositionCovers DEF Ledger!ReadUpTo, Position
<1>2. ASSUME NEW S PROVE Pairs(S \cup {ReceiptOf(s)}) = Pairs(S) \cup {pair}
  <2> DEFINE e == ReceiptOf(s)
  <2>1. <<e.reader, e.post>> = pair
    BY DEF ReceiptOf
  <2> HIDE DEF e, pair
  <2>2. Pairs(S \cup {e}) = Pairs(S) \cup {<<e.reader, e.post>>}
    BY DEF Pairs
  <2> QED
    BY <2>1, <2>2 DEF e
<1>3. ASSUME PublishReceipt(q) PROVE Ledger!Announce(s.reader, s.post)
  <2>1. Pairs(announced') = Pairs(announced) \cup {pair}
    BY <1>2, <1>3 DEF PublishReceipt
  <2> QED
    BY <1>1, <1>3, <2>1 DEF PublishReceipt, Ledger!Announce, store
<1>4. ASSUME Respond(q) PROVE Ledger!Acknowledge(s.reader, s.post)
  <2>1. Pairs(answered') = Pairs(answered) \cup {pair}
    BY <1>2, <1>4 DEF Respond
  <2> QED
    BY <1>1, <1>4, <2>1 DEF Respond, Ledger!Acknowledge, store
<1> QED
  BY <1>3, <1>4

LEMMA HandlerStepImplements ==
  ASSUME Inv, NEW q \in Requests, HandlerStep(q)
  PROVE  [Ledger!Next]_(Ledger!vars)
<1>1. req[q] # Nil
  BY DEF HandlerStep, At, GetWatermark, GetIndex, PruneIndex, CasIndex, PutReceipt,
         ReadStored, GetCurrent, CasWatermark, PublishReceipt, PublishChanged, Respond
<1>2. req[q] \in Request /\ req[q].reader \in Users /\ req[q].post \in Posts
  BY <1>1, CurrentHandler
<1>3. CASE CasIndex(q)
  <2>1. CASE Swaps(idx, req[q].oldIndex)
    BY <1>2, <1>3, <2>1, ShowImplements DEF Ledger!Next
  <2>2. CASE ~Swaps(idx, req[q].oldIndex)
    BY <1>3, <2>2, StutterImplements DEF CasIndex
  <2> QED
    BY <2>1, <2>2
<1>4. CASE CasWatermark(q)
  <2>1. CASE Swaps(wm[req[q].reader], req[q].current)
    BY <1>4, <2>1, CommitImplements DEF Ledger!Next
  <2>2. CASE ~Swaps(wm[req[q].reader], req[q].current)
    <3>1. [req[q] EXCEPT !.current = Nil].reader = req[q].reader
      BY <1>2 DEF Request
    <3> QED
      BY <1>4, <2>2, <3>1, StutterImplements DEF CasWatermark
  <2> QED
    BY <2>1, <2>2
<1>5. CASE PublishReceipt(q) \/ Respond(q)
  BY <1>2, <1>5, CreditImplements DEF Ledger!Next
<1>6. CASE PublishChanged(q)
  <2>1. Ledger!NotifyChannel
    BY <1>6 DEF PublishChanged, Ledger!NotifyChannel, store
  <2> QED
    BY <2>1 DEF Ledger!Next
<1>7. CASE GetWatermark(q) \/ GetIndex(q) \/ PruneIndex(q) \/ PutReceipt(q)
           \/ ReadStored(q) \/ GetCurrent(q)
  BY <1>7, StutterImplements
     DEF GetWatermark, GetIndex, PruneIndex, PutReceipt, ReadStored, GetCurrent,
         store, history
<1> QED
  BY <1>3, <1>4, <1>5, <1>6, <1>7 DEF HandlerStep

(* The concurrent handlers implement the ledger: what readers, authors and *)
(* the channel's members observe of /read is a sequence of atomic commits, *)
(* showings, announcements, answers and notices.                           *)
THEOREM ServerImplementsLedger == Spec => ImplementsLedger
<1>1. Inv /\ [Next]_vars => [Ledger!Next]_(Ledger!vars)
  <2> SUFFICES ASSUME Inv, [Next]_vars PROVE [Ledger!Next]_(Ledger!vars)
    OBVIOUS
  <2>1. ASSUME NEW q \in Requests, HandlerStep(q)
        PROVE  [Ledger!Next]_(Ledger!vars)
    BY <2>1, HandlerStepImplements
  <2>2. CASE ~\E q \in Requests : HandlerStep(q)
    <3>1. UNCHANGED <<wm, idx, stale, answered, announced>>
      BY <2>2 DEF Next, HandleRead, Environment, KVError, Crash, Leave, Join,
                  SetEnabled, Expire, Tick, store, history, vars
    <3> QED
      BY <3>1, StutterImplements
  <2> QED
    BY <2>1, <2>2
<1> QED
  BY <1>1, Invariance, InitImplements, PTL DEF Spec, ImplementsLedger, Ledger!Spec
=============================================================================
