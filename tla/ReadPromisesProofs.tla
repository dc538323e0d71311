-------------------------- MODULE ReadPromisesProofs --------------------------
(***************************************************************************)
(* What ReadServer promises as long as certain faults stay away: all the   *)
(* coverage that queries can see is announced to the channel (while the    *)
(* index has room and no process stops), and the first read time of a post *)
(* is the only one (while getReceipt does not fail and no receipt has      *)
(* expired).                                                               *)
(***************************************************************************)
EXTENDS ReadServerProofs, FiniteSetTheorems

-----------------------------------------------------------------------------
(* What the helpers do to the fields that the promises rest on. *)

SameDuty(t, s) ==
  /\ t.now = s.now
  /\ t.readAt = s.readAt
  /\ t.legacy = s.legacy
  /\ t.advanced = s.advanced

LEMMA GotoDuty ==
  ASSUME NEW s \in Request, NEW c \in Steps
  PROVE  SameDuty(Goto(s, c), s)
BY DEF Goto, Request, SameDuty

LEMMA RetryDuty ==
  ASSUME NEW s \in Request, NEW c \in Steps, NEW bound \in Nat, NEW giveUp
  PROVE  \/ Retry(s, c, bound, giveUp) = giveUp
         \/ /\ Retry(s, c, bound, giveUp) \in Request
            /\ Retry(s, c, bound, giveUp).pc = c
            /\ SameRead(Retry(s, c, bound, giveUp), s)
            /\ SameDuty(Retry(s, c, bound, giveUp), s)
<1> DEFINE t == [s EXCEPT !.pc = c, !.attempt = s.attempt + 1]
<1>1. s.attempt + 1 \in Nat
  BY DEF Request
<1>2. t \in Request /\ t.pc = c /\ SameRead(t, s) /\ SameDuty(t, s)
  BY <1>1 DEF Request, SameRead, SameDuty
<1>3. Retry(s, c, bound, giveUp) = IF s.attempt + 1 < bound THEN t ELSE giveUp
  BY DEF Retry
<1> HIDE DEF t
<1> QED
  BY <1>2, <1>3

(* Whoever still owes the channel an event does not end with an error. *)
LEMMA AfterErrorDuty ==
  ASSUME NEW s \in Request
  PROVE  /\ s.legacy <=> AfterError(s) # Nil
         /\ s.legacy => SameDuty(AfterError(s), s)
<1> DEFINE t == [s EXCEPT !.pc = "publishChanged", !.failed = TRUE]
<1>1. t \in Request /\ SameDuty(t, s)
  BY DEF Request, Steps, SameDuty
<1>2. t # Nil
  BY <1>1, NilAssumption
<1>3. AfterError(s) = IF s.legacy THEN t ELSE Nil
  BY DEF AfterError
<1> HIDE DEF t
<1> QED
  BY <1>1, <1>2, <1>3

LEMMA AfterPublishDuty ==
  ASSUME NEW s \in Request
  PROVE  /\ SameDuty(AfterPublish(s), s)
         /\ s.legacy \/ s.advanced => AfterPublish(s).pc = "publishChanged"
<1>1. /\ "publishChanged" \in Steps /\ "respond" \in Steps
  BY DEF Steps
<1>2. CASE s.legacy \/ s.advanced
  BY <1>1, <1>2, GotoShape, GotoDuty DEF AfterPublish
<1>3. CASE ~(s.legacy \/ s.advanced)
  BY <1>1, <1>3, GotoDuty DEF AfterPublish
<1> QED
  BY <1>2, <1>3

LEMMA AfterAdvanceDuty ==
  ASSUME NEW s \in Request
  PROVE  /\ SameDuty(AfterAdvance(s), s)
         /\ s.advanced => AfterAdvance(s).pc = "publishReceipt"
         /\ s.legacy => AfterAdvance(s).pc \in {"publishReceipt", "publishChanged"}
<1> DEFINE t == [s EXCEPT !.attempt = 0]
<1>1. t \in Request /\ SameDuty(t, s)
  BY DEF Request, SameDuty
<1>2. AfterAdvance(s) = IF t.written \/ t.advanced THEN Goto(t, "publishReceipt")
                                                   ELSE AfterPublish(t)
  BY DEF AfterAdvance
<1> HIDE DEF t
<1>3. CASE t.written \/ t.advanced
  <2>1. /\ Goto(t, "publishReceipt").pc = "publishReceipt"
        /\ SameDuty(Goto(t, "publishReceipt"), t)
    BY <1>1, GotoShape, GotoDuty DEF Steps
  <2> QED
    BY <1>1, <1>2, <1>3, <2>1 DEF SameDuty
<1>4. CASE ~(t.written \/ t.advanced)
  BY <1>1, <1>2, <1>4, AfterPublishDuty DEF SameDuty
<1> QED
  BY <1>3, <1>4

(* A reader who was indexed with a watermark owes the channel an event. *)
LEMMA AfterIndexDuty ==
  ASSUME NEW s \in Request, NEW indexed \in BOOLEAN
  PROVE  LET t == AfterIndex(s, indexed)
         IN  /\ t.now = s.now
             /\ t.legacy = (indexed /\ s.seen # Nil)
             /\ ~AlreadyRead(s) => t.readAt = s.readAt
             /\ AlreadyRead(s) /\ t.legacy => t.pc = "publishChanged"
<1> DEFINE b == indexed /\ s.seen # Nil
           t == [s EXCEPT !.legacy = b, !.oldIndex = <<>>,
                          !.newIndex = <<>>, !.attempt = 0, !.absent = {}]
<1>1. b \in BOOLEAN /\ <<>> \in Seq(Users)
  OBVIOUS
<1>2. AfterIndex(s, indexed) =
        IF AlreadyRead(s)
        THEN [t EXCEPT !.readAt = s.seen.readAt,
                       !.pc = IF t.legacy THEN "publishChanged" ELSE "readStored"]
        ELSE Goto(t, "putReceipt")
  BY DEF AfterIndex
<1> HIDE DEF b
<1>3. t \in Request /\ t.now = s.now /\ t.legacy = b /\ t.readAt = s.readAt
  BY <1>1 DEF Request
<1> HIDE DEF t
<1>4. CASE AlreadyRead(s)
  BY <1>2, <1>3, <1>4 DEF Request, b
<1>5. CASE ~AlreadyRead(s)
  <2>1. SameDuty(Goto(t, "putReceipt"), t)
    BY <1>3, GotoDuty DEF Steps
  <2> QED
    BY <1>2, <1>3, <1>5, <2>1 DEF SameDuty, b
<1> QED
  BY <1>4, <1>5

-----------------------------------------------------------------------------
(* Coverage that became visible is announced. *)

(* Whoever may report a read of some post fits into the index.             *)
Readers == {r \in Users : \E p \in Posts : Author[p] # r}
IndexHasRoom == IsFiniteSet(Readers) /\ Cardinality(Readers) <= MaxIndexReaders

(* The handler will send receipts_changed, whatever its next calls answer. *)
Owes(s) ==
  \/ s.pc = "publishChanged"
  \/ s.pc = "publishReceipt" /\ s.advanced
  \/ /\ s.pc \in {"putReceipt", "readStored", "getCurrent", "casWatermark",
                  "publishReceipt"}
     /\ s.legacy /\ ~AlreadyRead(s)

(* What is true of a handler s whose reader's watermark is w while shown   *)
(* are indexed: past the index step its reader is among them, and a        *)
(* watermark of a reader who is not was there when the handler looked.     *)
HandlerNotice(s, w, shown) ==
  /\ s.pc # "pruneIndex"
  /\ s.pc \notin {"getWatermark", "getIndex", "casIndex"} => s.reader \in shown
  /\ s.pc # "getWatermark" /\ s.reader \notin shown /\ w # Nil => s.seen # Nil
  /\ s.pc = "casIndex" => s.newIndex = Append(s.oldIndex, s.reader)

NoticeInv ==
  /\ Range(idx) \subseteq Readers
  /\ \A q \in Requests : req[q] # Nil =>
       HandlerNotice(req[q], wm[req[q].reader], Range(idx))
  /\ "crash" \notin Faults /\ stale =>
       \E q \in Requests : req[q] # Nil /\ Owes(req[q])

(* A list without duplicates has as many readers as places. *)
LEMMA IndexCardinality ==
  ASSUME NEW readers \in Seq(Users), IsInjective(readers)
  PROVE  /\ IsFiniteSet(Range(readers))
         /\ Cardinality(Range(readers)) = Len(readers)
<1>1. Len(readers) \in Nat /\ DOMAIN readers = 1..Len(readers)
  OBVIOUS
<1>2. readers \in [1..Len(readers) -> Range(readers)]
  BY <1>1 DEF Range
<1>3. readers \in Bijection(1..Len(readers), Range(readers))
  BY <1>1, <1>2 DEF Bijection, Injection, Surjection, Range
<1>4. ExistsBijection(1..Len(readers), Range(readers))
  BY <1>3 DEF ExistsBijection
<1> QED
  BY <1>1, <1>4, FS_NatBijection, FS_CountingElements

(* A reader who is missing finds a place. *)
LEMMA RoomForReader ==
  ASSUME IndexHasRoom, Inv, NoticeInv, NEW q \in Requests, req[q] # Nil,
         req[q].reader \notin Range(idx)
  PROVE  ~IndexFull(idx)
<1> DEFINE r == req[q].reader
           R == Range(idx)
<1>1. r \in Readers
  BY CurrentHandler DEF HandlerInv, Readers
<1>2. /\ IsFiniteSet(R) /\ Cardinality(R) = Len(idx) /\ Len(idx) \in Nat
  BY IndexCardinality DEF Inv, TypeOK, IndexWellFormed
<1> HIDE DEF R, r
<1>3. r \notin R /\ R \subseteq Readers
  BY DEF NoticeInv, r, R
<1>4. Cardinality(R \cup {r}) = Len(idx) + 1
  BY <1>2, <1>3, FS_AddElement
<1>5. Cardinality(R \cup {r}) <= Cardinality(Readers)
  BY <1>1, <1>3, FS_Subset DEF IndexHasRoom
<1>6. Cardinality(Readers) \in Nat
  BY FS_CardinalityType DEF IndexHasRoom
<1> QED
  BY <1>2, <1>4, <1>5, <1>6, BoundsAssumption DEF IndexFull, IndexHasRoom

LEMMA InitNotice == Init => NoticeInv
<1> SUFFICES ASSUME Init PROVE NoticeInv
  OBVIOUS
<1>1. idx = <<>> /\ stale = FALSE /\ req = [q \in Requests |-> Nil]
  BY DEF Init
<1> QED
  BY <1>1 DEF NoticeInv, Range

(* One handler moves: the index only grows, a reader gets a first          *)
(* watermark only when indexed, and nobody drops a debt.                   *)
LEMMA NoticeStep ==
  ASSUME Inv, NoticeInv, NEW q \in Requests, NEW t \in Request \cup {Nil},
         Become(q, t),
         Range(idx) \subseteq Range(idx)', Range(idx)' \subseteq Readers,
         \A r \in Users : wm[r] = Nil /\ wm'[r] # Nil => r \in Range(idx)',
         t # Nil => HandlerNotice(t, wm'[t.reader], Range(idx)'),
         stale' => \/ t # Nil /\ Owes(t)
                   \/ stale /\ ~(req[q] # Nil /\ Owes(req[q]))
  PROVE  NoticeInv'
<1>1. req'[q] = t /\ \A o \in Requests : o # q => req'[o] = req[o]
  BY BecomeType DEF Inv
<1>2. ASSUME NEW o \in Requests, req'[o] # Nil
      PROVE  HandlerNotice(req'[o], wm'[req'[o].reader], Range(idx)')
  <2>1. CASE o = q
    BY <1>1, <1>2, <2>1
  <2>2. CASE o # q
    <3>1. /\ req'[o] = req[o] /\ req[o] # Nil /\ req[o].reader \in Users
      BY <1>1, <1>2, <2>2, CurrentHandler
    <3>2. HandlerNotice(req[o], wm[req[o].reader], Range(idx))
      BY <3>1 DEF NoticeInv
    <3> QED
      BY <3>1, <3>2 DEF HandlerNotice
  <2> QED
    BY <2>1, <2>2
<1>3. ASSUME "crash" \notin Faults, stale'
      PROVE  \E o \in Requests : req'[o] # Nil /\ Owes(req'[o])
  <2>1. CASE t # Nil /\ Owes(t)
    BY <1>1, <2>1
  <2>2. CASE stale /\ ~(req[q] # Nil /\ Owes(req[q]))
    <3>1. PICK o \in Requests : req[o] # Nil /\ Owes(req[o])
      BY <1>3, <2>2 DEF NoticeInv
    <3> QED
      BY <1>1, <2>2, <3>1
  <2> QED
    BY <1>3, <2>1, <2>2
<1> QED
  BY <1>2, <1>3 DEF NoticeInv

(* The same for a step that leaves the store and the debts be. *)
LEMMA NoticeLocal ==
  ASSUME Inv, NoticeInv, NEW q \in Requests, NEW t \in Request \cup {Nil},
         Become(q, t), UNCHANGED <<wm, idx>>, stale' => stale,
         t # Nil => HandlerNotice(t, wm[t.reader], Range(idx)),
         req[q] # Nil /\ Owes(req[q]) /\ stale' => t # Nil /\ Owes(t)
  PROVE  NoticeInv'
<1>1. Range(idx)' = Range(idx) /\ Range(idx) \subseteq Readers
  BY DEF NoticeInv, Range
<1>2. t # Nil => HandlerNotice(t, wm'[t.reader], Range(idx)')
  BY <1>1
<1> QED
  BY <1>1, <1>2, NoticeStep

(* A handler that goes on past the index step. *)
LEMMA NoticeMoves ==
  ASSUME NEW s, NEW t, NEW w, NEW shown, HandlerNotice(s, w, shown),
         SameRead(t, s), s.pc # "getWatermark", s.reader \in shown,
         t.pc \notin {"pruneIndex", "casIndex"}
  PROVE  HandlerNotice(t, w, shown)
BY DEF HandlerNotice, SameRead

LEMMA NoticeHandler ==
  ASSUME Inv, NoticeInv, NEW q \in Requests, req[q] # Nil
  PROVE  HandlerNotice(req[q], wm[req[q].reader], Range(idx))
BY DEF NoticeInv

LEMMA HandleReadNotice ==
  ASSUME Inv, NoticeInv, NEW q \in Requests, NEW r \in Users, NEW p \in Posts,
         HandleRead(q, r, p)
  PROVE  NoticeInv'
<1> DEFINE t == NewRequest(r, p)
<1>1. t \in Request /\ t.pc = "getWatermark"
  BY NewRequestType DEF Inv, NewRequest
<1>2. Become(q, t) /\ UNCHANGED <<wm, idx, stale>> /\ req[q] = Nil
  BY DEF HandleRead, store, history
<1> HIDE DEF t
<1>3. HandlerNotice(t, wm[t.reader], Range(idx))
  BY <1>1 DEF HandlerNotice
<1> QED
  BY <1>1, <1>2, <1>3, NoticeLocal

LEMMA GetWatermarkNotice ==
  ASSUME Inv, NoticeInv, NEW q \in Requests, GetWatermark(q)
  PROVE  NoticeInv'
<1> DEFINE s == req[q]
           w == wm[s.reader]
           t == [s EXCEPT !.pc = "getIndex", !.seen = w]
<1>1. s \in Request /\ s.pc = "getWatermark" /\ w \in Watermark \cup {Nil}
  BY CurrentHandler DEF GetWatermark, At
<1>2. Become(q, t) /\ UNCHANGED <<wm, idx, stale>>
  BY DEF GetWatermark, store, history
<1> HIDE DEF w
<1>3. t \in Request /\ t.pc = "getIndex" /\ t.reader = s.reader /\ t.seen = w
  BY <1>1 DEF Request, Steps
<1> HIDE DEF t
<1>4. HandlerNotice(t, wm[t.reader], Range(idx)) /\ ~Owes(s)
  BY <1>1, <1>3 DEF HandlerNotice, Owes, w
<1> QED
  BY <1>2, <1>3, <1>4, NoticeLocal

LEMMA GetIndexNotice ==
  ASSUME IndexHasRoom, Inv, NoticeInv, NEW q \in Requests, GetIndex(q)
  PROVE  NoticeInv'
<1> DEFINE s == req[q]
           w == wm[s.reader]
           u == AfterIndex(s, FALSE)
           t == [s EXCEPT !.pc = "casIndex", !.oldIndex = idx,
                          !.newIndex = Append(idx, s.reader)]
<1>1. /\ s \in Request /\ s.reader \in Users /\ s.pc = "getIndex" /\ s # Nil
      /\ HandlerNotice(s, w, Range(idx))
  BY CurrentHandler, NoticeHandler DEF GetIndex, At
<1>2. UNCHANGED <<wm, idx, stale>> /\ ~Owes(s)
  BY <1>1 DEF GetIndex, store, history, Owes
<1>3. CASE s.reader \in Range(idx)
  <2>1. u \in Request /\ SameRead(u, s) /\ u.pc \notin {"pruneIndex", "casIndex"}
    BY <1>1, AfterIndexShape
  <2>2. Become(q, u)
    BY <1>3 DEF GetIndex
  <2> HIDE DEF u
  <2>3. HandlerNotice(u, wm[u.reader], Range(idx))
    BY <1>1, <1>3, <2>1, NoticeMoves DEF SameRead
  <2> QED
    BY <1>2, <2>1, <2>2, <2>3, NoticeLocal
<1>4. CASE s.reader \notin Range(idx)
  <2>1. ~IndexFull(idx)
    BY <1>1, <1>4, RoomForReader
  <2>2. Become(q, t)
    BY <1>4, <2>1 DEF GetIndex
  <2>3. idx \in Seq(Users) /\ Append(idx, s.reader) \in Seq(Users)
    BY <1>1 DEF Inv, TypeOK
  <2>4. /\ t \in Request /\ t.pc = "casIndex" /\ t.reader = s.reader
        /\ t.seen = s.seen /\ t.oldIndex = idx
        /\ t.newIndex = Append(idx, s.reader)
    BY <1>1, <2>3 DEF Request, Steps
  <2> HIDE DEF t
  <2>5. HandlerNotice(t, wm[t.reader], Range(idx))
    BY <1>1, <2>4 DEF HandlerNotice
  <2> QED
    BY <1>2, <2>2, <2>4, <2>5, NoticeLocal
<1> QED
  BY <1>3, <1>4

LEMMA PruneIndexNotice ==
  ASSUME Inv, NoticeInv, NEW q \in Requests, PruneIndex(q)
  PROVE  FALSE
BY NoticeHandler DEF PruneIndex, At, HandlerNotice

(* The CAS that adds a reader: whose watermark it exposes owes the event.  *)
LEMMA CasIndexNotice ==
  ASSUME Inv, NoticeInv, NEW q \in Requests, CasIndex(q)
  PROVE  NoticeInv'
<1> DEFINE s == req[q]
           r == s.reader
           u == AfterIndex(s, TRUE)
           t == [s EXCEPT !.oldIndex = <<>>, !.newIndex = <<>>, !.absent = {}]
           v == Retry(t, "getIndex", MaxIndexCASRetries, Nil)
<1>1. /\ s \in Request /\ r \in Users /\ s.pc = "casIndex" /\ s # Nil
      /\ HandlerInv(s, wm[r]) /\ HandlerNotice(s, wm[r], Range(idx))
  BY CurrentHandler, NoticeHandler DEF CasIndex, At
<1>2. UNCHANGED wm /\ ~Owes(s)
  BY <1>1 DEF CasIndex, Owes
<1>3. CASE Swaps(idx, s.oldIndex)
  <2>1. /\ idx' = s.newIndex /\ stale' = (stale \/ wm[r] # Nil) /\ Become(q, u)
        /\ idx = s.oldIndex
    BY <1>3 DEF CasIndex, Swaps
  <2>2. r \notin Range(idx) /\ IsInjective(idx) /\ idx \in Seq(Users)
    BY <1>1, <2>1 DEF HandlerInv, Inv, TypeOK, IndexWellFormed
  <2>3. idx' = Append(idx, r)
    BY <1>1, <2>1 DEF HandlerNotice
  <2>4. Range(idx)' = Range(idx) \cup {r}
    BY <1>1, <2>2, <2>3, AppendReader
  <2>5. r \in Readers
    BY <1>1, CurrentHandler DEF HandlerInv, Readers
  <2>6. /\ u \in Request /\ SameRead(u, s)
        /\ AlreadyRead(s) => u.pc \in {"publishChanged", "readStored"}
        /\ ~AlreadyRead(s) => u.pc = "putReceipt"
        /\ u.legacy = (s.seen # Nil)
        /\ AlreadyRead(s) /\ u.legacy => u.pc = "publishChanged"
    BY <1>1, AfterIndexShape, AfterIndexDuty
  <2> HIDE DEF u
  <2>7. HandlerNotice(u, wm'[u.reader], Range(idx)')
    BY <1>1, <2>4, <2>6 DEF HandlerNotice, SameRead
  <2>8. AlreadyRead(u) <=> AlreadyRead(s)
    BY <2>6 DEF AlreadyRead, SameRead
  <2>9. wm[r] # Nil => u # Nil /\ Owes(u)
    <3>1. wm[r] # Nil => s.seen # Nil
      BY <1>1, <2>2 DEF HandlerNotice
    <3> QED
      BY <2>6, <2>8, <3>1, NilAssumption DEF Owes
  <2>10. Range(idx) \subseteq Range(idx)' /\ Range(idx)' \subseteq Readers
    BY <2>4, <2>5 DEF NoticeInv
  <2> QED
    BY <1>2, <2>1, <2>6, <2>7, <2>9, <2>10, NoticeStep
<1>4. CASE ~Swaps(idx, s.oldIndex)
  <2>1. Become(q, v) /\ UNCHANGED <<idx, stale>>
    BY <1>4 DEF CasIndex
  <2>2. <<>> \in Seq(Users)
    OBVIOUS
  <2>3. t \in Request /\ SameRead(t, s)
    BY <1>1, <2>2 DEF Request, SameRead
  <2>4. \/ v = Nil
        \/ v \in Request /\ v.pc = "getIndex" /\ SameRead(v, t)
    BY <2>3, RetryShape, BoundsAssumption DEF Steps
  <2> HIDE DEF v, t
  <2>5. v # Nil => HandlerNotice(v, wm[v.reader], Range(idx))
    BY <1>1, <2>3, <2>4 DEF HandlerNotice, SameRead
  <2> QED
    BY <1>2, <2>1, <2>4, <2>5, NoticeLocal
<1> QED
  BY <1>3, <1>4

(* A handler past the index step and its debt, in every step it takes. *)
LEMMA PastIndex ==
  ASSUME Inv, NoticeInv, NEW q \in Requests, req[q] # Nil,
         req[q].pc \notin {"getWatermark", "getIndex", "casIndex"}
  PROVE  /\ req[q] \in Request
         /\ req[q].reader \in Range(idx)
         /\ HandlerNotice(req[q], wm[req[q].reader], Range(idx))
BY NoticeHandler, CurrentHandler DEF HandlerNotice

(* It goes on to t, which owes what it owed. *)
LEMMA DutyMoves ==
  ASSUME Inv, NoticeInv, NEW q \in Requests, NEW t \in Request \cup {Nil},
         req[q] # Nil, req[q].pc \notin {"getWatermark", "getIndex", "casIndex"},
         Become(q, t), UNCHANGED <<wm, idx>>, stale' => stale,
         t # Nil => SameRead(t, req[q]) /\ t.pc \notin {"pruneIndex", "casIndex"},
         Owes(req[q]) /\ stale' => t # Nil /\ Owes(t)
  PROVE  NoticeInv'
<1> DEFINE s == req[q]
<1>1. s.reader \in Range(idx) /\ HandlerNotice(s, wm[s.reader], Range(idx))
  BY PastIndex
<1>2. t # Nil => HandlerNotice(t, wm[t.reader], Range(idx))
  BY <1>1, NoticeMoves DEF SameRead
<1> QED
  BY <1>2, NoticeLocal

LEMMA PutReceiptNotice ==
  ASSUME Inv, NoticeInv, NEW q \in Requests, PutReceipt(q)
  PROVE  NoticeInv'
<1> DEFINE s == req[q]
           u == AfterReceipt(s)
           v == Goto(s, "readStored")
<1>1. s \in Request /\ s.pc = "putReceipt" /\ s # Nil
  BY CurrentHandler DEF PutReceipt, At
<1>2. /\ u \in Request /\ u.pc = "getCurrent" /\ SameRead(u, s)
      /\ u.legacy = s.legacy /\ u.advanced = s.advanced
  BY <1>1 DEF AfterReceipt, Request, Steps, SameRead
<1>3. v \in Request /\ v.pc = "readStored" /\ SameRead(v, s) /\ SameDuty(v, s)
  BY <1>1, GotoType, GotoShape, GotoDuty DEF Steps
<1>4. UNCHANGED <<wm, idx, stale>> /\ (Become(q, u) \/ Become(q, v))
  BY DEF PutReceipt, history
<1> HIDE DEF u, v
<1>5. Owes(s) => Owes(u) /\ Owes(v)
  BY <1>1, <1>2, <1>3 DEF Owes, SameDuty, SameRead, AlreadyRead
<1>6. u # Nil /\ v # Nil
  BY <1>2, <1>3, NilAssumption
<1> QED
  BY <1>1, <1>2, <1>3, <1>4, <1>5, <1>6, DutyMoves

LEMMA ReadStoredNotice ==
  ASSUME Inv, NoticeInv, NEW q \in Requests, ReadStored(q)
  PROVE  NoticeInv'
<1> DEFINE s == req[q]
           at == StoredTime(rr[<<s.reader, s.post>>], s.readAt)
           c == IF AlreadyRead(s) THEN "respond" ELSE "getCurrent"
           t == [s EXCEPT !.readAt = at, !.pc = c]
<1>1. s \in Request /\ s.pc = "readStored" /\ s # Nil
  BY CurrentHandler DEF ReadStored, At
<1>2. at \in Nat /\ c \in Steps
  BY <1>1 DEF StoredTime, Request, Inv, TypeOK, Steps
<1>3. Become(q, t) /\ UNCHANGED <<wm, idx, stale>>
  BY DEF ReadStored, store, history
<1> HIDE DEF at, c
<1>4. /\ t \in Request /\ t.pc = c /\ SameRead(t, s) /\ t.legacy = s.legacy
  BY <1>1, <1>2 DEF Request, SameRead
<1> HIDE DEF t
<1>5. t # Nil /\ (Owes(s) => Owes(t))
  BY <1>1, <1>4, NilAssumption DEF Owes, SameRead, AlreadyRead, c
<1>6. t.pc \notin {"pruneIndex", "casIndex"}
  BY <1>4 DEF c
<1> QED
  BY <1>1, <1>3, <1>4, <1>5, <1>6, DutyMoves

LEMMA GetCurrentNotice ==
  ASSUME Inv, NoticeInv, NEW q \in Requests, GetCurrent(q)
  PROVE  NoticeInv'
<1> DEFINE s == req[q]
           w == wm[s.reader]
           u == AfterAdvance(s)
           t == [s EXCEPT !.pc = "casWatermark", !.current = w]
<1>1. /\ s \in Request /\ s.pc = "getCurrent" /\ s # Nil
      /\ w \in Watermark \cup {Nil}
  BY CurrentHandler DEF GetCurrent, At
<1>2. UNCHANGED <<wm, idx, stale>> /\ (Become(q, u) \/ Become(q, t))
  BY DEF GetCurrent, store, history
<1>3. /\ u \in Request /\ SameRead(u, s) /\ SameDuty(u, s)
      /\ u.pc \in {"publishReceipt", "publishChanged", "respond"}
      /\ s.legacy => u.pc \in {"publishReceipt", "publishChanged"}
  BY <1>1, AfterAdvanceShape, AfterAdvanceDuty
<1> HIDE DEF u, w
<1>4. /\ t \in Request /\ t.pc = "casWatermark" /\ SameRead(t, s)
      /\ t.legacy = s.legacy
  BY <1>1 DEF Request, Steps, SameRead
<1> HIDE DEF t
<1>5. Owes(s) => Owes(u) /\ Owes(t)
  BY <1>1, <1>3, <1>4 DEF Owes, SameDuty, SameRead, AlreadyRead
<1>6. u # Nil /\ t # Nil
  BY <1>3, <1>4, NilAssumption
<1> QED
  BY <1>1, <1>2, <1>3, <1>4, <1>5, <1>6, DutyMoves

(* The CAS that moves a watermark: whoever wins it owes the event.         *)
LEMMA CasWatermarkNotice ==
  ASSUME Inv, NoticeInv, NEW q \in Requests, CasWatermark(q)
  PROVE  NoticeInv'
<1> DEFINE s == req[q]
           r == s.reader
           t == [s EXCEPT !.current = Nil]
           t2 == [t EXCEPT !.advanced = TRUE]
           u == AfterAdvance(t2)
           e == AfterError(t)
           v == Retry(t, "getCurrent", MaxWatermarkCASRetries, e)
<1>1. /\ s \in Request /\ r \in Users /\ s.pc = "casWatermark" /\ s # Nil
      /\ HandlerNotice(s, wm[r], Range(idx)) /\ r \in Range(idx)
      /\ ~AlreadyRead(s)
  BY CurrentHandler, PastIndex DEF CasWatermark, At, HandlerInv
<1>2. t \in Request /\ SameRead(t, s) /\ t.legacy = s.legacy
  BY <1>1 DEF Request, SameRead
<1>3. CASE Swaps(wm[r], s.current)
  <2>1. wm' = [wm EXCEPT ![r] = WatermarkOf(s.post, s.readAt)]
    BY <1>3, CasWatermarkGrows
  <2>2. Become(q, u) /\ UNCHANGED idx
    BY <1>2, <1>3 DEF CasWatermark, SameRead
  <2>3. t2 \in Request /\ SameRead(t2, s) /\ t2.advanced
    BY <1>2 DEF Request, SameRead
  <2> HIDE DEF t2, t
  <2>4. u \in Request /\ SameRead(u, s) /\ u.pc = "publishReceipt" /\ u.advanced
    BY <2>3, AfterAdvanceShape, AfterAdvanceDuty DEF SameRead, SameDuty
  <2> HIDE DEF u
  <2>5. \A o \in Users : o # r => wm'[o] = wm[o]
    BY <2>1 DEF Inv, TypeOK
  <2>6. /\ Range(idx)' = Range(idx) /\ Range(idx) \subseteq Readers
    BY <2>2 DEF NoticeInv, Range
  <2>7. \A o \in Users : wm[o] = Nil /\ wm'[o] # Nil => o \in Range(idx)'
    BY <1>1, <2>5, <2>6
  <2>8. HandlerNotice(u, wm'[u.reader], Range(idx)')
    BY <1>1, <2>4, <2>6 DEF HandlerNotice, SameRead
  <2>9. u # Nil /\ Owes(u)
    BY <2>4, NilAssumption DEF Owes
  <2> QED
    BY <2>2, <2>4, <2>6, <2>7, <2>8, <2>9, NoticeStep
<1>4. CASE ~Swaps(wm[r], s.current)
  <2>1. Become(q, v) /\ UNCHANGED <<wm, idx, stale>>
    BY <1>2, <1>4 DEF CasWatermark, SameRead
  <2>2. e # Nil => e \in Request /\ e.pc = "publishChanged" /\ SameRead(e, t)
    BY <1>2, AfterErrorShape
  <2>3. t.legacy => e # Nil
    BY <1>2, AfterErrorDuty
  <2> HIDE DEF e
  <2>4. \/ v = e
        \/ /\ v \in Request /\ v.pc = "getCurrent" /\ SameRead(v, t)
           /\ SameDuty(v, t)
    BY <1>2, RetryDuty, BoundsAssumption DEF Steps
  <2> HIDE DEF v, t
  <2>5. v # Nil => /\ v \in Request /\ SameRead(v, s)
                   /\ v.pc \notin {"pruneIndex", "casIndex"}
    BY <1>2, <2>2, <2>4 DEF SameRead
  <2>6. Owes(s) => v # Nil /\ Owes(v)
    BY <1>1, <1>2, <2>2, <2>3, <2>4, NilAssumption
       DEF Owes, SameRead, SameDuty, AlreadyRead
  <2> QED
    BY <1>1, <2>1, <2>5, <2>6, DutyMoves
<1> QED
  BY <1>3, <1>4

LEMMA PublishReceiptNotice ==
  ASSUME Inv, NoticeInv, NEW q \in Requests, PublishReceipt(q)
  PROVE  NoticeInv'
<1> DEFINE s == req[q]
           u == AfterPublish(s)
<1>1. s \in Request /\ s.pc = "publishReceipt" /\ s # Nil
  BY CurrentHandler DEF PublishReceipt, At
<1>2. /\ u \in Request /\ SameRead(u, s) /\ SameDuty(u, s)
      /\ u.pc \in {"publishChanged", "respond"}
      /\ s.legacy \/ s.advanced => u.pc = "publishChanged"
  BY <1>1, AfterPublishShape, AfterPublishDuty
<1>3. Become(q, u) /\ UNCHANGED <<wm, idx, stale>>
  BY DEF PublishReceipt, store
<1> HIDE DEF u
<1>4. u # Nil /\ (Owes(s) => Owes(u))
  BY <1>1, <1>2, NilAssumption DEF Owes
<1> QED
  BY <1>1, <1>2, <1>3, <1>4, DutyMoves

LEMMA PublishChangedNotice ==
  ASSUME Inv, NoticeInv, NEW q \in Requests, PublishChanged(q)
  PROVE  NoticeInv'
<1> DEFINE s == req[q]
           c == IF AlreadyRead(s) THEN "readStored" ELSE "respond"
           t == IF s.failed THEN Nil ELSE Goto(s, c)
<1>1. s \in Request /\ s.pc = "publishChanged" /\ s # Nil /\ c \in Steps
  BY CurrentHandler DEF PublishChanged, At, Steps
<1>2. /\ Goto(s, c) \in Request /\ Goto(s, c).pc = c /\ SameRead(Goto(s, c), s)
  BY <1>1, GotoType, GotoShape
<1>3. /\ t \in Request \cup {Nil}
      /\ t # Nil => SameRead(t, s) /\ t.pc \notin {"pruneIndex", "casIndex"}
  BY <1>2
<1>4. Become(q, t) /\ UNCHANGED <<wm, idx>> /\ ~stale'
  BY DEF PublishChanged, store
<1> QED
  BY <1>1, <1>3, <1>4, DutyMoves

LEMMA RespondNotice ==
  ASSUME Inv, NoticeInv, NEW q \in Requests, Respond(q)
  PROVE  NoticeInv'
<1>1. req[q].pc = "respond" /\ Become(q, Nil) /\ UNCHANGED <<wm, idx, stale>>
  BY DEF Respond, At, store
<1>2. ~Owes(req[q])
  BY <1>1 DEF Owes
<1> QED
  BY <1>1, <1>2, NoticeLocal

LEMMA KVErrorNotice ==
  ASSUME Inv, NoticeInv, NEW q \in Requests, KVError(q)
  PROVE  NoticeInv'
<1> DEFINE s == req[q]
           t == [s EXCEPT !.current = Nil]
           e == AfterError(t)
           c == IF AlreadyRead(s) THEN "respond" ELSE "getCurrent"
           g == Goto(s, c)
<1>1. s \in Request /\ s # Nil /\ c \in Steps
  BY CurrentHandler DEF KVError, Steps
<1>2. UNCHANGED <<wm, idx, stale>>
  BY DEF KVError, store, history
<1>3. CASE /\ s.pc \in {"getWatermark", "getIndex", "pruneIndex", "casIndex"}
           /\ Become(q, Nil)
  <2>1. ~Owes(s)
    BY <1>3 DEF Owes
  <2> QED
    BY <1>2, <1>3, <2>1, NoticeLocal
<1>4. CASE /\ s.pc \in {"putReceipt", "getCurrent", "casWatermark"}
           /\ Become(q, e)
  <2>1. t \in Request /\ SameRead(t, s) /\ t.legacy = s.legacy
    BY <1>1 DEF Request, SameRead
  <2>2. /\ e # Nil => e \in Request /\ e.pc = "publishChanged" /\ SameRead(e, t)
        /\ s.legacy => e # Nil
    BY <2>1, AfterErrorShape, AfterErrorDuty
  <2> HIDE DEF e, t
  <2>3. e # Nil => SameRead(e, s) /\ Owes(e)
    BY <2>1, <2>2 DEF SameRead, Owes
  <2>4. Owes(s) => e # Nil
    BY <1>4, <2>2 DEF Owes
  <2> QED
    BY <1>1, <1>2, <1>4, <2>2, <2>3, <2>4, DutyMoves
<1>5. CASE s.pc = "readStored" /\ Become(q, g)
  <2>1. g \in Request /\ g.pc = c /\ SameRead(g, s) /\ SameDuty(g, s)
    BY <1>1, GotoType, GotoShape, GotoDuty
  <2> HIDE DEF g
  <2>2. g # Nil /\ (Owes(s) => Owes(g))
    BY <1>5, <2>1, NilAssumption DEF Owes, SameRead, SameDuty, AlreadyRead
  <2> QED
    BY <1>1, <1>2, <1>5, <2>1, <2>2, DutyMoves
<1> QED
  BY <1>3, <1>4, <1>5 DEF KVError

(* The debts of a handler that is stopped are lost: none is claimed.       *)
LEMMA CrashNotice ==
  ASSUME Inv, NoticeInv, NEW q \in Requests, Crash(q)
  PROVE  NoticeInv'
<1>1. "crash" \in Faults /\ Become(q, Nil) /\ UNCHANGED <<wm, idx>>
  BY DEF Crash, store
<1>2. req'[q] = Nil /\ \A o \in Requests : o # q => req'[o] = req[o]
  BY <1>1, BecomeType DEF Inv
<1> QED
  BY <1>1, <1>2 DEF NoticeInv, Range

LEMMA StepNotice ==
  ASSUME IndexHasRoom
  PROVE  Inv /\ NoticeInv /\ [Next]_vars => NoticeInv'
<1> SUFFICES ASSUME Inv, NoticeInv, [Next]_vars PROVE NoticeInv'
  OBVIOUS
<1>1. ASSUME NEW q \in Requests, NEW r \in Users, NEW p \in Posts,
             HandleRead(q, r, p)
      PROVE  NoticeInv'
  BY <1>1, HandleReadNotice
<1>2. ASSUME NEW q \in Requests, HandlerStep(q) PROVE NoticeInv'
  BY <1>2, GetWatermarkNotice, GetIndexNotice, PruneIndexNotice, CasIndexNotice,
     PutReceiptNotice, ReadStoredNotice, GetCurrentNotice, CasWatermarkNotice,
     PublishReceiptNotice, PublishChangedNotice, RespondNotice DEF HandlerStep
<1>3. CASE UNCHANGED <<wm, idx, req, stale>>
  BY <1>3 DEF NoticeInv, Range
<1>4. CASE Environment
  BY <1>3, <1>4, KVErrorNotice, CrashNotice
     DEF Environment, Leave, Join, SetEnabled, Expire, Tick, store, history
<1>5. CASE UNCHANGED vars
  BY <1>3, <1>5 DEF vars, store, history
<1> QED
  BY <1>1, <1>2, <1>4, <1>5 DEF Next

(* While every reader fits into the index and no process stops in the      *)
(* middle of a request, no order of concurrent requests, lost CASes and    *)
(* failing calls leaves visible coverage unannounced: when the requests    *)
(* have ended, receipts_changed was sent (markAsRead's every exit).        *)
THEOREM CoverageIsAnnounced ==
  ASSUME IndexHasRoom, "crash" \notin Faults
  PROVE  Spec => []NoLostInvalidation
<1>1. NoticeInv => NoLostInvalidation
  BY DEF NoticeInv, NoLostInvalidation
<1>2. Inv /\ NoticeInv /\ [Next]_vars => NoticeInv'
  BY StepNotice
<1> QED
  BY <1>1, <1>2, InitNotice, Invariance, PTL DEF Spec

(* The index only grows, at its end. *)
LEMMA IndexGrows ==
  ASSUME IndexHasRoom, Inv, NoticeInv, [Next]_vars
  PROVE  UNCHANGED idx \/ \E r \in Users : idx' = Append(idx, r)
<1>1. ASSUME NEW q \in Requests, CasIndex(q)
      PROVE  UNCHANGED idx \/ \E r \in Users : idx' = Append(idx, r)
  <2> DEFINE s == req[q]
  <2>1. /\ s.reader \in Users /\ s.pc = "casIndex"
        /\ HandlerNotice(s, wm[s.reader], Range(idx))
    BY <1>1, CurrentHandler, NoticeHandler DEF CasIndex, At
  <2>2. CASE Swaps(idx, s.oldIndex)
    BY <1>1, <2>1, <2>2 DEF CasIndex, Swaps, HandlerNotice
  <2>3. CASE ~Swaps(idx, s.oldIndex)
    BY <1>1, <2>3 DEF CasIndex
  <2> QED
    BY <2>1, <2>2, <2>3
<1>2. UNCHANGED idx \/ \E q \in Requests : CasIndex(q)
  BY DEF Next, HandleRead, HandlerStep, GetWatermark, GetIndex, PruneIndex,
         PutReceipt, ReadStored, GetCurrent, CasWatermark, PublishReceipt,
         PublishChanged, Respond, Environment, KVError, Crash, Leave, Join,
         Expire, SetEnabled, Tick, store, vars
<1> QED
  BY <1>1, <1>2

-----------------------------------------------------------------------------
(* The first read time is the only one. *)

(* The handler has made sure that a receipt is stored, and knows its time. *)
KnowsReceipt(s) == s.pc \in {"getCurrent", "casWatermark", "publishReceipt"}

BeforeReceipt(s) ==
  s.pc \in {"getWatermark", "getIndex", "pruneIndex", "casIndex", "putReceipt"}

(* What is true of a handler s at time now whose reader's receipt of the   *)
(* post is stored.                                                         *)
HandlerTimes(s, now, stored) ==
  /\ 1 <= s.now /\ s.now <= now
  /\ BeforeReceipt(s) => s.readAt = s.now
  /\ s.pc = "readStored" /\ ~AlreadyRead(s) => stored # Nil
  /\ KnowsReceipt(s) => s.readAt = stored

(* A watermark w of r carries the time of version 0.1, or the receipt's.   *)
WatermarkTimed(w, r, receipts) ==
  w # Nil => w.readAt = 0 \/ w.readAt = receipts[<<r, w.post>>]

ReceiptOfHandler(s) == <<s.reader, s.post>>

TimesInv ==
  clock <= TTL =>
    /\ 1 <= clock
    /\ \A k \in Users \X Posts : rr[k] # Nil => 1 <= rr[k] /\ rr[k] <= clock
    /\ \A q \in Requests : req[q] # Nil =>
         HandlerTimes(req[q], clock, rr[ReceiptOfHandler(req[q])])
    /\ \A r \in Users : WatermarkTimed(wm[r], r, rr)
    /\ \A e \in announced : rr[<<e.reader, e.post>>] = e.readAt

(* No receipt is dropped or replaced while the first one is within its TTL. *)
ReceiptsStay == \A k \in Users \X Posts : rr[k] # Nil => rr'[k] = rr[k]

LEMMA InitTimes == Init => TimesInv
<1> SUFFICES ASSUME Init PROVE TimesInv
  OBVIOUS
<1>1. /\ rr = [x \in Users \X Posts |-> Nil] /\ announced = {} /\ clock = 1
      /\ req = [q \in Requests |-> Nil]
  BY DEF Init
<1>2. ASSUME NEW r \in Users PROVE WatermarkTimed(wm[r], r, rr)
  <2>1. PICK legacy \in [Users -> {Nil} \cup {WatermarkOf(p, 0) : p \in Posts}] :
          wm = legacy
    BY DEF Init
  <2>2. wm[r] = Nil \/ \E p \in Posts : wm[r] = WatermarkOf(p, 0)
    BY <2>1
  <2>3. ASSUME NEW p \in Posts, wm[r] = WatermarkOf(p, 0) PROVE wm[r].readAt = 0
    BY <2>3 DEF WatermarkOf
  <2> QED
    BY <2>2, <2>3 DEF WatermarkTimed
<1> QED
  BY <1>1, <1>2 DEF TimesInv

LEMMA TimesHandler ==
  ASSUME Inv, TimesInv, clock <= TTL, NEW q \in Requests, req[q] # Nil
  PROVE  /\ ReceiptOfHandler(req[q]) \in Users \X Posts
         /\ rr[ReceiptOfHandler(req[q])] \in Nat \cup {Nil}
         /\ HandlerTimes(req[q], clock, rr[ReceiptOfHandler(req[q])])
<1>1. ReceiptOfHandler(req[q]) \in Users \X Posts
  BY CurrentHandler DEF ReceiptOfHandler
<1> QED
  BY <1>1 DEF TimesInv, Inv, TypeOK

(* One handler moves and the clock stands still. *)
LEMMA TimesStep ==
  ASSUME Inv, TypeOK', TimesInv, clock <= TTL, UNCHANGED clock,
         NEW q \in Requests, NEW t \in Request \cup {Nil}, Become(q, t),
         ReceiptsStay,
         \A k \in Users \X Posts : rr'[k] # Nil => 1 <= rr'[k] /\ rr'[k] <= clock,
         t # Nil => HandlerTimes(t, clock, rr'[ReceiptOfHandler(t)]),
         \A r \in Users : wm'[r] = wm[r] \/ WatermarkTimed(wm'[r], r, rr'),
         \A e \in announced' : e \in announced \/ rr'[<<e.reader, e.post>>] = e.readAt
  PROVE  TimesInv'
<1>1. req'[q] = t /\ \A o \in Requests : o # q => req'[o] = req[o]
  BY BecomeType DEF Inv
<1>2. ASSUME NEW o \in Requests, req'[o] # Nil
      PROVE  HandlerTimes(req'[o], clock, rr'[ReceiptOfHandler(req'[o])])
  <2>1. CASE o = q
    BY <1>1, <1>2, <2>1
  <2>2. CASE o # q
    <3>1. req'[o] = req[o] /\ req[o] # Nil /\ req[o] \in Request
      BY <1>1, <1>2, <2>2, CurrentHandler
    <3> DEFINE k == ReceiptOfHandler(req[o])
    <3>2. k \in Users \X Posts /\ HandlerTimes(req[o], clock, rr[k])
      BY <3>1, TimesHandler
    <3> HIDE DEF k
    <3>3. rr[k] # Nil => rr'[k] = rr[k]
      BY <3>2 DEF ReceiptsStay
    <3>4. KnowsReceipt(req[o]) => rr[k] # Nil
      <4>1. req[o].readAt \in Nat
        BY <3>1 DEF Request
      <4> QED
        BY <3>2, <4>1, NilAssumption DEF HandlerTimes
    <3>5. HandlerTimes(req[o], clock, rr'[k])
      BY <3>2, <3>3, <3>4 DEF HandlerTimes
    <3> QED
      BY <3>1, <3>5 DEF k
  <2> QED
    BY <2>1, <2>2
<1>3. ASSUME NEW r \in Users PROVE WatermarkTimed(wm'[r], r, rr')
  <2>1. CASE wm'[r] = wm[r] /\ wm[r] # Nil
    <3> DEFINE k == <<r, wm[r].post>>
    <3>1. wm[r] \in Watermark
      BY <2>1 DEF Inv, TypeOK
    <3>2. k \in Users \X Posts /\ wm[r].readAt \in Nat
      BY <3>1 DEF Watermark
    <3>3. wm[r].readAt = 0 \/ wm[r].readAt = rr[k]
      BY <2>1 DEF TimesInv, WatermarkTimed
    <3>4. rr[k] # Nil => rr'[k] = rr[k]
      BY <3>2 DEF ReceiptsStay
    <3> QED
      BY <2>1, <3>2, <3>3, <3>4, NilAssumption DEF WatermarkTimed
  <2> QED
    BY <2>1 DEF WatermarkTimed
<1>4. ASSUME NEW e \in announced' PROVE rr'[<<e.reader, e.post>>] = e.readAt
  <2>1. CASE e \in announced
    <3> DEFINE k == <<e.reader, e.post>>
    <3>1. k \in Users \X Posts /\ e.readAt \in Nat
      BY <2>1 DEF Inv, TypeOK, Receipt
    <3>2. rr[k] = e.readAt
      BY <2>1 DEF TimesInv
    <3> QED
      BY <3>1, <3>2, NilAssumption DEF ReceiptsStay
  <2> QED
    BY <1>4, <2>1
<1> QED
  BY <1>2, <1>3, <1>4 DEF TimesInv

(* The same for a step that leaves the store and the events be. *)
LEMMA TimesLocal ==
  ASSUME Inv, TypeOK', TimesInv, clock <= TTL, UNCHANGED <<clock, wm, rr, announced>>,
         NEW q \in Requests, NEW t \in Request \cup {Nil}, Become(q, t),
         t # Nil => HandlerTimes(t, clock, rr[ReceiptOfHandler(t)])
  PROVE  TimesInv'
<1>1. ReceiptsStay
  BY DEF ReceiptsStay
<1>2. \A k \in Users \X Posts : rr'[k] # Nil => 1 <= rr'[k] /\ rr'[k] <= clock
  BY DEF TimesInv
<1> QED
  BY <1>1, <1>2, TimesStep

(* The handler goes on with its times as they are. *)
LEMMA TimesMoves ==
  ASSUME NEW s, NEW t, NEW now, NEW stored, HandlerTimes(s, now, stored),
         SameRead(t, s), t.now = s.now,
         ~BeforeReceipt(t), t.pc # "readStored",
         KnowsReceipt(t) => t.readAt = stored
  PROVE  HandlerTimes(t, now, stored)
BY DEF HandlerTimes, SameRead

LEMMA HandleReadTimes ==
  ASSUME Inv, TypeOK', TimesInv, clock <= TTL,
         NEW q \in Requests, NEW r \in Users, NEW p \in Posts, HandleRead(q, r, p)
  PROVE  TimesInv'
<1> DEFINE t == NewRequest(r, p)
<1>1. t \in Request /\ t.pc = "getWatermark" /\ t.now = clock /\ t.readAt = clock
  BY NewRequestType DEF Inv, NewRequest
<1>2. Become(q, t) /\ UNCHANGED <<clock, wm, rr, announced>>
  BY DEF HandleRead, store, env, history
<1> HIDE DEF t
<1>3. 1 <= clock
  BY DEF TimesInv
<1>4. HandlerTimes(t, clock, rr[ReceiptOfHandler(t)])
  BY <1>1, <1>3 DEF HandlerTimes, KnowsReceipt, Inv, TypeOK
<1> QED
  BY <1>1, <1>2, <1>4, TimesLocal

LEMMA GetWatermarkTimes ==
  ASSUME Inv, TypeOK', TimesInv, clock <= TTL, NEW q \in Requests, GetWatermark(q)
  PROVE  TimesInv'
<1> DEFINE s == req[q]
           w == wm[s.reader]
           t == [s EXCEPT !.pc = "getIndex", !.seen = w]
<1>1. /\ s \in Request /\ s.pc = "getWatermark" /\ s # Nil
      /\ w \in Watermark \cup {Nil}
  BY CurrentHandler DEF GetWatermark, At
<1>2. HandlerTimes(s, clock, rr[ReceiptOfHandler(s)])
  BY <1>1, TimesHandler
<1>3. Become(q, t) /\ UNCHANGED <<clock, wm, rr, announced>>
  BY DEF GetWatermark, store, env, history
<1> HIDE DEF w
<1>4. /\ t \in Request /\ t.pc = "getIndex" /\ t.reader = s.reader
      /\ t.post = s.post /\ t.now = s.now /\ t.readAt = s.readAt
  BY <1>1 DEF Request, Steps
<1> HIDE DEF t, s
<1>5. ReceiptOfHandler(t) = ReceiptOfHandler(s)
  BY <1>4 DEF ReceiptOfHandler
<1>6. HandlerTimes(t, clock, rr[ReceiptOfHandler(t)])
  BY <1>1, <1>2, <1>4, <1>5 DEF HandlerTimes, BeforeReceipt, KnowsReceipt
<1> QED
  BY <1>3, <1>4, <1>6, TimesLocal

(* The index step is over: a fresh read still has the time it came with.   *)
LEMMA AfterIndexTimes ==
  ASSUME NEW s \in Request, NEW indexed \in BOOLEAN, NEW now, NEW receipts,
         HandlerTimes(s, now, receipts[ReceiptOfHandler(s)]), BeforeReceipt(s)
  PROVE  HandlerTimes(AfterIndex(s, indexed), now,
                      receipts[ReceiptOfHandler(AfterIndex(s, indexed))])
<1> DEFINE t == AfterIndex(s, indexed)
<1>1. /\ SameRead(t, s) /\ t.now = s.now
      /\ AlreadyRead(s) => t.pc \in {"publishChanged", "readStored"}
      /\ ~AlreadyRead(s) => t.pc = "putReceipt" /\ t.readAt = s.readAt
  BY AfterIndexShape, AfterIndexDuty
<1> HIDE DEF t
<1>2. (AlreadyRead(t) <=> AlreadyRead(s)) /\ ReceiptOfHandler(t) = ReceiptOfHandler(s)
  BY <1>1 DEF AlreadyRead, SameRead, ReceiptOfHandler
<1>3. HandlerTimes(t, now, receipts[ReceiptOfHandler(t)])
  BY <1>1, <1>2 DEF HandlerTimes, BeforeReceipt, KnowsReceipt
<1> QED
  BY <1>3 DEF t

(* A handler still at the index step. *)
LEMMA IndexTimes ==
  ASSUME NEW s, NEW t, NEW now, NEW receipts,
         HandlerTimes(s, now, receipts[ReceiptOfHandler(s)]), BeforeReceipt(s),
         SameRead(t, s), SameDuty(t, s),
         t.pc \in {"getIndex", "pruneIndex", "casIndex"}
  PROVE  HandlerTimes(t, now, receipts[ReceiptOfHandler(t)])
<1>1. ReceiptOfHandler(t) = ReceiptOfHandler(s)
  BY DEF SameRead, ReceiptOfHandler
<1> QED
  BY <1>1 DEF HandlerTimes, BeforeReceipt, KnowsReceipt, SameDuty

LEMMA GetIndexTimes ==
  ASSUME Inv, TypeOK', TimesInv, clock <= TTL, NEW q \in Requests, GetIndex(q)
  PROVE  TimesInv'
<1> DEFINE s == req[q]
           u == AfterIndex(s, FALSE)
           v == [s EXCEPT !.pc = "pruneIndex", !.oldIndex = idx]
           t == [s EXCEPT !.pc = "casIndex", !.oldIndex = idx,
                          !.newIndex = Append(idx, s.reader)]
<1>1. s \in Request /\ s.pc = "getIndex" /\ s # Nil /\ BeforeReceipt(s)
  BY CurrentHandler DEF GetIndex, At, BeforeReceipt
<1>2. HandlerTimes(s, clock, rr[ReceiptOfHandler(s)])
  BY <1>1, TimesHandler
<1>3. /\ UNCHANGED <<clock, wm, rr, announced>>
      /\ Become(q, u) \/ Become(q, v) \/ Become(q, t)
  BY DEF GetIndex, store, env, history
<1>4. u \in Request /\ HandlerTimes(u, clock, rr[ReceiptOfHandler(u)])
  BY <1>1, <1>2, AfterIndexShape, AfterIndexTimes
<1> HIDE DEF u
<1>5. idx \in Seq(Users) /\ Append(idx, s.reader) \in Seq(Users)
  BY <1>1 DEF Inv, TypeOK, Request
<1>6. /\ v \in Request /\ v.pc = "pruneIndex" /\ SameRead(v, s) /\ SameDuty(v, s)
      /\ t \in Request /\ t.pc = "casIndex" /\ SameRead(t, s) /\ SameDuty(t, s)
  BY <1>1, <1>5 DEF Request, Steps, SameRead, SameDuty
<1> HIDE DEF v, t
<1>7. /\ HandlerTimes(v, clock, rr[ReceiptOfHandler(v)])
      /\ HandlerTimes(t, clock, rr[ReceiptOfHandler(t)])
  BY <1>1, <1>2, <1>6, IndexTimes
<1> QED
  BY <1>3, <1>4, <1>6, <1>7, TimesLocal

LEMMA PruneIndexTimes ==
  ASSUME Inv, TypeOK', TimesInv, clock <= TTL, NEW q \in Requests, PruneIndex(q)
  PROVE  TimesInv'
<1> DEFINE s == req[q]
           u == AfterFullIndex(s)
<1>1. /\ s \in Request /\ s.pc = "pruneIndex" /\ s # Nil /\ BeforeReceipt(s)
  BY CurrentHandler DEF PruneIndex, At, BeforeReceipt
<1>2. HandlerTimes(s, clock, rr[ReceiptOfHandler(s)])
  BY <1>1, TimesHandler
<1>3. PICK kept \in UNION {[1..n -> members] : n \in 0..Len(s.oldIndex)} :
        Become(q, IF IndexFull(kept) THEN u
                  ELSE [s EXCEPT !.pc = "casIndex",
                                 !.newIndex = Append(kept, s.reader),
                                 !.absent = Range(s.oldIndex) \ members])
  BY DEF PruneIndex
<1> DEFINE t == [s EXCEPT !.pc = "casIndex", !.newIndex = Append(kept, s.reader),
                          !.absent = Range(s.oldIndex) \ members]
<1>4. (Become(q, u) \/ Become(q, t)) /\ UNCHANGED <<clock, wm, rr, announced>>
  BY <1>3 DEF PruneIndex, store, env, history
<1>5. u \in Request /\ HandlerTimes(u, clock, rr[ReceiptOfHandler(u)])
  BY <1>1, <1>2, AfterIndexShape, AfterIndexTimes DEF AfterFullIndex
<1> HIDE DEF u
<1>6. kept \in Seq(Users)
  <2>1. PICK n \in 0..Len(s.oldIndex) : kept \in [1..n -> members]
    OBVIOUS
  <2>2. n \in Nat /\ members \subseteq Users
    BY <1>1 DEF Inv, TypeOK, Request
  <2> QED
    BY <2>1, <2>2
<1>7. Append(kept, s.reader) \in Seq(Users) /\ Range(s.oldIndex) \ members \subseteq Users
  BY <1>1, <1>6 DEF Request, Range
<1>8. t \in Request /\ t.pc = "casIndex" /\ SameRead(t, s) /\ SameDuty(t, s)
  BY <1>1, <1>7 DEF Request, Steps, SameRead, SameDuty
<1> HIDE DEF t
<1>9. HandlerTimes(t, clock, rr[ReceiptOfHandler(t)])
  BY <1>1, <1>2, <1>8, IndexTimes
<1> QED
  BY <1>4, <1>5, <1>8, <1>9, TimesLocal

LEMMA CasIndexTimes ==
  ASSUME Inv, TypeOK', TimesInv, clock <= TTL, NEW q \in Requests, CasIndex(q)
  PROVE  TimesInv'
<1> DEFINE s == req[q]
           u == AfterIndex(s, TRUE)
           t == [s EXCEPT !.oldIndex = <<>>, !.newIndex = <<>>, !.absent = {}]
           v == Retry(t, "getIndex", MaxIndexCASRetries, Nil)
<1>1. /\ s \in Request /\ s.pc = "casIndex" /\ s # Nil /\ BeforeReceipt(s)
  BY CurrentHandler DEF CasIndex, At, BeforeReceipt
<1>2. HandlerTimes(s, clock, rr[ReceiptOfHandler(s)])
  BY <1>1, TimesHandler
<1>3. (Become(q, u) \/ Become(q, v)) /\ UNCHANGED <<clock, wm, rr, announced>>
  BY DEF CasIndex, env
<1>4. u \in Request /\ HandlerTimes(u, clock, rr[ReceiptOfHandler(u)])
  BY <1>1, <1>2, AfterIndexShape, AfterIndexTimes
<1> HIDE DEF u
<1>5. <<>> \in Seq(Users)
  OBVIOUS
<1>6. t \in Request /\ SameRead(t, s) /\ SameDuty(t, s)
  BY <1>1, <1>5 DEF Request, SameRead, SameDuty
<1>7. \/ v = Nil
      \/ v \in Request /\ v.pc = "getIndex" /\ SameRead(v, t) /\ SameDuty(v, t)
  BY <1>6, RetryDuty, BoundsAssumption DEF Steps
<1> HIDE DEF v, t
<1>8. v # Nil => SameRead(v, s) /\ SameDuty(v, s)
  BY <1>6, <1>7 DEF SameRead, SameDuty
<1>9. v # Nil => HandlerTimes(v, clock, rr[ReceiptOfHandler(v)])
  BY <1>1, <1>2, <1>7, <1>8, IndexTimes
<1> QED
  BY <1>3, <1>4, <1>7, <1>9, TimesLocal

LEMMA PutReceiptTimes ==
  ASSUME Inv, TypeOK', TimesInv, clock <= TTL, NEW q \in Requests, PutReceipt(q)
  PROVE  TimesInv'
<1> DEFINE s == req[q]
           k == ReceiptOfHandler(s)
           u == AfterReceipt(s)
           v == Goto(s, "readStored")
<1>1. s \in Request /\ s.pc = "putReceipt" /\ s # Nil
  BY CurrentHandler DEF PutReceipt, At
<1>2. k \in Users \X Posts /\ HandlerTimes(s, clock, rr[k])
  BY <1>1, TimesHandler
<1>3. /\ 1 <= s.now /\ s.now <= clock /\ s.readAt = s.now /\ s.now \in Nat
  BY <1>1, <1>2 DEF HandlerTimes, BeforeReceipt, Request
<1>4. UNCHANGED <<clock, wm, announced>>
  BY DEF PutReceipt, env, history
<1>5. CASE rr[k] = Nil
  <2>1. Become(q, u) /\ rr' = [rr EXCEPT ![k] = s.now]
    BY <1>5 DEF PutReceipt, Swaps, ReceiptOfHandler
  <2>2. /\ u \in Request /\ u.pc = "getCurrent" /\ SameRead(u, s)
        /\ u.now = s.now /\ u.readAt = s.readAt
    BY <1>1 DEF AfterReceipt, Request, Steps, SameRead
  <2> HIDE DEF u
  <2>3. ReceiptOfHandler(u) = k
    BY <2>2 DEF SameRead, ReceiptOfHandler
  <2> HIDE DEF k
  <2>4. rr'[k] = s.now /\ \A x \in Users \X Posts : x # k => rr'[x] = rr[x]
    BY <1>2, <2>1 DEF Inv, TypeOK
  <2>5. HandlerTimes(u, clock, rr'[ReceiptOfHandler(u)])
    BY <1>3, <2>2, <2>3, <2>4 DEF HandlerTimes, BeforeReceipt
  <2>6. ReceiptsStay
    BY <1>5, <2>4 DEF ReceiptsStay
  <2>7. \A x \in Users \X Posts : rr'[x] # Nil => 1 <= rr'[x] /\ rr'[x] <= clock
    BY <1>3, <2>4 DEF TimesInv
  <2> QED
    BY <1>4, <2>1, <2>2, <2>5, <2>6, <2>7, TimesStep
<1>6. CASE rr[k] # Nil
  <2>1. Become(q, v) /\ UNCHANGED rr
    BY <1>6 DEF PutReceipt, Swaps, ReceiptOfHandler
  <2>2. /\ v \in Request /\ v.pc = "readStored" /\ SameRead(v, s) /\ SameDuty(v, s)
    BY <1>1, GotoType, GotoShape, GotoDuty DEF Steps
  <2> HIDE DEF v
  <2>3. ReceiptOfHandler(v) = k
    BY <2>2 DEF SameRead, ReceiptOfHandler
  <2>4. HandlerTimes(v, clock, rr[ReceiptOfHandler(v)])
    BY <1>3, <1>6, <2>2, <2>3 DEF HandlerTimes, BeforeReceipt, KnowsReceipt, SameDuty
  <2> QED
    BY <1>4, <2>1, <2>2, <2>4, TimesLocal
<1> QED
  BY <1>5, <1>6

(* A handler past the receipt goes on with the receipt's time. *)
LEMMA TimesGoOn ==
  ASSUME Inv, TypeOK', TimesInv, clock <= TTL, UNCHANGED <<clock, wm, rr, announced>>,
         NEW q \in Requests, NEW t \in Request \cup {Nil}, Become(q, t),
         req[q] # Nil,
         t # Nil => /\ SameRead(t, req[q]) /\ t.now = req[q].now
                    /\ ~BeforeReceipt(t) /\ t.pc # "readStored"
                    /\ KnowsReceipt(t) => t.readAt = rr[ReceiptOfHandler(req[q])]
  PROVE  TimesInv'
<1> DEFINE s == req[q]
<1>1. HandlerTimes(s, clock, rr[ReceiptOfHandler(s)])
  BY TimesHandler
<1>2. t # Nil => ReceiptOfHandler(t) = ReceiptOfHandler(s)
  BY DEF SameRead, ReceiptOfHandler
<1>3. t # Nil => HandlerTimes(t, clock, rr[ReceiptOfHandler(t)])
  BY <1>1, <1>2, TimesMoves
<1> QED
  BY <1>3, TimesLocal

LEMMA ReadStoredTimes ==
  ASSUME Inv, TypeOK', TimesInv, clock <= TTL, NEW q \in Requests, ReadStored(q)
  PROVE  TimesInv'
<1> DEFINE s == req[q]
           k == ReceiptOfHandler(s)
           at == StoredTime(rr[<<s.reader, s.post>>], s.readAt)
           c == IF AlreadyRead(s) THEN "respond" ELSE "getCurrent"
           t == [s EXCEPT !.readAt = at, !.pc = c]
<1>1. s \in Request /\ s.pc = "readStored" /\ s # Nil
  BY CurrentHandler DEF ReadStored, At
<1>2. at \in Nat /\ c \in Steps
  BY <1>1 DEF StoredTime, Request, Inv, TypeOK, Steps
<1>3. Become(q, t) /\ UNCHANGED <<clock, wm, rr, announced>>
  BY DEF ReadStored, store, env, history
<1>4. ~AlreadyRead(s) => rr[k] # Nil
  BY <1>1, TimesHandler DEF HandlerTimes
<1>5. ~AlreadyRead(s) => at = rr[k]
  BY <1>4 DEF StoredTime, ReceiptOfHandler
<1> HIDE DEF at, c
<1>6. /\ t \in Request /\ t.pc = c /\ SameRead(t, s) /\ t.now = s.now /\ t.readAt = at
  BY <1>1, <1>2 DEF Request, SameRead
<1> HIDE DEF t, k
<1>7. /\ ~BeforeReceipt(t) /\ t.pc # "readStored"
      /\ KnowsReceipt(t) => ~AlreadyRead(s)
  BY <1>6 DEF BeforeReceipt, KnowsReceipt, c
<1> QED
  BY <1>1, <1>3, <1>5, <1>6, <1>7, TimesGoOn DEF k

LEMMA GetCurrentTimes ==
  ASSUME Inv, TypeOK', TimesInv, clock <= TTL, NEW q \in Requests, GetCurrent(q)
  PROVE  TimesInv'
<1> DEFINE s == req[q]
           w == wm[s.reader]
           u == AfterAdvance(s)
           t == [s EXCEPT !.pc = "casWatermark", !.current = w]
<1>1. /\ s \in Request /\ s.pc = "getCurrent" /\ s # Nil
      /\ w \in Watermark \cup {Nil}
  BY CurrentHandler DEF GetCurrent, At
<1>2. s.readAt = rr[ReceiptOfHandler(s)]
  BY <1>1, TimesHandler DEF HandlerTimes, KnowsReceipt
<1>3. UNCHANGED <<clock, wm, rr, announced>> /\ (Become(q, u) \/ Become(q, t))
  BY DEF GetCurrent, store, env, history
<1>4. /\ u \in Request /\ SameRead(u, s) /\ SameDuty(u, s)
      /\ u.pc \in {"publishReceipt", "publishChanged", "respond"}
  BY <1>1, AfterAdvanceShape, AfterAdvanceDuty
<1> HIDE DEF u, w
<1>5. /\ t \in Request /\ t.pc = "casWatermark" /\ SameRead(t, s) /\ SameDuty(t, s)
  BY <1>1 DEF Request, Steps, SameRead, SameDuty
<1> HIDE DEF t
<1>6. /\ ~BeforeReceipt(u) /\ u.pc # "readStored" /\ u.readAt = s.readAt /\ u.now = s.now
      /\ ~BeforeReceipt(t) /\ t.pc # "readStored" /\ t.readAt = s.readAt /\ t.now = s.now
  BY <1>4, <1>5 DEF BeforeReceipt, SameDuty
<1> QED
  BY <1>1, <1>2, <1>3, <1>4, <1>5, <1>6, TimesGoOn

(* The watermark gets the receipt's time. *)
LEMMA CasWatermarkTimes ==
  ASSUME Inv, TypeOK', TimesInv, clock <= TTL, NEW q \in Requests, CasWatermark(q)
  PROVE  TimesInv'
<1> DEFINE s == req[q]
           r == s.reader
           k == ReceiptOfHandler(s)
           t == [s EXCEPT !.current = Nil]
           t2 == [t EXCEPT !.advanced = TRUE]
           u == AfterAdvance(t2)
           e == AfterError(t)
           v == Retry(t, "getCurrent", MaxWatermarkCASRetries, e)
<1>1. s \in Request /\ r \in Users /\ s.pc = "casWatermark" /\ s # Nil
  BY CurrentHandler DEF CasWatermark, At
<1>2. s.readAt = rr[k] /\ HandlerTimes(s, clock, rr[k])
  BY <1>1, TimesHandler DEF HandlerTimes, KnowsReceipt
<1>3. t \in Request /\ SameRead(t, s) /\ SameDuty(t, s)
  BY <1>1 DEF Request, SameRead, SameDuty
<1>4. UNCHANGED <<clock, rr, announced>>
  BY DEF CasWatermark, env
<1>5. CASE Swaps(wm[r], s.current)
  <2> DEFINE new == WatermarkOf(s.post, s.readAt)
  <2>1. wm' = [wm EXCEPT ![r] = new]
    BY <1>5, CasWatermarkGrows
  <2>2. Become(q, u)
    BY <1>3, <1>5 DEF CasWatermark, SameRead
  <2>3. t2 \in Request /\ SameRead(t2, s) /\ t2.now = s.now /\ t2.readAt = s.readAt
    BY <1>3 DEF Request, SameRead, SameDuty
  <2> HIDE DEF t2, t
  <2>4. /\ u \in Request /\ SameRead(u, t2) /\ SameDuty(u, t2)
        /\ u.pc \in {"publishReceipt", "publishChanged", "respond"}
    BY <2>3, AfterAdvanceShape, AfterAdvanceDuty
  <2> HIDE DEF u
  <2>5. ReceiptOfHandler(u) = k
    BY <2>3, <2>4 DEF SameRead, ReceiptOfHandler
  <2>6. HandlerTimes(u, clock, rr'[ReceiptOfHandler(u)])
    BY <1>2, <1>4, <2>3, <2>4, <2>5
       DEF HandlerTimes, BeforeReceipt, KnowsReceipt, SameDuty
  <2>7. WatermarkTimed(new, r, rr)
    BY <1>2 DEF WatermarkTimed, WatermarkOf, ReceiptOfHandler
  <2> HIDE DEF new
  <2>8. \A o \in Users : wm'[o] = wm[o] \/ WatermarkTimed(wm'[o], o, rr')
    BY <1>1, <1>4, <2>1, <2>7 DEF Inv, TypeOK
  <2>9. ReceiptsStay
    BY <1>4 DEF ReceiptsStay
  <2>10. \A x \in Users \X Posts : rr'[x] # Nil => 1 <= rr'[x] /\ rr'[x] <= clock
    BY <1>4 DEF TimesInv
  <2> QED
    BY <1>4, <2>2, <2>4, <2>6, <2>8, <2>9, <2>10, TimesStep
<1>6. CASE ~Swaps(wm[r], s.current)
  <2>1. Become(q, v) /\ UNCHANGED wm
    BY <1>3, <1>6 DEF CasWatermark, SameRead
  <2>2. e # Nil => /\ e \in Request /\ e.pc = "publishChanged"
                   /\ SameRead(e, t) /\ SameDuty(e, t)
    BY <1>3, AfterErrorShape, AfterErrorDuty
  <2> HIDE DEF e
  <2>3. \/ v = e
        \/ /\ v \in Request /\ v.pc = "getCurrent" /\ SameRead(v, t)
           /\ SameDuty(v, t)
    BY <1>3, RetryDuty, BoundsAssumption DEF Steps
  <2> HIDE DEF v, t
  <2>4. v # Nil => /\ v \in Request /\ SameRead(v, s) /\ SameDuty(v, s)
                   /\ v.pc \in {"publishChanged", "getCurrent"}
    BY <1>3, <2>2, <2>3 DEF SameRead, SameDuty
  <2>5. v # Nil => /\ SameRead(v, s) /\ v.now = s.now /\ v.readAt = rr[k]
                   /\ ~BeforeReceipt(v) /\ v.pc # "readStored"
    BY <1>2, <2>4 DEF BeforeReceipt, SameDuty
  <2> QED
    BY <1>1, <1>4, <2>1, <2>4, <2>5, TimesGoOn
<1> QED
  BY <1>5, <1>6

(* The event carries the receipt's time. *)
LEMMA PublishReceiptTimes ==
  ASSUME Inv, TypeOK', TimesInv, clock <= TTL, NEW q \in Requests, PublishReceipt(q)
  PROVE  TimesInv'
<1> DEFINE s == req[q]
           k == ReceiptOfHandler(s)
           u == AfterPublish(s)
<1>1. s \in Request /\ s.pc = "publishReceipt" /\ s # Nil
  BY CurrentHandler DEF PublishReceipt, At
<1>2. s.readAt = rr[k] /\ HandlerTimes(s, clock, rr[k])
  BY <1>1, TimesHandler DEF HandlerTimes, KnowsReceipt
<1>3. /\ Become(q, u) /\ UNCHANGED <<clock, wm, rr>>
      /\ announced' = announced \cup {ReceiptOf(s)}
  BY DEF PublishReceipt, store, env
<1>4. u \in Request /\ SameRead(u, s) /\ SameDuty(u, s)
      /\ u.pc \in {"publishChanged", "respond"}
  BY <1>1, AfterPublishShape, AfterPublishDuty
<1> HIDE DEF u
<1>5. HandlerTimes(u, clock, rr'[ReceiptOfHandler(u)])
  <2>1. ReceiptOfHandler(u) = k
    BY <1>4 DEF SameRead, ReceiptOfHandler
  <2> QED
    BY <1>2, <1>3, <1>4, <2>1 DEF HandlerTimes, BeforeReceipt, KnowsReceipt, SameDuty
<1>6. rr'[<<ReceiptOf(s).reader, ReceiptOf(s).post>>] = ReceiptOf(s).readAt
  BY <1>2, <1>3 DEF ReceiptOf, ReceiptOfHandler
<1>7. \A e \in announced' : e \in announced \/ rr'[<<e.reader, e.post>>] = e.readAt
  BY <1>3, <1>6
<1>8. ReceiptsStay
  BY <1>3 DEF ReceiptsStay
<1>9. \A x \in Users \X Posts : rr'[x] # Nil => 1 <= rr'[x] /\ rr'[x] <= clock
  BY <1>3 DEF TimesInv
<1> QED
  BY <1>3, <1>4, <1>5, <1>7, <1>8, <1>9, TimesStep

LEMMA PublishChangedTimes ==
  ASSUME Inv, TypeOK', TimesInv, clock <= TTL, NEW q \in Requests, PublishChanged(q)
  PROVE  TimesInv'
<1> DEFINE s == req[q]
           c == IF AlreadyRead(s) THEN "readStored" ELSE "respond"
           g == Goto(s, c)
           t == IF s.failed THEN Nil ELSE g
<1>1. s \in Request /\ s # Nil /\ c \in Steps
  BY CurrentHandler DEF PublishChanged, At, Steps
<1>2. HandlerTimes(s, clock, rr[ReceiptOfHandler(s)])
  BY <1>1, TimesHandler
<1>3. g \in Request /\ g.pc = c /\ SameRead(g, s) /\ SameDuty(g, s)
  BY <1>1, GotoType, GotoShape, GotoDuty
<1>4. Become(q, t) /\ UNCHANGED <<clock, wm, rr, announced>>
  BY DEF PublishChanged, store, env
<1> HIDE DEF g
<1>5. ReceiptOfHandler(g) = ReceiptOfHandler(s) /\ (AlreadyRead(g) <=> AlreadyRead(s))
  BY <1>3 DEF SameRead, ReceiptOfHandler, AlreadyRead
<1>6. HandlerTimes(g, clock, rr[ReceiptOfHandler(g)])
  BY <1>2, <1>3, <1>5 DEF HandlerTimes, BeforeReceipt, KnowsReceipt, SameDuty
<1> QED
  BY <1>3, <1>4, <1>6, TimesLocal

LEMMA RespondTimes ==
  ASSUME Inv, TypeOK', TimesInv, clock <= TTL, NEW q \in Requests, Respond(q)
  PROVE  TimesInv'
<1>1. Become(q, Nil) /\ UNCHANGED <<clock, wm, rr, announced>>
  BY DEF Respond, store, env
<1> QED
  BY <1>1, TimesLocal

(* A failing call, other than the one whose error the handler drops.       *)
LEMMA KVErrorTimes ==
  ASSUME "lookup" \notin Faults, Inv, TypeOK', TimesInv, clock <= TTL,
         NEW q \in Requests, KVError(q)
  PROVE  TimesInv'
<1> DEFINE s == req[q]
           t == [s EXCEPT !.current = Nil]
           e == AfterError(t)
<1>1. s \in Request /\ s # Nil
  BY CurrentHandler DEF KVError
<1>2. UNCHANGED <<clock, wm, rr, announced>> /\ (Become(q, Nil) \/ Become(q, e))
  BY DEF KVError, store, env, history
<1>3. HandlerTimes(s, clock, rr[ReceiptOfHandler(s)])
  BY <1>1, TimesHandler
<1>4. t \in Request /\ SameRead(t, s) /\ SameDuty(t, s)
  BY <1>1 DEF Request, SameRead, SameDuty
<1> HIDE DEF t
<1>5. e # Nil => /\ e \in Request /\ e.pc = "publishChanged"
                 /\ SameRead(e, t) /\ SameDuty(e, t)
  BY <1>4, AfterErrorShape, AfterErrorDuty
<1> HIDE DEF e
<1>6. e # Nil => /\ SameRead(e, s) /\ e.now = s.now
                 /\ ReceiptOfHandler(e) = ReceiptOfHandler(s)
  BY <1>4, <1>5 DEF SameRead, SameDuty, ReceiptOfHandler
<1>7. e # Nil => HandlerTimes(e, clock, rr[ReceiptOfHandler(e)])
  BY <1>3, <1>5, <1>6, TimesMoves DEF BeforeReceipt, KnowsReceipt
<1> QED
  BY <1>2, <1>5, <1>7, TimesLocal

LEMMA CrashTimes ==
  ASSUME Inv, TypeOK', TimesInv, clock <= TTL, NEW q \in Requests, Crash(q)
  PROVE  TimesInv'
<1>1. Become(q, Nil) /\ UNCHANGED <<clock, wm, rr, announced>>
  BY DEF Crash, store, env, history
<1> QED
  BY <1>1, TimesLocal

(* The first receipt is still there. *)
LEMMA ExpireTimes ==
  ASSUME Inv, TimesInv, clock <= TTL, NEW k \in Users \X Posts, Expire(k)
  PROVE  FALSE
<1>1. rr[k] # Nil /\ clock >= rr[k] + TTL
  BY DEF Expire
<1>2. rr[k] \in Nat /\ 1 <= rr[k] /\ clock \in Nat
  BY <1>1 DEF TimesInv, Inv, TypeOK
<1> QED
  BY <1>1, <1>2, BoundsAssumption

LEMMA TickTimes ==
  ASSUME Inv, TimesInv, clock' <= TTL, Tick
  PROVE  TimesInv'
<1>1. /\ clock' = clock + 1 /\ UNCHANGED <<wm, rr, req, announced>>
      /\ clock \in Nat
  BY DEF Tick, store, history, Inv, TypeOK
<1>2. clock <= TTL
  BY <1>1, BoundsAssumption
<1>3. 1 <= clock'
  BY <1>1, <1>2 DEF TimesInv
<1>4. ASSUME NEW k \in Users \X Posts, rr[k] # Nil
      PROVE  1 <= rr[k] /\ rr[k] <= clock'
  <2>1. rr[k] \in Nat /\ 1 <= rr[k] /\ rr[k] <= clock
    BY <1>2, <1>4 DEF TimesInv, Inv, TypeOK
  <2> QED
    BY <1>1, <2>1
<1>5. ASSUME NEW q \in Requests, req[q] # Nil
      PROVE  HandlerTimes(req[q], clock', rr[ReceiptOfHandler(req[q])])
  <2>1. HandlerTimes(req[q], clock, rr[ReceiptOfHandler(req[q])])
    BY <1>2, <1>5, TimesHandler
  <2>2. req[q].now \in Nat
    BY <1>5, CurrentHandler DEF Request
  <2> QED
    BY <1>1, <2>1, <2>2 DEF HandlerTimes
<1> QED
  BY <1>1, <1>2, <1>3, <1>4, <1>5 DEF TimesInv

LEMMA StepTimes ==
  ASSUME "lookup" \notin Faults
  PROVE  Inv /\ TimesInv /\ [Next]_vars => TimesInv'
<1> SUFFICES ASSUME Inv, TimesInv, [Next]_vars PROVE TimesInv'
  OBVIOUS
<1> SUFFICES ASSUME clock' <= TTL PROVE TimesInv'
  BY DEF TimesInv
<1>1. TypeOK'
  BY StepType DEF Inv
<1>2. CASE Tick
  BY <1>2, TickTimes
<1>3. CASE UNCHANGED <<wm, rr, clock, req, announced>>
  BY <1>3 DEF TimesInv
<1>4. CASE UNCHANGED clock
  <2>1. clock <= TTL
    BY <1>4
  <2>2. ASSUME NEW q \in Requests, NEW r \in Users, NEW p \in Posts,
               HandleRead(q, r, p)
        PROVE  TimesInv'
    BY <1>1, <2>1, <2>2, HandleReadTimes
  <2>3. ASSUME NEW q \in Requests, HandlerStep(q) PROVE TimesInv'
    BY <1>1, <2>1, <2>3, GetWatermarkTimes, GetIndexTimes, PruneIndexTimes,
       CasIndexTimes, PutReceiptTimes, ReadStoredTimes, GetCurrentTimes,
       CasWatermarkTimes, PublishReceiptTimes, PublishChangedTimes, RespondTimes
       DEF HandlerStep
  <2>4. CASE Environment
    BY <1>1, <1>2, <1>3, <2>1, <2>4, KVErrorTimes, CrashTimes, ExpireTimes
       DEF Environment, Leave, Join, SetEnabled, store, history
  <2>5. CASE UNCHANGED vars
    BY <1>3, <2>5 DEF vars, store, env, history
  <2> QED
    BY <2>2, <2>3, <2>4, <2>5 DEF Next
<1>5. Tick \/ UNCHANGED clock
  BY DEF Next, HandleRead, HandlerStep, Environment, GetWatermark, GetIndex,
         PruneIndex, CasIndex, PutReceipt, ReadStored, GetCurrent, CasWatermark,
         PublishReceipt, PublishChanged, Respond, KVError, Crash, Leave, Join,
         SetEnabled, Expire, vars, env
<1> QED
  BY <1>2, <1>4, <1>5

LEMMA TimesInvariance ==
  ASSUME "lookup" \notin Faults
  PROVE  Spec => []TimesInv
<1>1. Inv /\ TimesInv /\ [Next]_vars => TimesInv'
  BY StepTimes
<1> QED
  BY <1>1, InitTimes, Invariance, PTL DEF Spec

(* As long as getReceipt does not fail, a watermark never claims a later   *)
(* time for a post than the receipt that is stored for it, whatever        *)
(* retries, crashes and other failing calls came between the two writes.   *)
THEOREM FirstTimeIsKept ==
  ASSUME "lookup" \notin Faults
  PROVE  Spec => []WatermarkKeepsFirstTime
<1>1. Inv /\ TimesInv => WatermarkKeepsFirstTime
  <2> SUFFICES ASSUME Inv, TimesInv, clock <= TTL, NEW r \in Users, NEW p \in Posts,
                      wm[r] # Nil, wm[r].post = p, rr[<<r, p>>] # Nil
               PROVE  wm[r].readAt <= rr[<<r, p>>]
    BY DEF WatermarkKeepsFirstTime
  <2>1. <<r, p>> \in Users \X Posts
    OBVIOUS
  <2>2. rr[<<r, p>>] \in Nat /\ 1 <= rr[<<r, p>>]
    BY <2>1 DEF TimesInv, Inv, TypeOK
  <2>3. wm[r].readAt = 0 \/ wm[r].readAt = rr[<<r, p>>]
    BY DEF TimesInv, WatermarkTimed
  <2> QED
    BY <2>2, <2>3
<1> QED
  BY <1>1, TimesInvariance, Invariance, PTL

(* As long as getReceipt does not fail, all events about one reader and    *)
(* post carry the time of the one receipt, in whichever order concurrent   *)
(* requests wrote and announced it.                                        *)
THEOREM AnnouncedTimesNeverDiffer ==
  ASSUME "lookup" \notin Faults
  PROVE  Spec => []AnnouncedTimesAgree
<1>1. TimesInv => AnnouncedTimesAgree
  BY DEF TimesInv, AnnouncedTimesAgree
<1> QED
  BY <1>1, TimesInvariance, PTL
=============================================================================
