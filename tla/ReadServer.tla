------------------------------ MODULE ReadServer ------------------------------
(***************************************************************************)
(* POST /api/v1/read of the plugin's server, for one channel: the handlers *)
(* of several requests run concurrently, in one or in several plugin       *)
(* processes, over the shared key-value store.  Everything a handler does  *)
(* between two calls of the Mattermost API is local to it, so one action   *)
(* is one API call with the computation that follows it.  Every key the    *)
(* server uses is prefixed with the channel, so channels do not interact.  *)
(***************************************************************************)
EXTENDS Integers, Sequences, Functions

CONSTANTS
  Users,                   \* accounts
  Posts,                   \* posts of the channel
  Requests,                \* handler slots, each reused once its request ended
  Nil,                     \* absent key; free slot
  Author,                  \* Author[p]: the user who wrote p
  CreateAt,                \* CreateAt[p]: creation time of p, ties allowed
  LegacyReaders,           \* users who may hold a watermark of version 0.1
  MaxIndexReaders,         \* maxIndexReaders (1000 in the code)
  MaxIndexCASRetries,      \* maxIndexCASRetries (64)
  MaxWatermarkCASRetries,  \* maxWatermarkCASRetries (5)
  TTL,                     \* retentionSeconds(), in clock ticks
  MaxClock,                \* bound of this model on the clock
  Faults                   \* environment actions that may happen, see below

FaultKinds == {"kv", "lookup", "crash", "leave", "join", "config"}

ASSUME UsersAssumption ==
  /\ Nil \notin Users
  /\ LegacyReaders \subseteq Users
  /\ Author \in [Posts -> Users]
ASSUME PostsAssumption == Nil \notin Posts
ASSUME CreateAtAssumption == CreateAt \in [Posts -> Nat \ {0}]
ASSUME BoundsAssumption ==
  /\ MaxIndexReaders \in Nat \ {0}
  /\ MaxIndexCASRetries \in Nat \ {0}
  /\ MaxWatermarkCASRetries \in Nat \ {0}
  /\ TTL \in Nat \ (0..2)  \* a receipt outlives the requests that overlap it
  /\ MaxClock \in Nat \ {0}
ASSUME FaultsAssumption == Faults \subseteq FaultKinds

(***************************************************************************)
(* The type Watermark.  Version 0.1 wrote the same records, its read time  *)
(* precedes every request of this model, whose clock starts at 1.          *)
(***************************************************************************)
Watermark == [post : Posts, createAt : Nat, readAt : Nat]

Steps == {"getWatermark", "getIndex", "pruneIndex", "casIndex", "putReceipt",
          "readStored", "getCurrent", "casWatermark", "publishReceipt",
          "publishChanged", "respond"}

Request ==
  [ pc        : Steps,
    reader    : Users,
    post      : Posts,
    now       : Nat,                  \* p.now(), when markAsRead starts
    seen      : Watermark \cup {Nil}, \* wm, read by markAsRead
    oldIndex  : Seq(Users),           \* raw, the CAS's OldValue
    newIndex  : Seq(Users),           \* data, the value the CAS writes
    current   : Watermark \cup {Nil}, \* raw, in advanceWatermark
    attempt   : Nat,                  \* of the CAS loop the handler is in
    legacy    : BOOLEAN,              \* legacyAggregateChanged
    written   : BOOLEAN,
    advanced  : BOOLEAN,
    failed    : BOOLEAN,              \* the response will be an error
    readAt    : Nat,                  \* receipt.ReadAt
    absent    : SUBSET Users,         \* history: found gone by currentMembers
    late      : BOOLEAN ]             \* history: p was covered at the start

ASSUME NilAssumption ==
  /\ Nil \notin Nat
  /\ Nil \notin Watermark
  /\ Nil \notin Request

VARIABLES
  wm,         \* wm_<channel>_<reader>, no TTL
  rr,         \* rr_<channel>_<post>_<reader>, the read time
  idx,        \* idx_<channel>; the code never stores an empty list: <<>> = absent
  members,    \* channel members (Mattermost's, not the plugin's)
  enabled,    \* channelTypeEnabled for this channel's type
  clock,
  req,        \* handlers under way
  answered,   \* history: 200 responses
  announced,  \* history: receipt events sent to authors
  stale       \* history: coverage grew since the last receipts_changed event

store   == <<wm, rr, idx>>
env     == <<members, enabled, clock>>
history == <<answered, announced, stale>>
vars    == <<store, env, req, history>>

Receipt == [reader : Users, post : Posts, readAt : Nat]

TypeOK ==
  /\ wm \in [Users -> Watermark \cup {Nil}]
  /\ rr \in [Users \X Posts -> Nat \cup {Nil}]
  /\ idx \in Seq(Users)
  /\ members \in SUBSET Users
  /\ enabled \in BOOLEAN
  /\ clock \in Nat
  /\ req \in [Requests -> Request \cup {Nil}]
  /\ answered \in SUBSET Receipt
  /\ announced \in SUBSET Receipt
  /\ stale \in BOOLEAN

-----------------------------------------------------------------------------
(* A watermark covers every post created no later than its own. *)
Covers(w, p) == w # Nil /\ CreateAt[p] <= w.createAt

WatermarkOf(p, t) == [post |-> p, createAt |-> CreateAt[p], readAt |-> t]

(* Handler q is about to make API call c. *)
At(q, c) == req[q] # Nil /\ req[q].pc = c

Become(q, s) == req' = [req EXCEPT ![q] = s]
Goto(s, c)   == [s EXCEPT !.pc = c]

(***************************************************************************)
(* KVSetWithOptions with Atomic: the write happens iff the stored value    *)
(* equals OldValue.  It compares values, not versions, and an OldValue of  *)
(* nil means that the key is absent.                                       *)
(***************************************************************************)
SwapsBlindly(stored, oldValue) == TRUE
Swaps(stored, oldValue) == stored = oldValue

(* The post was read earlier, as far as this request's first look tells. *)
AlreadyReadStrictly(s) == s.seen # Nil /\ CreateAt[s.post] < s.seen.createAt
AlreadyRead(s) == Covers(s.seen, s.post)

(* The stored time if there is one, else the time at hand. *)
StoredTimeUnchecked(stored, readAt) == stored
StoredTimeIgnored(stored, readAt) == readAt
StoredTime(stored, readAt) == IF stored # Nil THEN stored ELSE readAt

IndexFullLate(readers) == Len(readers) > MaxIndexReaders
IndexFull(readers) == Len(readers) >= MaxIndexReaders

(***************************************************************************)
(* Every terminal path after the index step goes through here: an error    *)
(* still publishes legacy coverage, a success also its own advance.        *)
(***************************************************************************)
AfterErrorSilent(s) == Nil
AfterError(s) ==
  IF s.legacy THEN [s EXCEPT !.pc = "publishChanged", !.failed = TRUE] ELSE Nil

AfterPublishLegacyOnly(s) ==
  Goto(s, IF s.legacy THEN "publishChanged" ELSE "respond")
AfterPublish(s) ==
  Goto(s, IF s.legacy \/ s.advanced THEN "publishChanged" ELSE "respond")

AfterAdvance(s) ==
  LET t == [s EXCEPT !.attempt = 0]
  IN  IF t.written \/ t.advanced THEN Goto(t, "publishReceipt")
                                 ELSE AfterPublish(t)

(* The receipt was new: the watermark comes next, the event after it. *)
AfterReceiptEagerly(s) == [s EXCEPT !.pc = "publishReceipt", !.written = TRUE]
AfterReceipt(s) == [s EXCEPT !.pc = "getCurrent", !.written = TRUE]

(* ensureReaderIndexed has returned; indexed tells whether it appended. *)
AfterIndex(s, indexed) ==
  LET t == [s EXCEPT !.legacy = indexed /\ s.seen # Nil,
                     !.oldIndex = <<>>, !.newIndex = <<>>, !.attempt = 0,
                     !.absent = {}]
  IN  IF AlreadyRead(s)
      THEN [t EXCEPT !.readAt = s.seen.readAt,
                     !.pc = IF t.legacy THEN "publishChanged" ELSE "readStored"]
      ELSE Goto(t, "putReceipt")

(* The index stays full after pruning: tolerated, the reader is left out. *)
AfterFullIndexSpin(s) == [s EXCEPT !.pc = "getIndex", !.oldIndex = <<>>]
AfterFullIndex(s) == AfterIndex(s, FALSE)

(* A lost CAS is retried until the loop's bound, then the request fails. *)
RetryThenAnswer(s, c, bound, giveUp) ==
  IF s.attempt + 1 < bound THEN [s EXCEPT !.pc = c, !.attempt = @ + 1]
                           ELSE Goto(s, "respond")
Retry(s, c, bound, giveUp) ==
  IF s.attempt + 1 < bound THEN [s EXCEPT !.pc = c, !.attempt = @ + 1]
                           ELSE giveUp

(***************************************************************************)
(* pruneReaderIndex keeps the readers in present, in order.  readers has   *)
(* no duplicates, so this determines kept.                                 *)
(***************************************************************************)
IsPruned(kept, readers, present) ==
  /\ Range(kept) = Range(readers) \cap present
  /\ \A i, j \in DOMAIN kept : i < j =>
       \E m, n \in DOMAIN readers :
         m < n /\ kept[i] = readers[m] /\ kept[j] = readers[n]

-----------------------------------------------------------------------------
Init ==
  /\ \E legacy \in [Users -> {Nil} \cup {WatermarkOf(p, 0) : p \in Posts}] :
       /\ \A r \in Users : legacy[r] # Nil =>
            r \in LegacyReaders /\ Author[legacy[r].post] # r
       /\ wm = legacy
  /\ rr = [x \in Users \X Posts |-> Nil]
  /\ idx = <<>>
  /\ members = Users
  /\ enabled = TRUE
  /\ clock = 1
  /\ req = [q \in Requests |-> Nil]
  /\ answered = {} /\ announced = {} /\ stale = FALSE

(***************************************************************************)
(* handleRead accepts a request: validateReadRequest passes, markAsRead    *)
(* takes the time.  A rejected request changes nothing and is no action.   *)
(***************************************************************************)
CanRead(r, p) == enabled /\ r \in members /\ r # Author[p]

NewRequest(r, p) ==
  [ pc |-> "getWatermark", reader |-> r, post |-> p, now |-> clock,
    seen |-> Nil, oldIndex |-> <<>>, newIndex |-> <<>>, current |-> Nil,
    attempt |-> 0, legacy |-> FALSE, written |-> FALSE, advanced |-> FALSE,
    failed |-> FALSE, readAt |-> clock, absent |-> {},
    late |-> Covers(wm[r], p) ]

HandleRead(q, r, p) ==
  /\ req[q] = Nil
  /\ CanRead(r, p)
  /\ Become(q, NewRequest(r, p))
  /\ UNCHANGED <<store, env, history>>

GetWatermark(q) ==
  /\ At(q, "getWatermark")
  /\ Become(q, [req[q] EXCEPT !.pc = "getIndex", !.seen = wm[req[q].reader]])
  /\ UNCHANGED <<store, env, history>>

(* One turn of ensureReaderIndexed's loop, up to its next API call. *)
GetIndex(q) ==
  /\ At(q, "getIndex")
  /\ LET s == req[q] IN
       Become(q,
         IF s.reader \in Range(idx) THEN AfterIndex(s, FALSE)
         ELSE IF IndexFull(idx)
              THEN [s EXCEPT !.pc = "pruneIndex", !.oldIndex = idx]
              ELSE [s EXCEPT !.pc = "casIndex", !.oldIndex = idx,
                             !.newIndex = Append(idx, s.reader)])
  /\ UNCHANGED <<store, env, history>>

(* pruneReaderIndex's membership lookup. *)
PruneIndex(q) ==
  /\ At(q, "pruneIndex")
  /\ LET s == req[q] IN
       \E kept \in UNION {[1..n -> members] : n \in 0..Len(s.oldIndex)} :
         /\ IsPruned(kept, s.oldIndex, members)
         /\ Become(q, IF IndexFull(kept)
                      THEN AfterFullIndex(s)
                      ELSE [s EXCEPT !.pc = "casIndex",
                                     !.newIndex = Append(kept, s.reader),
                                     !.absent = Range(s.oldIndex) \ members])
  /\ UNCHANGED <<store, env, history>>

(* Adding a reader who has a watermark exposes it to queries. *)
CasIndex(q) ==
  /\ At(q, "casIndex")
  /\ LET s == req[q] IN
       IF Swaps(idx, s.oldIndex)
       THEN /\ idx' = s.newIndex
            /\ stale' = (stale \/ wm[s.reader] # Nil)
            /\ Become(q, AfterIndex(s, TRUE))
       ELSE /\ Become(q, Retry([s EXCEPT !.oldIndex = <<>>, !.newIndex = <<>>,
                                         !.absent = {}],
                               "getIndex", MaxIndexCASRetries, Nil))
            /\ UNCHANGED <<idx, stale>>
  /\ UNCHANGED <<wm, rr, env, answered, announced>>

(* setReceiptAtomic: insert if absent, with a TTL. *)
PutReceipt(q) ==
  /\ At(q, "putReceipt")
  /\ LET s == req[q]
         k == <<s.reader, s.post>>
     IN  IF Swaps(rr[k], Nil)
         THEN /\ rr' = [rr EXCEPT ![k] = s.now]
              /\ Become(q, AfterReceipt(s))
         ELSE /\ Become(q, Goto(s, "readStored"))
              /\ UNCHANGED rr
  /\ UNCHANGED <<wm, idx, env, history>>

(* getReceipt, on the covered path and after a receipt that was there. *)
ReadStored(q) ==
  /\ At(q, "readStored")
  /\ LET s == req[q] IN
       Become(q, [s EXCEPT
         !.readAt = StoredTime(rr[<<s.reader, s.post>>], s.readAt),
         !.pc = IF AlreadyRead(s) THEN "respond" ELSE "getCurrent"])
  /\ UNCHANGED <<store, env, history>>

(* One turn of advanceWatermark's loop, up to its CAS. *)
GetCurrent(q) ==
  /\ At(q, "getCurrent")
  /\ LET s == req[q]
         w == wm[s.reader]
     IN  Become(q, IF Covers(w, s.post)
                   THEN AfterAdvance(s)
                   ELSE [s EXCEPT !.pc = "casWatermark", !.current = w])
  /\ UNCHANGED <<store, env, history>>

CasWatermark(q) ==
  /\ At(q, "casWatermark")
  /\ LET s == [req[q] EXCEPT !.current = Nil]
         r == s.reader
     IN  IF Swaps(wm[r], req[q].current)
         THEN /\ wm' = [wm EXCEPT ![r] = WatermarkOf(s.post, s.readAt)]
              /\ stale' = (stale \/ r \in Range(idx))
              /\ Become(q, AfterAdvance([s EXCEPT !.advanced = TRUE]))
         ELSE /\ Become(q, Retry(s, "getCurrent", MaxWatermarkCASRetries,
                                 AfterError(s)))
              /\ UNCHANGED <<wm, stale>>
  /\ UNCHANGED <<rr, idx, env, answered, announced>>

ReceiptOf(s) == [reader |-> s.reader, post |-> s.post, readAt |-> s.readAt]

(* publishReceiptWS, to the post's author. *)
PublishReceipt(q) ==
  /\ At(q, "publishReceipt")
  /\ announced' = announced \cup {ReceiptOf(req[q])}
  /\ Become(q, AfterPublish(req[q]))
  /\ UNCHANGED <<store, env, answered, stale>>

(* publishReceiptsChangedWS, to the channel. *)
PublishChanged(q) ==
  /\ At(q, "publishChanged")
  /\ stale' = FALSE
  /\ LET s == req[q] IN
       Become(q, IF s.failed THEN Nil
                 ELSE Goto(s, IF AlreadyRead(s) THEN "readStored"
                                                ELSE "respond"))
  /\ UNCHANGED <<store, env, answered, announced>>

Respond(q) ==
  /\ At(q, "respond")
  /\ answered' = answered \cup {ReceiptOf(req[q])}
  /\ Become(q, Nil)
  /\ UNCHANGED <<store, env, announced, stale>>

-----------------------------------------------------------------------------
(***************************************************************************)
(* Faults.  "kv": an API call of a handler returns an error, has no effect *)
(* and ends the request.  "lookup": the same of getReceipt, whose error is *)
(* dropped.                                                                *)
(***************************************************************************)
KVError(q) ==
  /\ req[q] # Nil
  /\ LET s == req[q] IN
       \/ /\ "kv" \in Faults
          /\ s.pc \in {"getWatermark", "getIndex", "pruneIndex", "casIndex"}
          /\ Become(q, Nil)
       \/ /\ "kv" \in Faults
          /\ s.pc \in {"putReceipt", "getCurrent", "casWatermark"}
          /\ Become(q, AfterError([s EXCEPT !.current = Nil]))
       \/ /\ "lookup" \in Faults
          /\ s.pc = "readStored"
          /\ Become(q, Goto(s, IF AlreadyRead(s) THEN "respond"
                                                 ELSE "getCurrent"))
  /\ UNCHANGED <<store, env, history>>

(* "crash": the process running q stops, or the plugin is disabled. *)
Crash(q) ==
  /\ "crash" \in Faults
  /\ req[q] # Nil
  /\ Become(q, Nil)
  /\ UNCHANGED <<store, env, history>>

Leave(r) ==
  /\ "leave" \in Faults
  /\ r \in members
  /\ members' = members \ {r}
  /\ UNCHANGED <<store, enabled, clock, req, history>>

Join(r) ==
  /\ "join" \in Faults
  /\ r \in Users \ members
  /\ members' = members \cup {r}
  /\ UNCHANGED <<store, enabled, clock, req, history>>

(* OnConfigurationChange: an administrator edits EnabledChannelTypes. *)
SetEnabled ==
  /\ "config" \in Faults
  /\ enabled' = ~enabled
  /\ UNCHANGED <<store, members, clock, req, history>>

(* The store drops a receipt whose TTL has passed. *)
Expire(k) ==
  /\ rr[k] # Nil
  /\ clock >= rr[k] + TTL
  /\ rr' = [rr EXCEPT ![k] = Nil]
  /\ UNCHANGED <<wm, idx, env, req, history>>

(* A request lasts less than a tick: retention is days, a request seconds. *)
Tick ==
  /\ clock < MaxClock
  /\ \A q \in Requests : req[q] # Nil => req[q].now = clock
  /\ clock' = clock + 1
  /\ UNCHANGED <<store, members, enabled, req, history>>

HandlerStep(q) ==
  \/ GetWatermark(q) \/ GetIndex(q) \/ PruneIndex(q) \/ CasIndex(q)
  \/ PutReceipt(q) \/ ReadStored(q) \/ GetCurrent(q) \/ CasWatermark(q)
  \/ PublishReceipt(q) \/ PublishChanged(q) \/ Respond(q)

Environment ==
  \/ \E q \in Requests : KVError(q) \/ Crash(q)
  \/ \E r \in Users : Leave(r) \/ Join(r)
  \/ \E k \in Users \X Posts : Expire(k)
  \/ SetEnabled
  \/ Tick

Next ==
  \/ \E q \in Requests, r \in Users, p \in Posts : HandleRead(q, r, p)
  \/ \E q \in Requests : HandlerStep(q)
  \/ Environment

Spec == Init /\ [][Next]_vars

(* The runtime schedules every handler; nothing obliges users to read. *)
FairSpec == Spec /\ \A q \in Requests : WF_vars(HandlerStep(q))

-----------------------------------------------------------------------------
(***************************************************************************)
(* Properties                                                              *)
(***************************************************************************)

(* A reader's watermark never disappears and never moves back, whatever    *)
(* concurrent requests of that reader read before it moved                 *)
(* (advanceWatermark's CAS loop).                                          *)
WatermarkMonotone ==
  [][\A r \in Users : wm[r] # Nil =>
       /\ wm'[r] # Nil
       /\ wm'[r] = wm[r] \/ wm'[r].createAt > wm[r].createAt]_vars

(* First write wins: no step replaces a stored receipt; the only way a     *)
(* receipt goes is its expiry (setReceiptAtomic).                          *)
ReceiptWriteOnce ==
  [][\A k \in Users \X Posts : rr[k] # Nil =>
       \/ rr'[k] = rr[k]
       \/ rr'[k] = Nil /\ clock >= rr[k] + TTL]_vars

(* A 200 response is a promise kept: the reader's watermark covers the     *)
(* post, through crashes, lost CASes and later requests.                   *)
AcknowledgedIsCovered ==
  \A a \in answered : Covers(wm[a.reader], a.post)

(* The author is told of a read only after both writes took effect.        *)
AnnouncedIsCovered ==
  \A a \in announced : Covers(wm[a.reader], a.post)

(* The index lists no reader twice and never outgrows its bound, however   *)
(* many first readers race for the last place.                             *)
IndexWellFormed == IsInjective(idx) /\ Len(idx) <= MaxIndexReaders

(* A read of a post that was covered when the request came in changes      *)
(* nothing and announces nothing, even when its receipt has expired.       *)
NoRestamp ==
  \A q \in Requests : req[q] # Nil /\ req[q].late =>
    req[q].pc \notin {"putReceipt", "getCurrent", "casWatermark",
                      "publishReceipt"}

(* When no request is under way, the channel has been told of all coverage *)
(* that queries can see.                                                   *)
NoLostInvalidation == (\A q \in Requests : req[q] = Nil) => ~stale

(* While a post's receipt is still stored, a watermark set by that post    *)
(* does not claim a later read time than the receipt: a retry after a      *)
(* failed watermark write keeps the original time, as long as the retries  *)
(* come before the first receipt expires.                                  *)
WatermarkKeepsFirstTime ==
  clock <= TTL =>
    \A r \in Users, p \in Posts :
      wm[r] # Nil /\ wm[r].post = p /\ rr[<<r, p>>] # Nil =>
        wm[r].readAt <= rr[<<r, p>>]

(* All events about one reader and post carry the same read time, until    *)
(* the first receipt expires (a second handler may still be under way).    *)
AnnouncedTimesAgree ==
  clock <= TTL =>
    \A a, b \in announced :
      a.reader = b.reader /\ a.post = b.post => a.readAt = b.readAt

(* A reader leaves the index only if the pruning request itself has looked *)
(* the members up and found that reader gone: no race of index writers     *)
(* loses anybody (ensureReaderIndexed's CAS, pruneReaderIndex).            *)
PruneOnlyDeparted ==
  [][\A r \in Range(idx) \ Range(idx') :
       \E q \in Requests : At(q, "casIndex") /\ r \in req[q].absent]_vars

(* The handler is about to tell someone that the post is read. *)
Promising(s) ==
  \/ s.pc \in {"publishReceipt", "respond"}
  \/ s.pc = "publishChanged" /\ ~s.failed

(***************************************************************************)
(* The inductive invariant: what is true of a handler s under way whose    *)
(* reader's watermark is w.                                                *)
(***************************************************************************)
HandlerInv(s, w) ==
  (* Nobody reads a post of their own. *)
  /\ s.reader # Author[s.post]
  (* The watermark has not moved back since the handler read it. *)
  /\ s.seen # Nil => w # Nil /\ s.seen.createAt <= w.createAt
  (* A read that came too late to count recognises itself. *)
  /\ s.late => /\ Covers(w, s.post)
               /\ s.pc # "getWatermark" => AlreadyRead(s)
  /\ s.pc \in {"putReceipt", "getCurrent", "casWatermark", "publishReceipt"} =>
       ~AlreadyRead(s)
  (* Whoever is about to tell someone has a watermark to show. *)
  /\ Promising(s) => Covers(w, s.post)
  (* The watermark's CAS can only move it forward. *)
  /\ s.pc = "casWatermark" => ~Covers(s.current, s.post)
  (* The index's CAS adds the reader only, and drops absent ones only. *)
  /\ s.pc = "pruneIndex" => /\ IsInjective(s.oldIndex)
                            /\ s.reader \notin Range(s.oldIndex)
  /\ s.pc = "casIndex" =>
       /\ IsInjective(s.newIndex)
       /\ Len(s.newIndex) <= MaxIndexReaders
       /\ s.reader \notin Range(s.oldIndex)
       /\ s.reader \in Range(s.newIndex)
       /\ Range(s.newIndex) \subseteq Range(s.oldIndex) \cup {s.reader}
       /\ Range(s.oldIndex) \ Range(s.newIndex) \subseteq s.absent

(* A stored watermark is of the reader's own reading of an existing post.  *)
WatermarkWellFormed ==
  \A r \in Users : wm[r] # Nil =>
    /\ wm[r].createAt = CreateAt[wm[r].post]
    /\ Author[wm[r].post] # r

(* Every handler under way satisfies HandlerInv: what it remembers of the  *)
(* store is still true enough for what it will do next.                    *)
HandlersInv ==
  \A q \in Requests : req[q] # Nil =>
    HandlerInv(req[q], wm[req[q].reader])

(***************************************************************************)
(* The handlers implement the ledger: the watermark's post is the reader's *)
(* position, the indexed readers are the visible ones.                     *)
(***************************************************************************)
Pairs(receipts) == {<<e.reader, e.post>> : e \in receipts}

Ledger == INSTANCE ReadLedger WITH
  position <- [r \in Users |-> IF wm[r] = Nil THEN Nil ELSE wm[r].post],
  visible <- Range(idx),
  owed <- stale,
  acknowledged <- Pairs(answered),
  announced <- Pairs(announced)

(* Every step of a handler or of the environment is a step of the ledger   *)
(* or none: in particular coverage changes by one atomic commit, and a     *)
(* reader shown or moved while visible leaves the channel owed an event.   *)
ImplementsLedger == Ledger!Spec

(* Every request ends, however its CASes fare.                             *)
EveryRequestEnds ==
  \A q \in Requests : req[q] # Nil ~> req[q] = Nil

(* Coverage that became visible is announced to the channel.               *)
ChangesAnnounced == stale ~> ~stale
=============================================================================
