------------------------------- MODULE ReadQuery -------------------------------
(***************************************************************************)
(* What the author of a post gets to see: POST /api/v1/receipts/query,     *)
(* which counts the readers of the author's posts, and                     *)
(* POST /api/v1/receipts/post, which lists the readers of one post page by *)
(* page.  Both run beside the handlers of ReadServer, whose every step may *)
(* fall between two API calls of a query: nothing is read atomically.      *)
(***************************************************************************)
EXTENDS ReadServer, FiniteSetsExt

CONSTANTS
  Queries,          \* query slots, each reused once its query ended
  MaxQueryReaders   \* maxQueryReaders (200 in the code)

ASSUME QueryAssumption == MaxQueryReaders \in Nat \ {0}

(* A window over the index: the readers at some of its places. *)
Pages == UNION {[places -> Users] : places \in SUBSET (1..MaxIndexReaders)}

QuerySteps == {"index", "members", "receipt", "watermark", "times", "reply"}

Query ==
  [ pc      : QuerySteps,
    kind    : {"counts", "readers"},
    user    : Users,                \* the requester
    posts   : SUBSET Posts,         \* own: the requested posts of the requester
    offset  : Nat,
    todo    : Pages,                \* readers of the page still to look at
    ids     : SUBSET Users,         \* readerPage.ids
    next    : Nat,                  \* nextOffset; truncated iff it is not 0
    found   : [Posts -> SUBSET Users], \* readers counted or listed
    pending : SUBSET Posts,         \* posts whose exact time is still to be read
    times   : [Posts -> Nat],       \* status.ReadAt, 0 = not given
    sure    : [Posts -> SUBSET Users], \* history: visible since the start
    indexed : SUBSET Users,         \* history: indexed at some moment
    present : SUBSET Users ]        \* history: members at some moment

ASSUME NilQueryAssumption == Nil \notin Query

VARIABLE query

queryVars == <<vars, query>>

QueryTypeOK == TypeOK /\ query \in [Queries -> Query \cup {Nil}]

-----------------------------------------------------------------------------
(* Whom a query by u could report as a reader of p at this moment. *)
VisibleTo ==
  [u \in Users |-> [p \in Posts |->
     {r \in (Range(idx) \cap members) \ {u} : Covers(wm[r], p)}]]

QueryAt(k, c)   == query[k] # Nil /\ query[k].pc = c
Proceed(k, s)   == query' = [query EXCEPT ![k] = s]
Truncated(s)    == s.next # 0

(* channelReaders: the places from offset on (which counts from 0) whose  *)
(* reader is not the requester.                                            *)
Candidates(index, u, offset) ==
  {i \in DOMAIN index : i > offset /\ index[i] # u}

FirstOf(cs) == {i \in cs : Cardinality(cs \cap 1..i) <= MaxQueryReaders}

(* The first place left out, counted from 0. *)
NextOffsetSkipping(leftOut) == IF leftOut = {} THEN 0 ELSE Min(leftOut)
NextOffset(leftOut) == IF leftOut = {} THEN 0 ELSE Min(leftOut) - 1

(* The exact time is served only if the page has a single reader. *)
ExactTimesUncounted(s) == {p \in s.posts : Cardinality(s.ids) = 1}
ExactTimes(s) ==
  {p \in s.posts : Cardinality(s.found[p]) = 1 /\ Cardinality(s.ids) = 1}

(* A receipt that has expired, or was never written, gives no time. *)
TimeUnchecked(stored) == stored
TimeOf(stored) == IF stored # Nil THEN stored ELSE 0

(* currentMembers: who left the channel is not reported. *)
StillMembersOrNot(page) == page
StillMembers(page) == Restrict(page, {i \in DOMAIN page : page[i] \in members})

NoReaders == <<>>

(* The loop over the page's readers goes on, or is over. *)
NextReader(s) ==
  IF s.todo # NoReaders
  THEN [s EXCEPT !.pc = IF s.kind = "counts" THEN "watermark" ELSE "receipt"]
  ELSE IF s.kind = "counts" /\ ExactTimes(s) # {}
       THEN [s EXCEPT !.pc = "times", !.pending = ExactTimes(s)]
       ELSE [s EXCEPT !.pc = "reply"]

Place(s)  == Min(DOMAIN s.todo)
Reader(s) == s.todo[Place(s)]

DoneWith(s, readPosts) ==
  NextReader([s EXCEPT
    !.todo = Restrict(s.todo, DOMAIN s.todo \ {Place(s)}),
    !.found = [p \in Posts |-> s.found[p] \cup
                 IF p \in readPosts THEN {Reader(s)} ELSE {}]])

NewQuery(kind, u, own) ==
  [ pc |-> "index", kind |-> kind, user |-> u, posts |-> own, offset |-> 0,
    todo |-> NoReaders, ids |-> {}, next |-> 0, found |-> [p \in Posts |-> {}],
    pending |-> {}, times |-> [p \in Posts |-> 0],
    sure |-> VisibleTo[u], indexed |-> Range(idx) \ {u}, present |-> members ]

(* validateQueryRequest *)
CanQuery(u) == enabled /\ u \in members

-----------------------------------------------------------------------------
QueryInit == Init /\ query = [k \in Queries |-> Nil]

(* handleQuery, up to the reader index; resolveOwnPosts kept the posts own. *)
HandleQuery(k, u, own) ==
  /\ query[k] = Nil
  /\ CanQuery(u)
  /\ own # {} /\ \A p \in own : Author[p] = u
  /\ Proceed(k, NewQuery("counts", u, own))

(* handlePostReaders, up to the reader index: the first page of the list. *)
HandlePostReaders(k, p) ==
  /\ query[k] = Nil
  /\ CanQuery(Author[p])
  /\ Proceed(k, NewQuery("readers", Author[p], {p}))

(* "Show more": handlePostReaders again, at the offset of the last page. *)
NextPage(k) ==
  /\ QueryAt(k, "reply")
  /\ query[k].kind = "readers" /\ Truncated(query[k])
  /\ CanQuery(query[k].user)
  /\ Proceed(k, [query[k] EXCEPT !.pc = "index", !.offset = query[k].next,
                                 !.next = 0, !.ids = {}])

QueryIndex(k) ==
  /\ QueryAt(k, "index")
  /\ LET s  == query[k]
         cs == Candidates(idx, s.user, s.offset)
     IN  Proceed(k, [s EXCEPT !.pc = "members",
                              !.todo = Restrict(idx, FirstOf(cs)),
                              !.next = NextOffset(cs \ FirstOf(cs))])

QueryMembers(k) ==
  /\ QueryAt(k, "members")
  /\ LET s == query[k]
         t == StillMembers(s.todo)
     IN  Proceed(k, NextReader([s EXCEPT !.todo = t, !.ids = Range(t)]))

QueryReceipt(k) ==
  /\ QueryAt(k, "receipt")
  /\ LET s == query[k] IN
       \E p \in s.posts :
         Proceed(k, IF rr[<<Reader(s), p>>] # Nil
                    THEN DoneWith(s, {p})
                    ELSE [s EXCEPT !.pc = "watermark"])

QueryWatermark(k) ==
  /\ QueryAt(k, "watermark")
  /\ LET s == query[k] IN
       Proceed(k, DoneWith(s, {p \in s.posts : Covers(wm[Reader(s)], p)}))

(* The map of own posts has no order. *)
QueryTime(k) ==
  /\ QueryAt(k, "times")
  /\ \E p \in query[k].pending, r \in query[k].ids :
       LET s == [query[k] EXCEPT !.pending = @ \ {p},
                                 !.times[p] = TimeOf(rr[<<r, p>>])]
       IN  Proceed(k, IF s.pending = {} THEN [s EXCEPT !.pc = "reply"] ELSE s)

(* The author has the answer and asks for no more. *)
EndQuery(k) ==
  /\ QueryAt(k, "reply")
  /\ Proceed(k, Nil)

(* Any error of an API call ends the query with an error. *)
QueryFails(k) ==
  /\ query[k] # Nil /\ query[k].pc # "reply"
  /\ Proceed(k, Nil)

QueryStep(k) ==
  \/ \E u \in Users, own \in SUBSET Posts : HandleQuery(k, u, own)
  \/ \E p \in Posts : HandlePostReaders(k, p)
  \/ NextPage(k)
  \/ QueryIndex(k) \/ QueryMembers(k) \/ QueryReceipt(k) \/ QueryWatermark(k)
  \/ QueryTime(k) \/ EndQuery(k) \/ QueryFails(k)

(* A step of the server; what the queries under way may report changes. *)
ServerStep ==
  /\ Next
  /\ query' = [k \in Queries |->
       IF query[k] = Nil THEN Nil
       ELSE LET s == query[k] IN
            [s EXCEPT
               !.sure = [p \in Posts |-> s.sure[p] \cap VisibleTo'[s.user][p]],
               !.indexed = @ \cup (Range(idx)' \ {s.user}),
               !.present = @ \cup members']]

QueryNext ==
  \/ ServerStep
  \/ \E k \in Queries : QueryStep(k) /\ UNCHANGED vars

QuerySpec == QueryInit /\ [][QueryNext]_queryVars

-----------------------------------------------------------------------------
Replies(kind) == {k \in Queries : QueryAt(k, "reply") /\ query[k].kind = kind}

(* A count is right at some moment of the query, up to what changed while  *)
(* it ran: nobody is counted who was not indexed and a member during the   *)
(* query and has not read past the post, and a count that is not marked    *)
(* truncated misses nobody who was visible all along.                      *)
CountsBracketed ==
  \A k \in Replies("counts") :
    LET s == query[k] IN
      \A p \in s.posts :
        /\ Cardinality(s.found[p]) <=
             Cardinality({r \in s.indexed \cap s.present : Covers(wm[r], p)})
        /\ ~Truncated(s) =>
             Cardinality(s.sure[p]) <= Cardinality(s.found[p])

(* The exact time next to a count is the time announced for the reader who *)
(* was counted, not that of somebody who has not read past the post (as    *)
(* long as no receipt can have expired and been written anew).             *)
ExactTimeIsTheReaders ==
  clock <= TTL =>
    \A k \in Replies("counts") :
      LET s == query[k] IN
        \A p \in s.posts : s.times[p] # 0 =>
          \E r \in s.indexed \cap s.present :
            /\ Covers(wm[r], p)
            /\ \A e \in announced :
                 e.reader = r /\ e.post = p => e.readAt = s.times[p]

(* An author who pages through the list of readers to its end has seen     *)
(* everybody who was a visible reader of the post all along.               *)
PagesSkipNobody ==
  \A k \in Replies("readers") :
    LET s == query[k] IN
      ~Truncated(s) => \A p \in s.posts : s.sure[p] \subseteq s.found[p]
=============================================================================
