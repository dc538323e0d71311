---------------------------- MODULE ReadQueryProofs ----------------------------
(***************************************************************************)
(* What an author is told, proved for every number of accounts, posts,     *)
(* requests and queries.  The invariants of the server hold beside the     *)
(* queries, which change nothing of it; those of a query say what it has   *)
(* looked at so far and what it still has to look at.                      *)
(***************************************************************************)
EXTENDS ReadQuery, ReadPromisesProofs

-----------------------------------------------------------------------------
(* The server beside the queries. *)

LEMMA ServerRunsOn == [QueryNext]_queryVars => [Next]_vars
BY DEF QueryNext, ServerStep, queryVars

LEMMA ServerInvariance == QuerySpec => []Inv
<1>1. QueryInit => Init
  BY DEF QueryInit
<1>2. Inv /\ [QueryNext]_queryVars => Inv'
  BY StepInv, ServerRunsOn
<1> QED
  BY <1>1, <1>2, InitInv, PTL DEF QuerySpec

LEMMA ServerTimes ==
  ASSUME "lookup" \notin Faults
  PROVE  QuerySpec => []TimesInv
<1>1. QueryInit => Init
  BY DEF QueryInit
<1>2. Inv /\ TimesInv /\ [QueryNext]_queryVars => TimesInv'
  BY StepTimes, ServerRunsOn
<1> QED
  BY <1>1, <1>2, InitTimes, ServerInvariance, PTL DEF QuerySpec

-----------------------------------------------------------------------------
(* The pages. *)

LEMMA PageType ==
  ASSUME NEW f, DOMAIN f \subseteq 1..MaxIndexReaders,
         \A i \in DOMAIN f : f[i] \in Users, f = [i \in DOMAIN f |-> f[i]],
         NEW places \in SUBSET DOMAIN f
  PROVE  /\ Restrict(f, places) \in Pages
         /\ DOMAIN Restrict(f, places) = places
         /\ \A i \in places : Restrict(f, places)[i] = f[i]
         /\ Range(Restrict(f, places)) = {f[i] : i \in places}
BY DEF Restrict, Pages, Range

LEMMA PagesAreFunctions ==
  ASSUME NEW page \in Pages
  PROVE  /\ page = [i \in DOMAIN page |-> page[i]]
         /\ DOMAIN page \subseteq 1..MaxIndexReaders
         /\ \A i \in DOMAIN page : page[i] \in Users
         /\ IsFiniteSet(DOMAIN page)
<1>1. PICK places \in SUBSET (1..MaxIndexReaders) : page \in [places -> Users]
  BY DEF Pages
<1>2. IsFiniteSet(1..MaxIndexReaders)
  BY FS_Interval, BoundsAssumption
<1> QED
  BY <1>1, <1>2, FS_Subset

LEMMA EmptyPage ==
  /\ NoReaders \in Pages
  /\ \A page \in Pages : page = NoReaders <=> DOMAIN page = {}
<1>1. NoReaders \in [{} -> Users]
  BY DEF NoReaders
<1>2. NoReaders \in Pages
  BY <1>1 DEF Pages
<1>3. ASSUME NEW page \in Pages PROVE page = NoReaders <=> DOMAIN page = {}
  BY <1>1, <1>3, PagesAreFunctions
<1> QED
  BY <1>2, <1>3

(* A set of naturals has a smallest element. *)
LEMMA SmallestPlace ==
  ASSUME NEW S \in SUBSET Nat, S # {}
  PROVE  /\ Min(S) \in S
         /\ \A i \in S : Min(S) <= i
<1> DEFINE R == OpToRel(<, Nat)
<1>1. PICK m \in S : \A i \in S : <<i, m>> \notin R
  BY NatLessThanWellFounded, WFMin
<1>2. ASSUME NEW i \in S PROVE m <= i
  <2>1. m \in Nat /\ i \in Nat /\ <<i, m>> \in Nat \X Nat
    OBVIOUS
  <2>2. <<i, m>>[1] = i /\ <<i, m>>[2] = m
    OBVIOUS
  <2>3. i < m => <<i, m>> \in R
    BY <2>1, <2>2 DEF OpToRel
  <2> HIDE DEF R
  <2> QED
    BY <1>1, <2>1, <2>3
<1> QED
  BY <1>2 DEF Min


LEMMA PlaceIsThere ==
  ASSUME NEW s \in Query, DOMAIN s.todo # {}
  PROVE  /\ Place(s) \in DOMAIN s.todo
         /\ Reader(s) \in Users
         /\ Reader(s) \in Range(s.todo)
<1>1. s.todo \in Pages
  BY DEF Query
<1>2. DOMAIN s.todo \subseteq 1..MaxIndexReaders /\ \A i \in DOMAIN s.todo : s.todo[i] \in Users
  BY <1>1, PagesAreFunctions
<1>3. 1..MaxIndexReaders \subseteq Nat
  BY BoundsAssumption
<1>4. Place(s) \in DOMAIN s.todo
  BY <1>2, <1>3, SmallestPlace DEF Place
<1> QED
  BY <1>2, <1>4 DEF Reader, Range

-----------------------------------------------------------------------------
(* What the helpers do to a query. *)

(* t differs from s in its step and in the times it still has to read.     *)
SameQuery(t, s) ==
  /\ t.kind = s.kind /\ t.user = s.user /\ t.posts = s.posts
  /\ t.offset = s.offset /\ t.next = s.next
  /\ t.todo = s.todo /\ t.ids = s.ids
  /\ t.found = s.found /\ t.times = s.times
  /\ t.sure = s.sure /\ t.indexed = s.indexed /\ t.present = s.present

LEMMA ExactTimesType ==
  ASSUME NEW s \in Query
  PROVE  ExactTimes(s) \in SUBSET Posts
BY DEF ExactTimes, Query

LEMMA NextReaderShape ==
  ASSUME NEW s \in Query
  PROVE  LET t == NextReader(s)
         IN  /\ t \in Query
             /\ SameQuery(t, s)
             /\ t.pc = "watermark" => s.kind = "counts" /\ DOMAIN s.todo # {}
             /\ t.pc = "receipt" => s.kind # "counts" /\ DOMAIN s.todo # {}
             /\ t.pc = "times" => /\ s.kind = "counts" /\ DOMAIN s.todo = {}
                                  /\ t.pending = ExactTimes(s)
             /\ t.pc = "reply" => DOMAIN s.todo = {}
             /\ t.pc \in {"watermark", "receipt", "times", "reply"}
<1> DEFINE T == ExactTimes(s)
           a == [s EXCEPT !.pc = "watermark"]
           b == [s EXCEPT !.pc = "receipt"]
           c == [s EXCEPT !.pc = "times", !.pending = T]
           d == [s EXCEPT !.pc = "reply"]
<1>1. s.todo \in Pages
  BY DEF Query
<1>2. s.todo = NoReaders <=> DOMAIN s.todo = {}
  BY <1>1, EmptyPage
<1>3. T \in SUBSET Posts
  BY ExactTimesType
<1>4. NextReader(s) =
        IF s.todo # NoReaders
        THEN IF s.kind = "counts" THEN a ELSE b
        ELSE IF s.kind = "counts" /\ T # {} THEN c ELSE d
  BY DEF NextReader
<1> HIDE DEF T
<1>5. /\ a \in Query /\ a.pc = "watermark" /\ SameQuery(a, s)
      /\ b \in Query /\ b.pc = "receipt" /\ SameQuery(b, s)
  BY DEF Query, QuerySteps, SameQuery
<1>6. /\ c \in Query /\ c.pc = "times" /\ SameQuery(c, s) /\ c.pending = T
      /\ d \in Query /\ d.pc = "reply" /\ SameQuery(d, s)
  BY <1>3 DEF Query, QuerySteps, SameQuery
<1> HIDE DEF a, b, c, d
<1>7. CASE s.todo # NoReaders
  BY <1>2, <1>4, <1>5, <1>7
<1>8. CASE s.todo = NoReaders
  BY <1>2, <1>4, <1>6, <1>8 DEF T
<1> QED
  BY <1>7, <1>8

(* The page without its first reader, who has read the posts readPosts.    *)
LEMMA DoneWithShape ==
  ASSUME NEW s \in Query, DOMAIN s.todo # {}, NEW readPosts \in SUBSET Posts
  PROVE  LET t == DoneWith(s, readPosts)
         IN  /\ t \in Query
             /\ t.kind = s.kind /\ t.user = s.user /\ t.posts = s.posts
             /\ t.offset = s.offset /\ t.next = s.next /\ t.ids = s.ids
             /\ t.times = s.times /\ t.sure = s.sure
             /\ t.indexed = s.indexed /\ t.present = s.present
             /\ Range(t.todo) \subseteq Range(s.todo)
             /\ Range(s.todo) \subseteq Range(t.todo) \cup {Reader(s)}
             /\ \A p \in Posts : t.found[p] = s.found[p] \cup
                  IF p \in readPosts THEN {Reader(s)} ELSE {}
             /\ t.pc \in {"watermark", "receipt"} => DOMAIN t.todo # {}
             /\ t.pc \in {"times", "reply"} => DOMAIN t.todo = {}
             /\ s.kind = "counts" => t.pc # "receipt"
             /\ s.kind # "counts" => t.pc \notin {"watermark", "times"}
             /\ t.pc = "times" => t.pending = ExactTimes(t)
             /\ t.pc \in {"watermark", "receipt", "times", "reply"}
<1> DEFINE todo == Restrict(s.todo, DOMAIN s.todo \ {Place(s)})
           found == [p \in Posts |-> s.found[p] \cup
                       IF p \in readPosts THEN {Reader(s)} ELSE {}]
           u == [s EXCEPT !.todo = todo, !.found = found]
           t == NextReader(u)
<1>1. s.todo \in Pages /\ s.found \in [Posts -> SUBSET Users]
  BY DEF Query
<1>2. /\ Place(s) \in DOMAIN s.todo /\ Reader(s) \in Users
      /\ Reader(s) = s.todo[Place(s)]
  BY PlaceIsThere DEF Reader
<1>3. /\ todo \in Pages
      /\ Range(todo) = {s.todo[i] : i \in DOMAIN s.todo \ {Place(s)}}
  BY <1>1, PagesAreFunctions, PageType
<1>4. found \in [Posts -> SUBSET Users]
  BY <1>1, <1>2
<1>5. \A p \in Posts : found[p] = s.found[p] \cup
                         IF p \in readPosts THEN {Reader(s)} ELSE {}
  OBVIOUS
<1>6. /\ Range(todo) \subseteq Range(s.todo)
      /\ Range(s.todo) \subseteq Range(todo) \cup {Reader(s)}
  BY <1>2, <1>3 DEF Range
<1>7. DoneWith(s, readPosts) = t
  BY DEF DoneWith
<1> HIDE DEF todo, found
<1>8. /\ u \in Query /\ u.todo = todo /\ u.found = found
      /\ u.kind = s.kind /\ u.user = s.user /\ u.posts = s.posts
      /\ u.offset = s.offset /\ u.next = s.next /\ u.ids = s.ids
      /\ u.times = s.times /\ u.sure = s.sure
      /\ u.indexed = s.indexed /\ u.present = s.present
  BY <1>3, <1>4 DEF Query
<1> HIDE DEF u
<1>9. /\ t \in Query /\ SameQuery(t, u)
      /\ t.pc = "watermark" => u.kind = "counts" /\ DOMAIN u.todo # {}
      /\ t.pc = "receipt" => u.kind # "counts" /\ DOMAIN u.todo # {}
      /\ t.pc = "times" => /\ u.kind = "counts" /\ DOMAIN u.todo = {}
                           /\ t.pending = ExactTimes(u)
      /\ t.pc = "reply" => DOMAIN u.todo = {}
      /\ t.pc \in {"watermark", "receipt", "times", "reply"}
  BY <1>8, NextReaderShape
<1> HIDE DEF t
<1>10. ExactTimes(t) = ExactTimes(u)
  BY <1>9 DEF SameQuery, ExactTimes
<1> QED
  BY <1>5, <1>6, <1>7, <1>8, <1>9, <1>10 DEF SameQuery

LEMMA VisibleType ==
  ASSUME TypeOK, NEW u \in Users
  PROVE  /\ VisibleTo[u] \in [Posts -> SUBSET Users]
         /\ \A p \in Posts : VisibleTo[u][p] =
              {r \in (Range(idx) \cap members) \ {u} : Covers(wm[r], p)}
BY DEF TypeOK, VisibleTo

LEMMA NewQueryType ==
  ASSUME TypeOK, NEW kind \in {"counts", "readers"}, NEW u \in Users,
         NEW own \in SUBSET Posts
  PROVE  NewQuery(kind, u, own) \in Query
<1>1. VisibleTo[u] \in [Posts -> SUBSET Users]
  BY VisibleType
<1>2. NoReaders \in Pages
  BY EmptyPage
<1>3. Range(idx) \ {u} \in SUBSET Users /\ members \in SUBSET Users
  BY DEF TypeOK, Range
<1> HIDE DEF NoReaders
<1> QED
  BY <1>1, <1>2, <1>3 DEF NewQuery, Query, QuerySteps

(* The window that QueryIndex takes from the index, and what it leaves.    *)
LEMMA WindowShape ==
  ASSUME Inv, NEW u \in Users, NEW offset \in Nat
  PROVE  LET cs == Candidates(idx, u, offset)
             todo == Restrict(idx, FirstOf(cs))
             next == NextOffset(cs \ FirstOf(cs))
         IN  /\ todo \in Pages
             /\ Range(todo) \subseteq Range(idx) \ {u}
             /\ next \in Nat
             /\ \A i \in DOMAIN idx : i > offset /\ idx[i] # u =>
                  \/ idx[i] \in Range(todo)
                  \/ next # 0 /\ i > next
<1> DEFINE cs == Candidates(idx, u, offset)
           first == FirstOf(cs)
           todo == Restrict(idx, first)
           left == cs \ first
           next == NextOffset(left)
<1>1. /\ idx \in Seq(Users) /\ Len(idx) \in Nat /\ Len(idx) <= MaxIndexReaders
      /\ DOMAIN idx = 1..Len(idx)
  BY DEF Inv, TypeOK, IndexWellFormed
<1>2. /\ DOMAIN idx \subseteq 1..MaxIndexReaders /\ DOMAIN idx \subseteq Nat \ {0}
      /\ \A i \in DOMAIN idx : idx[i] \in Users
      /\ idx = [i \in DOMAIN idx |-> idx[i]]
  BY <1>1, BoundsAssumption
<1>3. cs \subseteq DOMAIN idx /\ first \subseteq cs
  BY DEF Candidates, FirstOf
<1>4. todo \in Pages /\ Range(todo) = {idx[i] : i \in first}
  BY <1>2, <1>3, PageType
<1>5. \A i \in cs : idx[i] \in Range(idx) \ {u}
  BY DEF Candidates, Range
<1>6. left # {} => /\ Min(left) \in left
                   /\ \A i \in left : Min(left) <= i
  BY <1>2, <1>3, SmallestPlace
<1>7. 1 \in cs => 1 \in first
  <2>1. ASSUME 1 \in cs PROVE Cardinality(cs \cap 1..1) = 1
    <3>1. cs \cap 1..1 = {1}
      BY <2>1
    <3> QED
      BY <3>1, FS_Singleton
  <2> QED
    BY <2>1, QueryAssumption DEF FirstOf
<1>8. left # {} => /\ next \in Nat \ {0}
                   /\ \A i \in left : i > next
  <2> SUFFICES ASSUME left # {} PROVE next \in Nat \ {0} /\ \A i \in left : i > next
    OBVIOUS
  <2> DEFINE m == Min(left)
  <2>1. m \in left /\ \A i \in left : m <= i
    BY <1>6
  <2>2. m \in Nat \ {0} /\ m # 1
    BY <1>2, <1>3, <1>7, <2>1
  <2>3. next = m - 1
    BY DEF NextOffset
  <2>4. \A i \in left : i \in Nat
    BY <1>2, <1>3
  <2> HIDE DEF m, next, left
  <2> QED
    BY <2>1, <2>2, <2>3, <2>4
<1>9. left = {} => next = 0
  BY DEF NextOffset
<1>10. \A i \in DOMAIN idx : i > offset /\ idx[i] # u => i \in cs
  BY DEF Candidates
<1> QED
  BY <1>3, <1>4, <1>5, <1>8, <1>9, <1>10

-----------------------------------------------------------------------------
(* What a query has looked at, and what it still has to look at. *)

(* Whom a query by u could report as a reader of p, in a store with the    *)
(* watermarks marks and this index, while the members here are there.      *)
Visible(u, p, marks, index, here) ==
  {r \in (Range(index) \cap here) \ {u} : Covers(marks[r], p)}

(* A count starts at the first place, a list is of one post. *)
AsksFor(s) ==
  /\ s.kind = "counts" => s.offset = 0 /\ s.pc # "receipt"
  /\ s.kind = "readers" => s.pc # "times" /\ \E p \in Posts : s.posts = {p}

(* The query has witnessed everybody who is there now. *)
HasWitnessed(s, marks, index, here) ==
  /\ IsFiniteSet(s.indexed)
  /\ Range(index) \ {s.user} \subseteq s.indexed
  /\ here \subseteq s.present
  /\ \A p \in Posts : s.sure[p] \subseteq Visible(s.user, p, marks, index, here)

(* Its page holds readers it has seen indexed, and in the end members.     *)
LooksAt(s) ==
  /\ s.pc # "index" => Range(s.todo) \subseteq s.indexed
  /\ s.pc \notin {"index", "members"} => Range(s.todo) \subseteq s.ids
  /\ s.ids \subseteq s.indexed \cap s.present
  /\ s.pc \in {"receipt", "watermark"} => DOMAIN s.todo # {}
  /\ s.pc \in {"times", "reply"} => DOMAIN s.todo = {}

(* Whoever is counted has read past the post, and whoever was visible all  *)
(* along is counted or still to come.                                      *)
HasCounted(s, marks) ==
  s.kind = "counts" =>
    /\ \A p \in Posts : \A r \in s.found[p] : r \in s.ids /\ Covers(marks[r], p)
    /\ s.pc \in {"index", "members"} => \A p \in Posts : s.found[p] = {}
    /\ s.pc # "index" /\ ~Truncated(s) =>
         \A p \in s.posts : s.sure[p] \subseteq s.found[p] \cup Range(s.todo)

QuerySafe(s, marks, index, here) ==
  /\ AsksFor(s)
  /\ HasWitnessed(s, marks, index, here)
  /\ LooksAt(s)
  /\ HasCounted(s, marks)

QueriesInv ==
  /\ query \in [Queries -> Query \cup {Nil}]
  /\ \A k \in Queries : query[k] # Nil => QuerySafe(query[k], wm, idx, members)

(* One query moves; the server and the other queries stand still. *)
LEMMA ProceedType ==
  ASSUME query \in [Queries -> Query \cup {Nil}], NEW k \in Queries,
         NEW t \in Query \cup {Nil}, Proceed(k, t)
  PROVE  /\ query' \in [Queries -> Query \cup {Nil}]
         /\ query'[k] = t
         /\ \A o \in Queries : o # k => query'[o] = query[o]
BY DEF Proceed

LEMMA QueryMoves ==
  ASSUME QueriesInv, UNCHANGED vars, NEW k \in Queries,
         NEW t \in Query \cup {Nil}, Proceed(k, t),
         t # Nil => QuerySafe(t, wm, idx, members)
  PROVE  QueriesInv'
<1>1. /\ query' \in [Queries -> Query \cup {Nil}]
      /\ query'[k] = t /\ \A o \in Queries : o # k => query'[o] = query[o]
  BY ProceedType DEF QueriesInv
<1>2. UNCHANGED <<wm, idx, members>>
  BY DEF vars, store, env
<1>3. ASSUME NEW o \in Queries, query'[o] # Nil
      PROVE  QuerySafe(query'[o], wm, idx, members)
  BY <1>1, <1>3 DEF QueriesInv
<1> QED
  BY <1>1, <1>2, <1>3 DEF QueriesInv

LEMMA CurrentQuery ==
  ASSUME QueriesInv, NEW k \in Queries, query[k] # Nil
  PROVE  /\ query[k] \in Query
         /\ query[k].user \in Users
         /\ QuerySafe(query[k], wm, idx, members)
<1>1. query[k] \in Query
  BY DEF QueriesInv
<1> QED
  BY <1>1 DEF QueriesInv, Query

LEMMA NewQueryInv ==
  ASSUME Inv, QueriesInv, UNCHANGED vars, NEW k \in Queries,
         NEW kind \in {"counts", "readers"}, NEW u \in Users,
         NEW own \in SUBSET Posts, kind = "readers" => \E p \in Posts : own = {p},
         Proceed(k, NewQuery(kind, u, own))
  PROVE  QueriesInv'
<1> DEFINE t == NewQuery(kind, u, own)
<1>1. t \in Query
  BY NewQueryType DEF Inv
<1>2. /\ t.pc = "index" /\ t.kind = kind /\ t.user = u /\ t.posts = own
      /\ t.offset = 0 /\ t.ids = {} /\ t.found = [p \in Posts |-> {}]
      /\ t.sure = VisibleTo[u] /\ t.indexed = Range(idx) \ {u}
      /\ t.present = members
  BY DEF NewQuery
<1> HIDE DEF t
<1>3. IsFiniteSet(t.indexed)
  <2>1. IsFiniteSet(Range(idx))
    BY IndexCardinality DEF Inv, TypeOK, IndexWellFormed
  <2> QED
    BY <1>2, <2>1, FS_Subset
<1>4. \A p \in Posts : t.sure[p] \subseteq Visible(u, p, wm, idx, members)
  BY <1>2, VisibleType DEF Visible, Inv
<1>5. AsksFor(t) /\ LooksAt(t) /\ HasWitnessed(t, wm, idx, members)
  BY <1>2, <1>3, <1>4 DEF AsksFor, LooksAt, HasWitnessed
<1>6. HasCounted(t, wm)
  BY <1>2 DEF HasCounted
<1> QED
  BY <1>1, <1>5, <1>6, QueryMoves DEF QuerySafe, t

LEMMA NextPageInv ==
  ASSUME QueriesInv, UNCHANGED vars, NEW k \in Queries, NextPage(k)
  PROVE  QueriesInv'
<1> DEFINE s == query[k]
           t == [s EXCEPT !.pc = "index", !.offset = s.next, !.next = 0, !.ids = {}]
<1>1. /\ s \in Query /\ QuerySafe(s, wm, idx, members) /\ s.kind = "readers"
      /\ s.next \in Nat
  BY CurrentQuery DEF NextPage, QueryAt, Query
<1>2. Proceed(k, t)
  BY DEF NextPage
<1>3. /\ t \in Query /\ t.pc = "index" /\ t.kind = s.kind /\ t.user = s.user
      /\ t.posts = s.posts /\ t.ids = {} /\ t.sure = s.sure
      /\ t.indexed = s.indexed /\ t.present = s.present
  BY <1>1 DEF Query, QuerySteps
<1> HIDE DEF t
<1>4. QuerySafe(t, wm, idx, members)
  BY <1>1, <1>3 DEF QuerySafe, AsksFor, HasWitnessed, LooksAt, HasCounted
<1> QED
  BY <1>2, <1>3, <1>4, QueryMoves

LEMMA QueryIndexShape ==
  ASSUME Inv, QueriesInv, NEW k \in Queries, QueryIndex(k)
  PROVE  \E t \in Query :
           /\ Proceed(k, t)
           /\ t.pc = "members" /\ t.kind = query[k].kind /\ t.user = query[k].user
           /\ t.posts = query[k].posts /\ t.offset = query[k].offset
           /\ t.ids = query[k].ids /\ t.found = query[k].found
           /\ t.times = query[k].times /\ t.sure = query[k].sure
           /\ t.indexed = query[k].indexed /\ t.present = query[k].present
           /\ Range(t.todo) \subseteq Range(idx) \ {query[k].user}
           /\ \A i \in DOMAIN idx :
                i > query[k].offset /\ idx[i] # query[k].user =>
                  \/ idx[i] \in Range(t.todo)
                  \/ t.next # 0 /\ i > t.next
<1> DEFINE s == query[k]
           cs == Candidates(idx, s.user, s.offset)
           todo == Restrict(idx, FirstOf(cs))
           next == NextOffset(cs \ FirstOf(cs))
           t == [s EXCEPT !.pc = "members", !.todo = todo, !.next = next]
<1>1. s \in Query /\ s.user \in Users /\ s.offset \in Nat
  BY CurrentQuery DEF QueryIndex, QueryAt, Query
<1>2. Proceed(k, t)
  BY DEF QueryIndex
<1>3. /\ todo \in Pages /\ next \in Nat
      /\ Range(todo) \subseteq Range(idx) \ {s.user}
      /\ \A i \in DOMAIN idx : i > s.offset /\ idx[i] # s.user =>
           idx[i] \in Range(todo) \/ (next # 0 /\ i > next)
  BY <1>1, WindowShape
<1> HIDE DEF todo, next
<1>4. /\ t \in Query /\ t.pc = "members" /\ t.kind = s.kind /\ t.user = s.user
      /\ t.posts = s.posts /\ t.offset = s.offset /\ t.ids = s.ids
      /\ t.found = s.found /\ t.times = s.times /\ t.sure = s.sure
      /\ t.indexed = s.indexed /\ t.present = s.present
      /\ t.todo = todo /\ t.next = next
  BY <1>1, <1>3 DEF Query, QuerySteps
<1> HIDE DEF t
<1> QED
  BY <1>2, <1>3, <1>4

LEMMA QueryIndexInv ==
  ASSUME Inv, QueriesInv, UNCHANGED vars, NEW k \in Queries, QueryIndex(k)
  PROVE  QueriesInv'
<1> DEFINE s == query[k]
<1>1. /\ s \in Query /\ QuerySafe(s, wm, idx, members) /\ s.pc = "index"
  BY CurrentQuery DEF QueryIndex, QueryAt
<1>2. PICK t \in Query :
        /\ Proceed(k, t)
        /\ t.pc = "members" /\ t.kind = s.kind /\ t.user = s.user
        /\ t.posts = s.posts /\ t.offset = s.offset
        /\ t.ids = s.ids /\ t.found = s.found /\ t.times = s.times
        /\ t.sure = s.sure /\ t.indexed = s.indexed /\ t.present = s.present
        /\ Range(t.todo) \subseteq Range(idx) \ {s.user}
        /\ \A i \in DOMAIN idx : i > s.offset /\ idx[i] # s.user =>
             \/ idx[i] \in Range(t.todo)
             \/ t.next # 0 /\ i > t.next
  BY QueryIndexShape
<1>3. AsksFor(t) /\ LooksAt(t) /\ HasWitnessed(t, wm, idx, members)
  BY <1>1, <1>2 DEF QuerySafe, AsksFor, LooksAt, HasWitnessed
<1>4. HasCounted(t, wm)
  <2> SUFFICES ASSUME t.kind = "counts" PROVE HasCounted(t, wm)
    BY DEF HasCounted
  <2>1. \A p \in Posts : t.found[p] = {}
    BY <1>1, <1>2 DEF QuerySafe, HasCounted
  <2>2. ASSUME ~Truncated(t), NEW p \in t.posts
        PROVE  t.sure[p] \subseteq Range(t.todo)
    <3> SUFFICES ASSUME NEW r \in t.sure[p] PROVE r \in Range(t.todo)
      OBVIOUS
    <3>1. p \in Posts
      BY <1>2, <2>2 DEF Query
    <3>2. r \in Range(idx) \ {s.user}
      BY <1>1, <1>2, <3>1 DEF QuerySafe, HasWitnessed, Visible
    <3>3. PICK i \in DOMAIN idx : idx[i] = r
      BY <3>2 DEF Range
    <3>4. s.offset = 0 /\ i > 0
      BY <1>1, <1>2 DEF QuerySafe, AsksFor, Inv, TypeOK
    <3> QED
      BY <1>2, <2>2, <3>2, <3>3, <3>4 DEF Truncated
  <2> QED
    BY <1>2, <2>1, <2>2 DEF HasCounted
<1>5. Proceed(k, t) /\ QuerySafe(t, wm, idx, members)
  BY <1>2, <1>3, <1>4 DEF QuerySafe
<1> QED
  BY <1>5, QueryMoves

LEMMA QueryMembersShape ==
  ASSUME QueriesInv, NEW k \in Queries, QueryMembers(k)
  PROVE  \E u, t \in Query :
           /\ Proceed(k, t)
           /\ t = NextReader(u) /\ SameQuery(t, u)
           /\ u.kind = query[k].kind /\ u.user = query[k].user
           /\ u.posts = query[k].posts /\ u.offset = query[k].offset
           /\ u.next = query[k].next /\ u.found = query[k].found
           /\ u.times = query[k].times /\ u.sure = query[k].sure
           /\ u.indexed = query[k].indexed /\ u.present = query[k].present
           /\ u.ids = Range(u.todo)
           /\ Range(u.todo) = Range(query[k].todo) \cap members
<1> DEFINE s == query[k]
           todo == StillMembers(s.todo)
           u == [s EXCEPT !.todo = todo, !.ids = Range(todo)]
<1>1. s \in Query /\ s.todo \in Pages
  BY CurrentQuery DEF QueryMembers, QueryAt, Query
<1>2. Proceed(k, NextReader(u))
  BY DEF QueryMembers
<1>3. todo \in Pages /\ Range(todo) = Range(s.todo) \cap members
  <2> DEFINE here == {i \in DOMAIN s.todo : s.todo[i] \in members}
  <2>1. todo \in Pages /\ Range(todo) = {s.todo[i] : i \in here}
    BY <1>1, PagesAreFunctions, PageType DEF StillMembers
  <2> QED
    BY <2>1 DEF Range
<1>4. Range(todo) \in SUBSET Users
  BY <1>3, PagesAreFunctions DEF Range
<1> HIDE DEF todo
<1>5. /\ u \in Query /\ u.todo = todo /\ u.ids = Range(todo)
      /\ u.kind = s.kind /\ u.user = s.user /\ u.posts = s.posts
      /\ u.offset = s.offset /\ u.next = s.next /\ u.found = s.found
      /\ u.times = s.times /\ u.sure = s.sure
      /\ u.indexed = s.indexed /\ u.present = s.present
  BY <1>1, <1>3, <1>4 DEF Query
<1> HIDE DEF u
<1>6. NextReader(u) \in Query /\ SameQuery(NextReader(u), u)
  BY <1>5, NextReaderShape
<1> QED
  BY <1>2, <1>3, <1>5, <1>6

LEMMA QueryMembersInv ==
  ASSUME Inv, QueriesInv, UNCHANGED vars, NEW k \in Queries, QueryMembers(k)
  PROVE  QueriesInv'
<1> DEFINE s == query[k]
<1>1. /\ s \in Query /\ QuerySafe(s, wm, idx, members) /\ s.pc = "members"
  BY CurrentQuery DEF QueryMembers, QueryAt
<1>2. PICK u, t \in Query :
        /\ Proceed(k, t)
        /\ t = NextReader(u) /\ SameQuery(t, u)
        /\ u.kind = s.kind /\ u.user = s.user /\ u.posts = s.posts
        /\ u.offset = s.offset /\ u.next = s.next /\ u.found = s.found
        /\ u.times = s.times /\ u.sure = s.sure
        /\ u.indexed = s.indexed /\ u.present = s.present
        /\ u.ids = Range(u.todo)
        /\ Range(u.todo) = Range(s.todo) \cap members
  BY QueryMembersShape
<1>3. /\ t.kind = s.kind /\ t.user = s.user /\ t.posts = s.posts
      /\ t.offset = s.offset /\ t.next = s.next /\ t.found = s.found
      /\ t.sure = s.sure /\ t.indexed = s.indexed /\ t.present = s.present
      /\ t.ids = Range(t.todo)
      /\ Range(t.todo) = Range(s.todo) \cap members
  BY <1>2 DEF SameQuery
<1>4. /\ t.pc \in {"watermark", "receipt"} => DOMAIN t.todo # {}
      /\ t.pc \in {"times", "reply"} => DOMAIN t.todo = {}
      /\ t.pc = "receipt" => s.kind # "counts"
      /\ t.pc = "times" => s.kind = "counts"
      /\ t.pc \in {"watermark", "receipt", "times", "reply"}
  BY <1>2, NextReaderShape DEF SameQuery
<1>5. AsksFor(t) /\ HasWitnessed(t, wm, idx, members)
  BY <1>1, <1>3, <1>4 DEF QuerySafe, AsksFor, HasWitnessed
<1>6. LooksAt(t)
  BY <1>1, <1>3, <1>4 DEF QuerySafe, LooksAt, HasWitnessed
<1>7. HasCounted(t, wm)
  <2> SUFFICES ASSUME t.kind = "counts" PROVE HasCounted(t, wm)
    BY DEF HasCounted
  <2>1. \A p \in Posts : t.found[p] = {}
    BY <1>1, <1>3 DEF QuerySafe, HasCounted
  <2>2. ASSUME ~Truncated(t), NEW p \in t.posts
        PROVE  t.sure[p] \subseteq Range(t.todo)
    <3>1. p \in Posts /\ ~Truncated(s)
      BY <1>1, <1>3, <2>2 DEF Query, Truncated
    <3>2. t.sure[p] \subseteq Range(s.todo)
      BY <1>1, <1>3, <2>1, <2>2, <3>1 DEF QuerySafe, HasCounted
    <3>3. t.sure[p] \subseteq members
      BY <1>1, <1>3, <3>1 DEF QuerySafe, HasWitnessed, Visible
    <3> QED
      BY <1>3, <3>2, <3>3
  <2> QED
    BY <1>4, <2>1, <2>2 DEF HasCounted
<1>8. Proceed(k, t) /\ QuerySafe(t, wm, idx, members)
  BY <1>2, <1>5, <1>6, <1>7 DEF QuerySafe
<1> QED
  BY <1>8, QueryMoves

(* The query has looked at its first reader, who has read readPosts.       *)
LEMMA DoneWithInv ==
  ASSUME Inv, QueriesInv, UNCHANGED vars, NEW k \in Queries, query[k] # Nil,
         query[k].pc \in {"receipt", "watermark"},
         NEW readPosts \in SUBSET Posts,
         query[k].kind = "counts" =>
           readPosts = {p \in query[k].posts : Covers(wm[Reader(query[k])], p)},
         Proceed(k, DoneWith(query[k], readPosts))
  PROVE  QueriesInv'
<1> DEFINE s == query[k]
           r == Reader(s)
           t == DoneWith(s, readPosts)
<1>1. /\ s \in Query /\ QuerySafe(s, wm, idx, members) /\ DOMAIN s.todo # {}
      /\ s.pc \in {"receipt", "watermark"}
  BY CurrentQuery DEF QuerySafe, LooksAt
<1>2. r \in Range(s.todo) /\ r \in Users
  BY <1>1, PlaceIsThere
<1>3. /\ t \in Query
      /\ t.kind = s.kind /\ t.user = s.user /\ t.posts = s.posts
      /\ t.offset = s.offset /\ t.next = s.next /\ t.ids = s.ids
      /\ t.sure = s.sure /\ t.indexed = s.indexed /\ t.present = s.present
      /\ Range(t.todo) \subseteq Range(s.todo)
      /\ Range(s.todo) \subseteq Range(t.todo) \cup {r}
      /\ \A p \in Posts :
           t.found[p] = s.found[p] \cup IF p \in readPosts THEN {r} ELSE {}
      /\ t.pc \in {"watermark", "receipt"} => DOMAIN t.todo # {}
      /\ t.pc \in {"times", "reply"} => DOMAIN t.todo = {}
      /\ s.kind = "counts" => t.pc # "receipt"
      /\ s.kind # "counts" => t.pc \notin {"watermark", "times"}
      /\ t.pc \in {"watermark", "receipt", "times", "reply"}
  BY <1>1, DoneWithShape
<1> HIDE DEF t, r
<1>4. AsksFor(t) /\ HasWitnessed(t, wm, idx, members)
  BY <1>1, <1>3 DEF QuerySafe, AsksFor, HasWitnessed
<1>5. LooksAt(t)
  BY <1>1, <1>3 DEF QuerySafe, LooksAt
<1>6. HasCounted(t, wm)
  <2> SUFFICES ASSUME s.kind = "counts" PROVE HasCounted(t, wm)
    BY <1>3 DEF HasCounted
  <2>1. readPosts = {p \in s.posts : Covers(wm[r], p)} /\ r \in s.ids
    BY <1>1, <1>2 DEF r, QuerySafe, LooksAt
  <2>2. ASSUME NEW p \in Posts, NEW o \in t.found[p]
        PROVE  o \in t.ids /\ Covers(wm[o], p)
    <3>1. CASE o \in s.found[p]
      BY <1>1, <1>3, <3>1 DEF QuerySafe, HasCounted
    <3>2. CASE o \notin s.found[p]
      <4>1. o = r /\ p \in readPosts
        BY <1>3, <2>2, <3>2
      <4> QED
        BY <1>3, <2>1, <4>1
    <3> QED
      BY <3>1, <3>2
  <2>3. ASSUME ~Truncated(t), NEW p \in t.posts
        PROVE  t.sure[p] \subseteq t.found[p] \cup Range(t.todo)
    <3> SUFFICES ASSUME NEW o \in t.sure[p], o \notin Range(t.todo)
                 PROVE  o \in t.found[p]
      OBVIOUS
    <3>1. p \in Posts /\ p \in s.posts /\ ~Truncated(s) /\ o \in s.sure[p]
      BY <1>1, <1>3, <2>3 DEF Query, Truncated
    <3>2. o \in s.found[p] \cup Range(s.todo)
      BY <1>1, <3>1 DEF QuerySafe, HasCounted
    <3>3. Covers(wm[o], p)
      BY <1>1, <3>1 DEF QuerySafe, HasWitnessed, Visible
    <3>4. CASE o = r
      BY <1>3, <2>1, <3>1, <3>3, <3>4
    <3> QED
      BY <1>3, <3>1, <3>2, <3>4
  <2> QED
    BY <1>3, <2>2, <2>3 DEF HasCounted
<1>7. Proceed(k, t) /\ QuerySafe(t, wm, idx, members)
  BY <1>4, <1>5, <1>6 DEF QuerySafe, t
<1> QED
  BY <1>3, <1>7, QueryMoves

LEMMA QueryReceiptInv ==
  ASSUME Inv, QueriesInv, UNCHANGED vars, NEW k \in Queries, QueryReceipt(k)
  PROVE  QueriesInv'
<1> DEFINE s == query[k]
<1>1. /\ s \in Query /\ QuerySafe(s, wm, idx, members) /\ s.pc = "receipt"
      /\ s # Nil /\ s.posts \subseteq Posts
  BY CurrentQuery DEF QueryReceipt, QueryAt, Query
<1>2. s.kind # "counts"
  BY <1>1 DEF QuerySafe, AsksFor
<1>3. ASSUME NEW p \in s.posts, Proceed(k, DoneWith(s, {p})) PROVE QueriesInv'
  BY <1>1, <1>2, <1>3, DoneWithInv
<1>4. ASSUME Proceed(k, [s EXCEPT !.pc = "watermark"]) PROVE QueriesInv'
  <2> DEFINE t == [s EXCEPT !.pc = "watermark"]
  <2>1. /\ t \in Query /\ t.pc = "watermark" /\ SameQuery(t, s)
    BY <1>1 DEF Query, QuerySteps, SameQuery
  <2>2. Proceed(k, t)
    BY <1>4
  <2> HIDE DEF t
  <2>3. QuerySafe(t, wm, idx, members)
    BY <1>1, <1>2, <2>1
       DEF QuerySafe, AsksFor, HasWitnessed, LooksAt, HasCounted, SameQuery
  <2> QED
    BY <2>1, <2>2, <2>3, QueryMoves
<1> QED
  BY <1>3, <1>4 DEF QueryReceipt

LEMMA QueryWatermarkInv ==
  ASSUME Inv, QueriesInv, UNCHANGED vars, NEW k \in Queries, QueryWatermark(k)
  PROVE  QueriesInv'
<1> DEFINE s == query[k]
           readPosts == {p \in s.posts : Covers(wm[Reader(s)], p)}
<1>1. s \in Query /\ s.pc = "watermark" /\ s # Nil
  BY CurrentQuery DEF QueryWatermark, QueryAt
<1>2. readPosts \in SUBSET Posts
  BY <1>1 DEF Query
<1>3. Proceed(k, DoneWith(s, readPosts))
  BY DEF QueryWatermark
<1> QED
  BY <1>1, <1>2, <1>3, DoneWithInv

LEMMA QueryTimeShape ==
  ASSUME Inv, QueriesInv, NEW k \in Queries, QueryTime(k)
  PROVE  \E p \in query[k].pending, r \in query[k].ids, t \in Query :
           /\ Proceed(k, t)
           /\ t.kind = query[k].kind /\ t.user = query[k].user
           /\ t.posts = query[k].posts /\ t.offset = query[k].offset
           /\ t.next = query[k].next /\ t.found = query[k].found
           /\ t.todo = query[k].todo /\ t.ids = query[k].ids
           /\ t.sure = query[k].sure
           /\ t.indexed = query[k].indexed /\ t.present = query[k].present
           /\ t.pending = query[k].pending \ {p}
           /\ t.times = [query[k].times EXCEPT ![p] = TimeOf(rr[<<r, p>>])]
           /\ t.pc \in {"times", "reply"}
<1> DEFINE s == query[k]
<1>1. s \in Query /\ s.pc = "times"
  BY CurrentQuery DEF QueryTime, QueryAt
<1>2. PICK p \in s.pending, r \in s.ids :
        LET t == [s EXCEPT !.pending = @ \ {p}, !.times[p] = TimeOf(rr[<<r, p>>])]
        IN  Proceed(k, IF t.pending = {} THEN [t EXCEPT !.pc = "reply"] ELSE t)
  BY DEF QueryTime
<1> DEFINE at == TimeOf(rr[<<r, p>>])
           times == [s.times EXCEPT ![p] = at]
           left == s.pending \ {p}
           t == [s EXCEPT !.pending = left, !.times = times]
           d == [t EXCEPT !.pc = "reply"]
<1>3. p \in Posts /\ r \in Users
  BY <1>1 DEF Query
<1>4. at \in Nat
  BY <1>3 DEF TimeOf, Inv, TypeOK
<1>5. Proceed(k, t) \/ Proceed(k, d)
  BY <1>2
<1> HIDE DEF at
<1>6. times \in [Posts -> Nat] /\ left \in SUBSET Posts
  BY <1>1, <1>3, <1>4 DEF Query
<1> HIDE DEF times, left
<1>7. /\ t \in Query /\ t.pc = "times" /\ t.pending = left /\ t.times = times
      /\ t.kind = s.kind /\ t.user = s.user /\ t.posts = s.posts
      /\ t.offset = s.offset /\ t.next = s.next /\ t.found = s.found
      /\ t.todo = s.todo /\ t.ids = s.ids /\ t.sure = s.sure
      /\ t.indexed = s.indexed /\ t.present = s.present
  BY <1>1, <1>6 DEF Query
<1> HIDE DEF t
<1>8. /\ d \in Query /\ d.pc = "reply" /\ d.pending = left /\ d.times = times
      /\ d.kind = s.kind /\ d.user = s.user /\ d.posts = s.posts
      /\ d.offset = s.offset /\ d.next = s.next /\ d.found = s.found
      /\ d.todo = s.todo /\ d.ids = s.ids /\ d.sure = s.sure
      /\ d.indexed = s.indexed /\ d.present = s.present
  BY <1>7 DEF Query, QuerySteps
<1> HIDE DEF d
<1> QED
  BY <1>5, <1>7, <1>8 DEF times, left, at

LEMMA QueryTimeInv ==
  ASSUME Inv, QueriesInv, UNCHANGED vars, NEW k \in Queries, QueryTime(k)
  PROVE  QueriesInv'
<1> DEFINE s == query[k]
<1>1. /\ s \in Query /\ QuerySafe(s, wm, idx, members) /\ s.pc = "times"
  BY CurrentQuery DEF QueryTime, QueryAt
<1>2. PICK t \in Query :
        /\ Proceed(k, t)
        /\ t.kind = s.kind /\ t.user = s.user /\ t.posts = s.posts
        /\ t.offset = s.offset /\ t.next = s.next /\ t.found = s.found
        /\ t.todo = s.todo /\ t.ids = s.ids /\ t.sure = s.sure
        /\ t.indexed = s.indexed /\ t.present = s.present
        /\ t.pc \in {"times", "reply"}
  BY QueryTimeShape
<1>3. AsksFor(t) /\ HasWitnessed(t, wm, idx, members) /\ LooksAt(t)
  BY <1>1, <1>2 DEF QuerySafe, AsksFor, HasWitnessed, LooksAt
<1>4. HasCounted(t, wm)
  BY <1>1, <1>2 DEF QuerySafe, HasCounted, Truncated
<1>5. Proceed(k, t) /\ QuerySafe(t, wm, idx, members)
  BY <1>2, <1>3, <1>4 DEF QuerySafe
<1> QED
  BY <1>5, QueryMoves

(* Coverage stays. *)
LEMMA CoverageStays ==
  ASSUME Inv, [Next]_vars, NEW r \in Users, NEW p \in Posts, Covers(wm[r], p)
  PROVE  Covers(wm'[r], p)
<1>1. /\ wm[r] # Nil /\ wm[r] \in Watermark
      /\ wm'[r] # Nil /\ wm'[r] \in Watermark
      /\ wm'[r] = wm[r] \/ wm'[r].createAt > wm[r].createAt
  BY WatermarksForward, StepType DEF Inv, TypeOK, Covers
<1> QED
  BY <1>1, CreateAtAssumption DEF Covers, Watermark

(* The server moves: a query's histories follow it. *)
LEMMA ServerStepShape ==
  ASSUME Inv, query \in [Queries -> Query \cup {Nil}], ServerStep,
         NEW k \in Queries
  PROVE  /\ query' \in [Queries -> Query \cup {Nil}]
         /\ query'[k] # Nil <=> query[k] # Nil
         /\ query[k] # Nil =>
              LET s == query[k]
                  t == query'[k]
              IN  /\ t \in Query /\ t.pc = s.pc /\ t.pending = s.pending
                  /\ t.kind = s.kind /\ t.user = s.user /\ t.posts = s.posts
                  /\ t.offset = s.offset /\ t.next = s.next
                  /\ t.todo = s.todo /\ t.ids = s.ids
                  /\ t.found = s.found /\ t.times = s.times
                  /\ \A p \in Posts :
                       t.sure[p] = s.sure[p] \cap
                         Visible(s.user, p, wm', idx', members')
                  /\ t.indexed = s.indexed \cup (Range(idx') \ {s.user})
                  /\ t.present = s.present \cup members'
<1> DEFINE Moved(s) ==
             [s EXCEPT
                !.sure = [p \in Posts |-> s.sure[p] \cap VisibleTo'[s.user][p]],
                !.indexed = s.indexed \cup (Range(idx)' \ {s.user}),
                !.present = s.present \cup members']
<1>1. query' = [o \in Queries |-> IF query[o] = Nil THEN Nil ELSE Moved(query[o])]
  BY DEF ServerStep
<1>2. TypeOK'
  BY StepType DEF ServerStep, Inv
<1>3. ASSUME NEW s \in Query
      PROVE  LET t == Moved(s)
             IN  /\ t \in Query /\ t.pc = s.pc /\ t.pending = s.pending
                 /\ t.kind = s.kind /\ t.user = s.user /\ t.posts = s.posts
                 /\ t.offset = s.offset /\ t.next = s.next
                 /\ t.todo = s.todo /\ t.ids = s.ids
                 /\ t.found = s.found /\ t.times = s.times
                 /\ \A p \in Posts :
                      t.sure[p] = s.sure[p] \cap
                        Visible(s.user, p, wm', idx', members')
                 /\ t.indexed = s.indexed \cup (Range(idx') \ {s.user})
                 /\ t.present = s.present \cup members'
  <2> DEFINE seen == [p \in Posts |-> s.sure[p] \cap VisibleTo'[s.user][p]]
             indexed == s.indexed \cup (Range(idx)' \ {s.user})
             present == s.present \cup members'
             t == Moved(s)
  <2>1. seen \in [Posts -> SUBSET Users]
    BY DEF Query
  <2>2. \A p \in Posts : VisibleTo'[s.user][p] =
                           Visible(s.user, p, wm', idx', members')
    <3>1. s.user \in Users
      BY DEF Query
    <3> QED
      BY <3>1 DEF VisibleTo, Visible
  <2>3. indexed \in SUBSET Users /\ present \in SUBSET Users
    BY <1>2 DEF Query, TypeOK, Range
  <2>4. \A p \in Posts : seen[p] = s.sure[p] \cap
                           Visible(s.user, p, wm', idx', members')
    BY <2>2
  <2>5. /\ indexed = s.indexed \cup (Range(idx') \ {s.user})
        /\ t = [s EXCEPT !.sure = seen, !.indexed = indexed, !.present = present]
    OBVIOUS
  <2> HIDE DEF seen, indexed, t
  <2>6. /\ t \in Query /\ t.pc = s.pc /\ t.pending = s.pending
        /\ t.kind = s.kind /\ t.user = s.user /\ t.posts = s.posts
        /\ t.offset = s.offset /\ t.next = s.next
        /\ t.todo = s.todo /\ t.ids = s.ids
        /\ t.found = s.found /\ t.times = s.times
        /\ t.sure = seen /\ t.indexed = indexed /\ t.present = present
    BY <2>1, <2>3, <2>5 DEF Query
  <2> QED
    BY <2>4, <2>5, <2>6 DEF t
<1> HIDE DEF Moved
<1>4. ASSUME NEW o \in Queries, query[o] # Nil
      PROVE  query[o] \in Query /\ Moved(query[o]) \in Query
  BY <1>3, <1>4
<1>5. query' \in [Queries -> Query \cup {Nil}]
  BY <1>1, <1>4
<1>6. query[k] # Nil => query'[k] = Moved(query[k])
  BY <1>1
<1>7. query[k] = Nil => query'[k] = Nil
  BY <1>1
<1> QED
  BY <1>3, <1>4, <1>5, <1>6, <1>7, NilQueryAssumption

LEMMA ServerStepSafe ==
  ASSUME Inv, QueriesInv, ServerStep
  PROVE  QueriesInv'
<1>1. Inv' /\ [Next]_vars
  BY StepInv DEF ServerStep
<1>2. query \in [Queries -> Query \cup {Nil}]
  BY DEF QueriesInv
<1>3. ASSUME NEW k \in Queries, query'[k] # Nil
      PROVE  QuerySafe(query'[k], wm', idx', members')
  <2> DEFINE s == query[k]
             t == query'[k]
  <2>1. s # Nil /\ s \in Query /\ QuerySafe(s, wm, idx, members)
    BY <1>2, <1>3, ServerStepShape, CurrentQuery
  <2>2. /\ t.pc = s.pc /\ t.kind = s.kind /\ t.user = s.user /\ t.posts = s.posts
        /\ t.offset = s.offset /\ t.next = s.next
        /\ t.todo = s.todo /\ t.ids = s.ids /\ t.found = s.found
        /\ \A p \in Posts : t.sure[p] = s.sure[p] \cap
                              Visible(s.user, p, wm', idx', members')
        /\ t.indexed = s.indexed \cup (Range(idx') \ {s.user})
        /\ t.present = s.present \cup members'
    BY <1>2, <2>1, ServerStepShape
  <2> HIDE DEF t, s
  <2>3. AsksFor(t) /\ LooksAt(t)
    BY <2>1, <2>2 DEF QuerySafe, AsksFor, LooksAt
  <2>4. IsFiniteSet(t.indexed)
    <3>1. IsFiniteSet(Range(idx'))
      BY <1>1, IndexCardinality DEF Inv, TypeOK, IndexWellFormed
    <3>2. IsFiniteSet(Range(idx') \ {s.user})
      BY <3>1, FS_Subset
    <3>3. IsFiniteSet(s.indexed)
      BY <2>1 DEF QuerySafe, HasWitnessed
    <3>4. IsFiniteSet(s.indexed \cup (Range(idx') \ {s.user}))
      BY <3>2, <3>3, FS_Union
    <3> QED
      BY <2>2, <3>4
  <2>5. HasWitnessed(t, wm', idx', members')
    BY <2>1, <2>2, <2>4 DEF HasWitnessed
  <2>6. HasCounted(t, wm')
    <3> SUFFICES ASSUME s.kind = "counts" PROVE HasCounted(t, wm')
      BY <2>2 DEF HasCounted
    <3>1. ASSUME NEW p \in Posts, NEW r \in t.found[p]
          PROVE  r \in t.ids /\ Covers(wm'[r], p)
      <4>1. r \in s.ids /\ Covers(wm[r], p) /\ r \in Users
        BY <2>1, <2>2, <3>1 DEF QuerySafe, HasCounted, Query
      <4> QED
        BY <1>1, <2>2, <4>1, CoverageStays
    <3>2. t.pc \in {"index", "members"} => \A p \in Posts : t.found[p] = {}
      BY <2>1, <2>2 DEF QuerySafe, HasCounted
    <3>3. ASSUME t.pc # "index", ~Truncated(t), NEW p \in t.posts
          PROVE  t.sure[p] \subseteq t.found[p] \cup Range(t.todo)
      <4>1. p \in Posts /\ p \in s.posts /\ ~Truncated(s) /\ s.pc # "index"
        BY <2>1, <2>2, <3>3 DEF Query, Truncated
      <4>2. s.sure[p] \subseteq s.found[p] \cup Range(s.todo)
        BY <2>1, <4>1 DEF QuerySafe, HasCounted
      <4> QED
        BY <2>2, <4>1, <4>2
    <3> QED
      BY <3>1, <3>2, <3>3 DEF HasCounted
  <2> QED
    BY <2>3, <2>5, <2>6 DEF QuerySafe, t
<1>4. query' \in [Queries -> Query \cup {Nil}]
  <2>1. CASE Queries = {}
    BY <1>2, <2>1 DEF ServerStep
  <2>2. CASE Queries # {}
    BY <1>2, <2>2, ServerStepShape
  <2> QED
    BY <2>1, <2>2
<1> QED
  BY <1>3, <1>4 DEF QueriesInv

LEMMA QueryStepSafe ==
  ASSUME Inv, QueriesInv, UNCHANGED vars, NEW k \in Queries, QueryStep(k)
  PROVE  QueriesInv'
<1>1. ASSUME NEW u \in Users, NEW own \in SUBSET Posts, HandleQuery(k, u, own)
      PROVE  QueriesInv'
  <2>1. Proceed(k, NewQuery("counts", u, own))
    BY <1>1 DEF HandleQuery
  <2> QED
    BY <2>1, NewQueryInv
<1>2. ASSUME NEW p \in Posts, HandlePostReaders(k, p) PROVE QueriesInv'
  <2>1. Proceed(k, NewQuery("readers", Author[p], {p})) /\ Author[p] \in Users
    BY <1>2, UsersAssumption DEF HandlePostReaders
  <2> QED
    BY <2>1, NewQueryInv
<1>3. ASSUME EndQuery(k) \/ QueryFails(k) PROVE QueriesInv'
  <2>1. Proceed(k, Nil)
    BY <1>3 DEF EndQuery, QueryFails
  <2> QED
    BY <2>1, QueryMoves
<1> QED
  BY <1>1, <1>2, <1>3, NextPageInv, QueryIndexInv, QueryMembersInv, QueryReceiptInv,
     QueryWatermarkInv, QueryTimeInv DEF QueryStep

LEMMA StepQueries == Inv /\ QueriesInv /\ [QueryNext]_queryVars => QueriesInv'
<1> SUFFICES ASSUME Inv, QueriesInv, [QueryNext]_queryVars PROVE QueriesInv'
  OBVIOUS
<1>1. CASE ServerStep
  BY <1>1, ServerStepSafe
<1>2. ASSUME NEW k \in Queries, QueryStep(k), UNCHANGED vars PROVE QueriesInv'
  BY <1>2, QueryStepSafe
<1>3. CASE UNCHANGED queryVars
  BY <1>3 DEF queryVars, vars, store, env, QueriesInv
<1> QED
  BY <1>1, <1>2, <1>3 DEF QueryNext

LEMMA QueriesInvariance == QuerySpec => []QueriesInv
<1>1. QueryInit => QueriesInv
  BY DEF QueryInit, QueriesInv
<1> QED
  BY <1>1, StepQueries, ServerInvariance, PTL DEF QuerySpec

-----------------------------------------------------------------------------
(* The answers, whatever fails and whoever comes and goes. *)

(* No answer is ever put together from half a query: whatever the server   *)
(* does between two API calls of channelReaders or countReceipts, the      *)
(* offsets stay natural numbers and the page stays within the index.       *)
THEOREM QueriesTypeCorrect == QuerySpec => []QueryTypeOK
<1>1. Inv /\ QueriesInv => QueryTypeOK
  BY DEF Inv, QueriesInv, QueryTypeOK
<1> QED
  BY <1>1, ServerInvariance, QueriesInvariance, PTL

(* The counts of handleQuery are bracketed by what was true while it ran,  *)
(* with any number of handlers writing and members coming and going        *)
(* between its API calls (countReceipts, readerPage).                      *)
THEOREM CountsAreBracketed == QuerySpec => []CountsBracketed
<1>1. QueriesInv => CountsBracketed
  <2> SUFFICES ASSUME QueriesInv, NEW k \in Replies("counts"),
                      NEW p \in query[k].posts
               PROVE  LET s == query[k] IN
                        /\ Cardinality(s.found[p]) <=
                             Cardinality({r \in s.indexed \cap s.present :
                                            Covers(wm[r], p)})
                        /\ ~Truncated(s) =>
                             Cardinality(s.sure[p]) <= Cardinality(s.found[p])
    BY DEF CountsBracketed
  <2> DEFINE s == query[k]
             there == {r \in s.indexed \cap s.present : Covers(wm[r], p)}
  <2>1. /\ s \in Query /\ QuerySafe(s, wm, idx, members)
        /\ s.pc = "reply" /\ s.kind = "counts" /\ p \in Posts
    BY CurrentQuery DEF Replies, QueryAt, Query
  <2>2. s.found[p] \subseteq there
    BY <2>1 DEF QuerySafe, HasCounted, LooksAt
  <2>3. IsFiniteSet(there)
    BY <2>1, FS_Subset DEF QuerySafe, HasWitnessed
  <2> HIDE DEF there
  <2>4. /\ Cardinality(s.found[p]) <= Cardinality(there)
        /\ IsFiniteSet(s.found[p])
    BY <2>2, <2>3, FS_Subset
  <2>5. ~Truncated(s) => Cardinality(s.sure[p]) <= Cardinality(s.found[p])
    <3>1. DOMAIN s.todo = {}
      BY <2>1 DEF QuerySafe, LooksAt
    <3>2. Range(s.todo) = {}
      BY <3>1 DEF Range
    <3>3. ~Truncated(s) => s.sure[p] \subseteq s.found[p]
      BY <2>1, <3>2 DEF QuerySafe, HasCounted
    <3> QED
      BY <2>4, <3>3, FS_Subset
  <2> QED
    BY <2>4, <2>5 DEF there
<1> QED
  BY <1>1, QueriesInvariance, PTL

-----------------------------------------------------------------------------
(* The exact time belongs to the reader who is counted. *)

(* A time that is given is that of the only reader of the page: it is the  *)
(* receipt that is stored, as long as none has expired.                    *)
TimeGiven(s, p, receipts, now) ==
  /\ s.kind = "counts" /\ s.pc \in {"times", "reply"} /\ p \in ExactTimes(s)
  /\ now <= TTL => \A r \in s.ids : receipts[<<r, p>>] = s.times[p]

QueryTimed(s, receipts, now) ==
  /\ s.pc = "times" => s.kind = "counts" /\ s.pending \subseteq ExactTimes(s)
  /\ \A p \in Posts : s.times[p] # 0 => TimeGiven(s, p, receipts, now)

QueriesTimed ==
  \A k \in Queries : query[k] # Nil => QueryTimed(query[k], rr, clock)

LEMMA TimedMoves ==
  ASSUME QueriesInv, QueriesTimed, UNCHANGED vars, NEW k \in Queries,
         NEW t \in Query \cup {Nil}, Proceed(k, t),
         t # Nil => QueryTimed(t, rr, clock)
  PROVE  QueriesTimed'
<1>1. query'[k] = t /\ \A o \in Queries : o # k => query'[o] = query[o]
  BY ProceedType DEF QueriesInv
<1>2. UNCHANGED <<rr, clock>>
  BY DEF vars, store, env
<1>3. ASSUME NEW o \in Queries, query'[o] # Nil
      PROVE  QueryTimed(query'[o], rr, clock)
  BY <1>1, <1>3 DEF QueriesTimed
<1> QED
  BY <1>2, <1>3 DEF QueriesTimed

(* No time is given before the page is done. *)
LEMMA NoTimeYet ==
  ASSUME QueriesTimed, NEW k \in Queries, query[k] # Nil,
         query[k].pc \notin {"times", "reply"} \/ query[k].kind # "counts",
         NEW t \in Query, t.times = query[k].times,
         t.pc = "times" => t.kind = "counts" /\ t.pending = ExactTimes(t)
  PROVE  QueryTimed(t, rr, clock)
<1>1. \A p \in Posts : query[k].times[p] = 0
  BY DEF QueriesTimed, QueryTimed, TimeGiven
<1> QED
  BY <1>1 DEF QueryTimed

LEMMA QueryTimeTimed ==
  ASSUME Inv, QueriesInv, QueriesTimed, UNCHANGED vars, NEW k \in Queries,
         QueryTime(k)
  PROVE  QueriesTimed'
<1> DEFINE s == query[k]
<1>1. /\ s \in Query /\ QuerySafe(s, wm, idx, members) /\ s.pc = "times" /\ s # Nil
  BY CurrentQuery DEF QueryTime, QueryAt
<1>2. PICK p \in s.pending, r \in s.ids, t \in Query :
        /\ Proceed(k, t)
        /\ t.kind = s.kind /\ t.posts = s.posts
        /\ t.found = s.found /\ t.ids = s.ids
        /\ t.pending = s.pending \ {p}
        /\ t.times = [s.times EXCEPT ![p] = TimeOf(rr[<<r, p>>])]
        /\ t.pc \in {"times", "reply"}
  BY QueryTimeShape
<1>3. QueryTimed(s, rr, clock)
  BY <1>1 DEF QueriesTimed
<1>4. s.kind = "counts" /\ s.pending \subseteq ExactTimes(s)
  BY <1>1, <1>3 DEF QueryTimed
<1>5. ExactTimes(t) = ExactTimes(s)
  BY <1>2 DEF ExactTimes
<1>6. s.ids = {r}
  <2>1. IsFiniteSet(s.ids)
    BY <1>1, FS_Subset DEF QuerySafe, HasWitnessed, LooksAt
  <2>2. Cardinality(s.ids) = 1
    BY <1>4 DEF ExactTimes
  <2>3. \E x : s.ids = {x}
    BY <2>1, <2>2, FS_Singleton
  <2> QED
    BY <2>3
<1>7. p \in Posts /\ s.times \in [Posts -> Nat]
  BY <1>1 DEF Query
<1>8. t.times[p] # 0 => rr[<<r, p>>] = t.times[p]
  BY <1>2, <1>7 DEF TimeOf
<1>9. \A x \in Posts : x # p => t.times[x] = s.times[x]
  BY <1>2, <1>7
<1>10. ASSUME NEW x \in Posts, t.times[x] # 0 PROVE TimeGiven(t, x, rr, clock)
  <2>1. CASE x = p
    BY <1>2, <1>4, <1>5, <1>6, <1>8, <1>10, <2>1 DEF TimeGiven
  <2>2. CASE x # p
    BY <1>2, <1>3, <1>5, <1>9, <1>10, <2>2 DEF QueryTimed, TimeGiven
  <2> QED
    BY <2>1, <2>2
<1>11. QueryTimed(t, rr, clock)
  BY <1>2, <1>4, <1>5, <1>10 DEF QueryTimed
<1> QED
  BY <1>2, <1>11, TimedMoves

LEMMA DoneWithTimed ==
  ASSUME QueriesInv, QueriesTimed, UNCHANGED vars, NEW k \in Queries,
         query[k] # Nil, query[k].pc \in {"receipt", "watermark"},
         NEW readPosts \in SUBSET Posts, Proceed(k, DoneWith(query[k], readPosts))
  PROVE  QueriesTimed'
<1> DEFINE s == query[k]
           t == DoneWith(s, readPosts)
<1>1. s \in Query /\ DOMAIN s.todo # {}
  BY CurrentQuery DEF QuerySafe, LooksAt
<1>2. /\ t \in Query /\ t.times = s.times /\ t.kind = s.kind
      /\ s.kind # "counts" => t.pc # "times"
      /\ t.pc = "times" => t.pending = ExactTimes(t)
  BY <1>1, DoneWithShape
<1> HIDE DEF t
<1>3. QueryTimed(t, rr, clock)
  BY <1>2, NoTimeYet
<1> QED
  BY <1>2, <1>3, TimedMoves DEF t

LEMMA QueryStepTimed ==
  ASSUME Inv, QueriesInv, QueriesTimed, UNCHANGED vars, NEW k \in Queries,
         QueryStep(k)
  PROVE  QueriesTimed'
<1> DEFINE s == query[k]
<1>1. ASSUME NEW kind \in {"counts", "readers"}, NEW u \in Users,
             NEW own \in SUBSET Posts, Proceed(k, NewQuery(kind, u, own))
      PROVE  QueriesTimed'
  <2> DEFINE t == NewQuery(kind, u, own)
  <2>1. t \in Query
    BY NewQueryType DEF Inv
  <2>2. t.pc = "index" /\ t.times = [p \in Posts |-> 0]
    BY DEF NewQuery
  <2> HIDE DEF t
  <2>3. QueryTimed(t, rr, clock)
    BY <2>2 DEF QueryTimed
  <2> QED
    BY <1>1, <2>1, <2>3, TimedMoves DEF t
<1>2. ASSUME NEW u \in Users, NEW own \in SUBSET Posts, HandleQuery(k, u, own)
      PROVE  QueriesTimed'
  BY <1>1, <1>2 DEF HandleQuery
<1>3. ASSUME NEW p \in Posts, HandlePostReaders(k, p) PROVE QueriesTimed'
  <2>1. Author[p] \in Users /\ {p} \in SUBSET Posts
    BY UsersAssumption
  <2> QED
    BY <1>1, <1>3, <2>1 DEF HandlePostReaders
<1>4. ASSUME EndQuery(k) \/ QueryFails(k) PROVE QueriesTimed'
  <2>1. Proceed(k, Nil)
    BY <1>4 DEF EndQuery, QueryFails
  <2> QED
    BY <2>1, TimedMoves
<1>5. CASE NextPage(k)
  <2> DEFINE t == [s EXCEPT !.pc = "index", !.offset = s.next, !.next = 0, !.ids = {}]
  <2>1. s \in Query /\ s.kind = "readers" /\ s.next \in Nat /\ s # Nil
    BY <1>5, CurrentQuery DEF NextPage, QueryAt, Query
  <2>2. Proceed(k, t)
    BY <1>5 DEF NextPage
  <2>3. t \in Query /\ t.pc = "index" /\ t.times = s.times
    BY <2>1 DEF Query, QuerySteps
  <2> HIDE DEF t
  <2>4. QueryTimed(t, rr, clock)
    BY <2>1, <2>3, NoTimeYet
  <2> QED
    BY <2>2, <2>3, <2>4, TimedMoves
<1>6. CASE QueryIndex(k)
  <2>1. s.pc = "index" /\ s # Nil
    BY <1>6 DEF QueryIndex, QueryAt
  <2>2. PICK t \in Query : Proceed(k, t) /\ t.pc = "members" /\ t.times = s.times
    BY <1>6, QueryIndexShape
  <2>3. QueryTimed(t, rr, clock)
    BY <2>1, <2>2, NoTimeYet
  <2> QED
    BY <2>2, <2>3, TimedMoves
<1>7. CASE QueryMembers(k)
  <2>1. s.pc = "members" /\ s # Nil
    BY <1>7 DEF QueryMembers, QueryAt
  <2>2. PICK u, t \in Query : /\ Proceed(k, t) /\ t = NextReader(u)
                              /\ SameQuery(t, u) /\ u.times = s.times
    BY <1>7, QueryMembersShape
  <2>3. t.pc = "times" => t.kind = "counts" /\ t.pending = ExactTimes(u)
    BY <2>2, NextReaderShape DEF SameQuery
  <2>4. ExactTimes(t) = ExactTimes(u) /\ t.times = s.times
    BY <2>2 DEF ExactTimes, SameQuery
  <2>5. QueryTimed(t, rr, clock)
    BY <2>1, <2>3, <2>4, NoTimeYet
  <2> QED
    BY <2>2, <2>5, TimedMoves
<1>8. CASE QueryReceipt(k)
  <2>1. s \in Query /\ s.pc = "receipt" /\ s # Nil /\ s.posts \subseteq Posts
    BY <1>8, CurrentQuery DEF QueryReceipt, QueryAt, Query
  <2>2. ASSUME NEW p \in s.posts, Proceed(k, DoneWith(s, {p})) PROVE QueriesTimed'
    BY <2>1, <2>2, DoneWithTimed
  <2>3. ASSUME Proceed(k, [s EXCEPT !.pc = "watermark"]) PROVE QueriesTimed'
    <3> DEFINE t == [s EXCEPT !.pc = "watermark"]
    <3>1. t \in Query /\ t.pc = "watermark" /\ t.times = s.times
      BY <2>1 DEF Query, QuerySteps
    <3>2. Proceed(k, t)
      BY <2>3
    <3> HIDE DEF t
    <3>3. QueryTimed(t, rr, clock)
      BY <2>1, <3>1, NoTimeYet
    <3> QED
      BY <3>1, <3>2, <3>3, TimedMoves
  <2> QED
    BY <1>8, <2>2, <2>3 DEF QueryReceipt
<1>9. CASE QueryWatermark(k)
  <2> DEFINE readPosts == {p \in s.posts : Covers(wm[Reader(s)], p)}
  <2>1. s.pc = "watermark" /\ s # Nil /\ readPosts \in SUBSET Posts
    BY <1>9, CurrentQuery DEF QueryWatermark, QueryAt, Query
  <2>2. Proceed(k, DoneWith(s, readPosts))
    BY <1>9 DEF QueryWatermark
  <2> QED
    BY <2>1, <2>2, DoneWithTimed
<1> QED
  BY <1>2, <1>3, <1>4, <1>5, <1>6, <1>7, <1>8, <1>9, QueryTimeTimed DEF QueryStep

LEMMA ClockForward ==
  ASSUME Inv, [Next]_vars
  PROVE  clock \in Nat /\ (clock' = clock \/ clock' = clock + 1)
BY DEF Inv, TypeOK, Next, HandleRead, HandlerStep, Environment, GetWatermark,
       GetIndex, PruneIndex, CasIndex, PutReceipt, ReadStored, GetCurrent,
       CasWatermark, PublishReceipt, PublishChanged, Respond, KVError, Crash,
       Leave, Join, SetEnabled, Expire, Tick, vars, env

LEMMA ServerStepTimed ==
  ASSUME Inv, QueriesInv, QueriesTimed, ServerStep
  PROVE  QueriesTimed'
<1> SUFFICES ASSUME NEW k \in Queries, query'[k] # Nil
             PROVE  QueryTimed(query'[k], rr', clock')
  BY DEF QueriesTimed
<1> DEFINE s == query[k]
           t == query'[k]
<1>1. query \in [Queries -> Query \cup {Nil}] /\ [Next]_vars
  BY DEF QueriesInv, ServerStep
<1>2. /\ s # Nil /\ s \in Query
      /\ t.pc = s.pc /\ t.pending = s.pending /\ t.kind = s.kind
      /\ t.posts = s.posts /\ t.ids = s.ids /\ t.found = s.found
      /\ t.times = s.times
  BY <1>1, ServerStepShape, CurrentQuery
<1>3. QueryTimed(s, rr, clock)
  BY <1>2 DEF QueriesTimed
<1> HIDE DEF s, t
<1>4. ExactTimes(t) = ExactTimes(s)
  BY <1>2 DEF ExactTimes
<1>5. ASSUME NEW p \in Posts, t.times[p] # 0
      PROVE  TimeGiven(t, p, rr', clock')
  <2>1. TimeGiven(s, p, rr, clock)
    BY <1>2, <1>3, <1>5 DEF QueryTimed
  <2>2. ASSUME clock' <= TTL, NEW r \in s.ids PROVE rr'[<<r, p>>] = s.times[p]
    <3>1. clock \in Nat /\ clock <= TTL /\ TTL \in Nat
      BY <1>1, <2>2, ClockForward, BoundsAssumption
    <3>2. rr[<<r, p>>] = s.times[p]
      BY <2>1, <3>1 DEF TimeGiven
    <3>3. s.times[p] \in Nat \ {0} /\ <<r, p>> \in Users \X Posts
      BY <1>2, <1>5, <2>2 DEF Query
    <3>4. rr[<<r, p>>] # Nil
      BY <3>2, <3>3, NilAssumption
    <3>5. \/ rr'[<<r, p>>] = rr[<<r, p>>]
          \/ clock >= rr[<<r, p>>] + TTL
      BY <1>1, <3>3, <3>4, ReceiptsKept
    <3>6. ~(clock >= s.times[p] + TTL)
      BY <3>1, <3>3
    <3> QED
      BY <3>2, <3>5, <3>6
  <2> QED
    BY <1>2, <1>4, <2>1, <2>2 DEF TimeGiven
<1>6. QueryTimed(t, rr', clock')
  BY <1>2, <1>3, <1>4, <1>5 DEF QueryTimed
<1> QED
  BY <1>6 DEF t

LEMMA StepTimed ==
  Inv /\ QueriesInv /\ QueriesTimed /\ [QueryNext]_queryVars => QueriesTimed'
<1> SUFFICES ASSUME Inv, QueriesInv, QueriesTimed, [QueryNext]_queryVars
             PROVE  QueriesTimed'
  OBVIOUS
<1>1. CASE ServerStep
  BY <1>1, ServerStepTimed
<1>2. ASSUME NEW k \in Queries, QueryStep(k), UNCHANGED vars PROVE QueriesTimed'
  BY <1>2, QueryStepTimed
<1>3. CASE UNCHANGED queryVars
  BY <1>3 DEF queryVars, vars, store, env, QueriesTimed
<1> QED
  BY <1>1, <1>2, <1>3 DEF QueryNext

(* The exact read time that countReceipts puts next to a count of one is   *)
(* the time announced to the author for the reader it counted, although    *)
(* the index, the members, the watermarks and the receipts are read one    *)
(* after the other (as long as getReceipt does not fail in a handler).     *)
THEOREM ExactTimesBelongToTheReader ==
  ASSUME "lookup" \notin Faults
  PROVE  QuerySpec => []ExactTimeIsTheReaders
<1>1. QueriesInv /\ QueriesTimed /\ TimesInv => ExactTimeIsTheReaders
  <2> SUFFICES ASSUME QueriesInv, QueriesTimed, TimesInv, clock <= TTL,
                      NEW k \in Replies("counts"), NEW p \in query[k].posts,
                      query[k].times[p] # 0
               PROVE  \E r \in query[k].indexed \cap query[k].present :
                        /\ Covers(wm[r], p)
                        /\ \A e \in announced : e.reader = r /\ e.post = p =>
                                                  e.readAt = query[k].times[p]
    BY DEF ExactTimeIsTheReaders
  <2> DEFINE s == query[k]
  <2>1. /\ s \in Query /\ QuerySafe(s, wm, idx, members) /\ s # Nil
        /\ s.kind = "counts" /\ p \in Posts /\ k \in Queries
    BY CurrentQuery DEF Replies, QueryAt, Query
  <2>2. TimeGiven(s, p, rr, clock)
    BY <2>1 DEF QueriesTimed, QueryTimed
  <2>3. s.found[p] \subseteq s.ids /\ Cardinality(s.found[p]) = 1
    BY <2>1, <2>2 DEF QuerySafe, HasCounted, TimeGiven, ExactTimes
  <2>4. IsFiniteSet(s.found[p])
    BY <2>1, <2>3, FS_Subset DEF QuerySafe, HasWitnessed, LooksAt
  <2>5. PICK r : s.found[p] = {r}
    BY <2>3, <2>4, FS_Singleton
  <2>6. r \in s.indexed \cap s.present /\ Covers(wm[r], p) /\ r \in s.ids
    BY <2>1, <2>3, <2>5 DEF QuerySafe, HasCounted, LooksAt
  <2>7. rr[<<r, p>>] = s.times[p]
    BY <2>2, <2>6 DEF TimeGiven
  <2>8. \A e \in announced : e.reader = r /\ e.post = p => e.readAt = s.times[p]
    BY <2>7 DEF TimesInv
  <2> QED
    BY <2>6, <2>8
<1>2. QueryInit => QueriesTimed
  BY DEF QueryInit, QueriesTimed
<1> QED
  BY <1>1, <1>2, StepTimed, ServerInvariance, QueriesInvariance, ServerTimes, PTL
     DEF QuerySpec

-----------------------------------------------------------------------------
(* Paging through the list of readers skips nobody. *)

(* The readers behind the first n places. *)
After(index, n) == {index[i] : i \in {j \in DOMAIN index : j > n}}

(* Whom the pages to come can still show. *)
Ahead(s, index) ==
  IF s.pc = "index" THEN After(index, s.offset)
  ELSE Range(s.todo) \cup (IF Truncated(s) THEN After(index, s.next) ELSE {})

PagesCover(s, index) ==
  s.kind = "readers" =>
    \A p \in s.posts : s.sure[p] \subseteq s.found[p] \cup Ahead(s, index)

QueriesCover == \A k \in Queries : query[k] # Nil => PagesCover(query[k], idx)

LEMMA CoverMoves ==
  ASSUME QueriesInv, QueriesCover, UNCHANGED vars, NEW k \in Queries,
         NEW t \in Query \cup {Nil}, Proceed(k, t),
         t # Nil => PagesCover(t, idx)
  PROVE  QueriesCover'
<1>1. query'[k] = t /\ \A o \in Queries : o # k => query'[o] = query[o]
  BY ProceedType DEF QueriesInv
<1>2. UNCHANGED idx
  BY DEF vars, store
<1>3. ASSUME NEW o \in Queries, query'[o] # Nil PROVE PagesCover(query'[o], idx)
  BY <1>1, <1>3 DEF QueriesCover
<1> QED
  BY <1>2, <1>3 DEF QueriesCover

(* The first page starts before everybody. *)
LEMMA NewQueryCover ==
  ASSUME Inv, QueriesInv, QueriesCover, UNCHANGED vars, NEW k \in Queries,
         NEW kind \in {"counts", "readers"}, NEW u \in Users,
         NEW own \in SUBSET Posts, Proceed(k, NewQuery(kind, u, own))
  PROVE  QueriesCover'
<1> DEFINE t == NewQuery(kind, u, own)
<1>1. t \in Query
  BY NewQueryType DEF Inv
<1>2. t.pc = "index" /\ t.offset = 0 /\ t.sure = VisibleTo[u] /\ t.posts = own
  BY DEF NewQuery
<1> HIDE DEF t
<1>3. ASSUME NEW p \in own PROVE t.sure[p] \subseteq After(idx, 0)
  <2>1. t.sure[p] \subseteq Range(idx)
    BY <1>2, VisibleType DEF Inv
  <2>2. \A i \in DOMAIN idx : i > 0
    BY DEF Inv, TypeOK
  <2> QED
    BY <2>1, <2>2 DEF After, Range
<1>4. PagesCover(t, idx)
  BY <1>2, <1>3 DEF PagesCover, Ahead
<1> QED
  BY <1>1, <1>4, CoverMoves DEF t

(* The next page starts where the last one ended. *)
LEMMA NextPageCover ==
  ASSUME Inv, QueriesInv, QueriesCover, UNCHANGED vars, NEW k \in Queries,
         NextPage(k)
  PROVE  QueriesCover'
<1> DEFINE s == query[k]
           t == [s EXCEPT !.pc = "index", !.offset = s.next, !.next = 0, !.ids = {}]
<1>1. /\ s \in Query /\ s # Nil /\ QuerySafe(s, wm, idx, members)
      /\ s.pc = "reply" /\ Truncated(s) /\ s.next \in Nat
  BY CurrentQuery DEF NextPage, QueryAt, Query
<1>2. Proceed(k, t)
  BY DEF NextPage
<1>3. /\ t \in Query /\ t.pc = "index" /\ t.offset = s.next /\ t.kind = s.kind
      /\ t.posts = s.posts /\ t.sure = s.sure /\ t.found = s.found
  BY <1>1 DEF Query, QuerySteps
<1> HIDE DEF t
<1>4. DOMAIN s.todo = {}
  BY <1>1 DEF QuerySafe, LooksAt
<1>5. Ahead(t, idx) = Ahead(s, idx)
  BY <1>1, <1>3, <1>4 DEF Ahead, Range
<1>6. PagesCover(t, idx)
  BY <1>1, <1>3, <1>5 DEF PagesCover, QueriesCover
<1> QED
  BY <1>2, <1>3, <1>6, CoverMoves

LEMMA QueryIndexCover ==
  ASSUME Inv, QueriesInv, QueriesCover, UNCHANGED vars, NEW k \in Queries,
         QueryIndex(k)
  PROVE  QueriesCover'
<1> DEFINE s == query[k]
<1>1. /\ s \in Query /\ s # Nil /\ QuerySafe(s, wm, idx, members) /\ s.pc = "index"
  BY CurrentQuery DEF QueryIndex, QueryAt
<1>2. PICK t \in Query :
        /\ Proceed(k, t)
        /\ t.pc = "members" /\ t.kind = s.kind /\ t.posts = s.posts
        /\ t.found = s.found /\ t.sure = s.sure
        /\ \A i \in DOMAIN idx : i > s.offset /\ idx[i] # s.user =>
             \/ idx[i] \in Range(t.todo)
             \/ t.next # 0 /\ i > t.next
  BY QueryIndexShape
<1>3. ASSUME s.kind = "readers", NEW p \in s.posts, NEW r \in t.sure[p],
             r \notin t.found[p]
      PROVE  r \in Ahead(t, idx)
  <2>1. p \in Posts
    BY <1>1, <1>3 DEF Query
  <2>2. r # s.user
    BY <1>1, <1>2, <1>3, <2>1 DEF QuerySafe, HasWitnessed, Visible
  <2>3. r \in After(idx, s.offset)
    BY <1>1, <1>2, <1>3 DEF QueriesCover, PagesCover, Ahead
  <2>4. PICK i \in DOMAIN idx : i > s.offset /\ idx[i] = r
    BY <2>3 DEF After
  <2>5. r \in Range(t.todo) \/ (t.next # 0 /\ i > t.next)
    BY <1>2, <2>2, <2>4
  <2> QED
    BY <1>2, <2>4, <2>5 DEF Ahead, After, Truncated
<1>4. PagesCover(t, idx)
  BY <1>2, <1>3 DEF PagesCover
<1> QED
  BY <1>2, <1>4, CoverMoves

LEMMA QueryMembersCover ==
  ASSUME Inv, QueriesInv, QueriesCover, UNCHANGED vars, NEW k \in Queries,
         QueryMembers(k)
  PROVE  QueriesCover'
<1> DEFINE s == query[k]
<1>1. /\ s \in Query /\ s # Nil /\ QuerySafe(s, wm, idx, members)
      /\ s.pc = "members"
  BY CurrentQuery DEF QueryMembers, QueryAt
<1>2. PICK u, t \in Query :
        /\ Proceed(k, t)
        /\ t = NextReader(u) /\ SameQuery(t, u)
        /\ u.kind = s.kind /\ u.posts = s.posts /\ u.next = s.next
        /\ u.found = s.found /\ u.sure = s.sure
        /\ Range(u.todo) = Range(s.todo) \cap members
  BY QueryMembersShape
<1>3. /\ t.kind = s.kind /\ t.posts = s.posts /\ t.next = s.next
      /\ t.found = s.found /\ t.sure = s.sure
      /\ Range(t.todo) = Range(s.todo) \cap members
      /\ t.pc # "index"
  BY <1>2, NextReaderShape DEF SameQuery
<1>4. ASSUME s.kind = "readers", NEW p \in s.posts, NEW r \in t.sure[p],
             r \notin t.found[p]
      PROVE  r \in Ahead(t, idx)
  <2>1. p \in Posts
    BY <1>1, <1>4 DEF Query
  <2>2. r \in members
    BY <1>1, <1>3, <1>4, <2>1 DEF QuerySafe, HasWitnessed, Visible
  <2>3. r \in Ahead(s, idx)
    BY <1>1, <1>3, <1>4 DEF QueriesCover, PagesCover
  <2> QED
    BY <1>1, <1>3, <2>2, <2>3 DEF Ahead, Truncated
<1>5. PagesCover(t, idx)
  BY <1>3, <1>4 DEF PagesCover
<1> QED
  BY <1>2, <1>5, CoverMoves

(* Whoever leaves the page is found, or was not visible all along.         *)
LEMMA DoneWithCover ==
  ASSUME Inv, QueriesInv, QueriesCover, UNCHANGED vars, NEW k \in Queries,
         query[k] # Nil, query[k].pc \in {"receipt", "watermark"},
         NEW readPosts \in SUBSET Posts,
         query[k].kind = "readers" => \A p \in query[k].posts :
           Covers(wm[Reader(query[k])], p) => p \in readPosts,
         Proceed(k, DoneWith(query[k], readPosts))
  PROVE  QueriesCover'
<1> DEFINE s == query[k]
           o == Reader(s)
           t == DoneWith(s, readPosts)
<1>1. /\ s \in Query /\ QuerySafe(s, wm, idx, members) /\ DOMAIN s.todo # {}
      /\ s.pc \in {"receipt", "watermark"}
  BY CurrentQuery DEF QuerySafe, LooksAt
<1>2. /\ t \in Query /\ t.kind = s.kind /\ t.posts = s.posts /\ t.next = s.next
      /\ t.sure = s.sure
      /\ Range(s.todo) \subseteq Range(t.todo) \cup {o}
      /\ \A p \in Posts :
           t.found[p] = s.found[p] \cup IF p \in readPosts THEN {o} ELSE {}
      /\ t.pc # "index"
  BY <1>1, DoneWithShape
<1> HIDE DEF t, o
<1>3. ASSUME s.kind = "readers", NEW p \in s.posts, NEW r \in t.sure[p],
             r \notin t.found[p]
      PROVE  r \in Ahead(t, idx)
  <2>1. p \in Posts
    BY <1>1, <1>3 DEF Query
  <2>2. Covers(wm[r], p)
    BY <1>1, <1>2, <1>3, <2>1 DEF QuerySafe, HasWitnessed, Visible
  <2>3. r # o
    <3>1. ASSUME r = o PROVE p \in readPosts
      BY <1>3, <2>2, <3>1 DEF o
    <3> QED
      BY <1>2, <1>3, <2>1, <3>1
  <2>4. r \in Ahead(s, idx)
    BY <1>2, <1>3, <2>1 DEF QueriesCover, PagesCover
  <2> QED
    BY <1>1, <1>2, <2>3, <2>4 DEF Ahead, Truncated
<1>4. PagesCover(t, idx)
  BY <1>2, <1>3 DEF PagesCover
<1> QED
  BY <1>2, <1>4, CoverMoves DEF t

LEMMA QueryTimeCover ==
  ASSUME Inv, QueriesInv, QueriesCover, UNCHANGED vars, NEW k \in Queries,
         QueryTime(k)
  PROVE  QueriesCover'
<1> DEFINE s == query[k]
<1>1. s.pc = "times" /\ s # Nil /\ QuerySafe(s, wm, idx, members) /\ s \in Query
  BY CurrentQuery DEF QueryTime, QueryAt
<1>2. PICK t \in Query : Proceed(k, t) /\ t.kind = s.kind
  BY QueryTimeShape
<1>3. s.kind # "readers"
  BY <1>1 DEF QuerySafe, AsksFor
<1>4. PagesCover(t, idx)
  BY <1>2, <1>3 DEF PagesCover
<1> QED
  BY <1>2, <1>4, CoverMoves

LEMMA QueryReceiptCover ==
  ASSUME Inv, QueriesInv, QueriesCover, UNCHANGED vars, NEW k \in Queries,
         QueryReceipt(k)
  PROVE  QueriesCover'
<1> DEFINE s == query[k]
<1>1. /\ s \in Query /\ QuerySafe(s, wm, idx, members) /\ s.pc = "receipt"
      /\ s # Nil /\ s.posts \subseteq Posts
  BY CurrentQuery DEF QueryReceipt, QueryAt, Query
<1>2. ASSUME NEW p \in s.posts, Proceed(k, DoneWith(s, {p})) PROVE QueriesCover'
  <2>1. s.kind = "readers" => s.posts = {p}
    BY <1>1 DEF QuerySafe, AsksFor
  <2> QED
    BY <1>1, <1>2, <2>1, DoneWithCover
<1>3. ASSUME Proceed(k, [s EXCEPT !.pc = "watermark"]) PROVE QueriesCover'
  <2> DEFINE t == [s EXCEPT !.pc = "watermark"]
  <2>1. t \in Query /\ t.pc = "watermark" /\ SameQuery(t, s)
    BY <1>1 DEF Query, QuerySteps, SameQuery
  <2>2. Proceed(k, t)
    BY <1>3
  <2> HIDE DEF t
  <2>3. PagesCover(s, idx)
    BY <1>1 DEF QueriesCover
  <2>4. Ahead(t, idx) = Ahead(s, idx)
    BY <1>1, <2>1 DEF Ahead, SameQuery, Truncated
  <2>5. PagesCover(t, idx)
    BY <2>1, <2>3, <2>4 DEF PagesCover, SameQuery
  <2> QED
    BY <2>1, <2>2, <2>5, CoverMoves
<1> QED
  BY <1>2, <1>3 DEF QueryReceipt

LEMMA QueryStepCover ==
  ASSUME Inv, QueriesInv, QueriesCover, UNCHANGED vars, NEW k \in Queries,
         QueryStep(k)
  PROVE  QueriesCover'
<1> DEFINE s == query[k]
<1>1. ASSUME NEW u \in Users, NEW own \in SUBSET Posts, HandleQuery(k, u, own)
      PROVE  QueriesCover'
  BY <1>1, NewQueryCover DEF HandleQuery
<1>2. ASSUME NEW p \in Posts, HandlePostReaders(k, p) PROVE QueriesCover'
  <2>1. Author[p] \in Users /\ {p} \in SUBSET Posts
    BY UsersAssumption
  <2> QED
    BY <1>2, <2>1, NewQueryCover DEF HandlePostReaders
<1>3. ASSUME EndQuery(k) \/ QueryFails(k) PROVE QueriesCover'
  <2>1. Proceed(k, Nil)
    BY <1>3 DEF EndQuery, QueryFails
  <2> QED
    BY <2>1, CoverMoves
<1>4. CASE QueryWatermark(k)
  <2> DEFINE readPosts == {p \in s.posts : Covers(wm[Reader(s)], p)}
  <2>1. s.pc = "watermark" /\ s # Nil /\ readPosts \in SUBSET Posts
    BY <1>4, CurrentQuery DEF QueryWatermark, QueryAt, Query
  <2>2. Proceed(k, DoneWith(s, readPosts))
    BY <1>4 DEF QueryWatermark
  <2> QED
    BY <2>1, <2>2, DoneWithCover
<1> QED
  BY <1>1, <1>2, <1>3, <1>4, NextPageCover, QueryIndexCover, QueryMembersCover,
     QueryReceiptCover, QueryTimeCover DEF QueryStep

(* The index grows at its end: whoever is ahead stays ahead. *)
LEMMA ServerStepCover ==
  ASSUME IndexHasRoom, Inv, NoticeInv, QueriesInv, QueriesCover, ServerStep
  PROVE  QueriesCover'
<1> SUFFICES ASSUME NEW k \in Queries, query'[k] # Nil
             PROVE  PagesCover(query'[k], idx')
  BY DEF QueriesCover
<1> DEFINE s == query[k]
           t == query'[k]
<1>1. query \in [Queries -> Query \cup {Nil}] /\ [Next]_vars
  BY DEF QueriesInv, ServerStep
<1>2. /\ s # Nil /\ s \in Query
      /\ t.pc = s.pc /\ t.kind = s.kind /\ t.posts = s.posts
      /\ t.offset = s.offset /\ t.next = s.next
      /\ t.todo = s.todo /\ t.found = s.found
      /\ \A p \in Posts : t.sure[p] \subseteq s.sure[p]
  BY <1>1, ServerStepShape, CurrentQuery
<1>3. PagesCover(s, idx)
  BY <1>2 DEF QueriesCover
<1> HIDE DEF s, t
<1>4. \A i \in DOMAIN idx : i \in DOMAIN idx' /\ idx'[i] = idx[i]
  <2>1. idx \in Seq(Users)
    BY DEF Inv, TypeOK
  <2>2. UNCHANGED idx \/ \E r \in Users : idx' = Append(idx, r)
    BY <1>1, IndexGrows
  <2> QED
    BY <2>1, <2>2
<1>5. \A n : After(idx, n) \subseteq After(idx', n)
  BY <1>4 DEF After
<1>6. Ahead(s, idx) \subseteq Ahead(t, idx')
  BY <1>2, <1>5 DEF Ahead, Truncated
<1>7. s.posts \subseteq Posts
  BY <1>2 DEF Query
<1>8. PagesCover(t, idx')
  BY <1>2, <1>3, <1>6, <1>7 DEF PagesCover
<1> QED
  BY <1>8 DEF t

LEMMA StepCover ==
  ASSUME IndexHasRoom
  PROVE  Inv /\ NoticeInv /\ QueriesInv /\ QueriesCover /\ [QueryNext]_queryVars
           => QueriesCover'
<1> SUFFICES ASSUME Inv, NoticeInv, QueriesInv, QueriesCover,
                    [QueryNext]_queryVars
             PROVE  QueriesCover'
  OBVIOUS
<1>1. CASE ServerStep
  BY <1>1, ServerStepCover
<1>2. ASSUME NEW k \in Queries, QueryStep(k), UNCHANGED vars PROVE QueriesCover'
  BY <1>2, QueryStepCover
<1>3. CASE UNCHANGED queryVars
  BY <1>3 DEF queryVars, vars, store, QueriesCover
<1> QED
  BY <1>1, <1>2, <1>3 DEF QueryNext

LEMMA ServerNotice ==
  ASSUME IndexHasRoom
  PROVE  QuerySpec => []NoticeInv
<1>1. QueryInit => Init
  BY DEF QueryInit
<1>2. Inv /\ NoticeInv /\ [QueryNext]_queryVars => NoticeInv'
  BY StepNotice, ServerRunsOn
<1> QED
  BY <1>1, <1>2, InitNotice, ServerInvariance, PTL DEF QuerySpec

(* As long as every reader fits into the index, "Show more" to the end     *)
(* shows everybody who was a visible reader all along: no offset loses a   *)
(* place to readers who are indexed, leave or come back between two pages  *)
(* (readerPage's nextOffset, handlePostReaders).                           *)
THEOREM ShowMoreSkipsNobody ==
  ASSUME IndexHasRoom
  PROVE  QuerySpec => []PagesSkipNobody
<1>1. QueriesInv /\ QueriesCover => PagesSkipNobody
  <2> SUFFICES ASSUME QueriesInv, QueriesCover, NEW k \in Replies("readers"),
                      ~Truncated(query[k]), NEW p \in query[k].posts
               PROVE  query[k].sure[p] \subseteq query[k].found[p]
    BY DEF PagesSkipNobody
  <2> DEFINE s == query[k]
  <2>1. /\ k \in Queries /\ s # Nil /\ s.pc = "reply" /\ s.kind = "readers"
        /\ QuerySafe(s, wm, idx, members)
    BY CurrentQuery DEF Replies, QueryAt
  <2>2. DOMAIN s.todo = {}
    BY <2>1 DEF QuerySafe, LooksAt
  <2>3. Ahead(s, idx) = {}
    BY <2>1, <2>2 DEF Ahead, Range
  <2> QED
    BY <2>1, <2>3 DEF QueriesCover, PagesCover
<1>2. QueryInit => QueriesCover
  BY DEF QueryInit, QueriesCover
<1>3. Inv /\ NoticeInv /\ QueriesInv /\ QueriesCover /\ [QueryNext]_queryVars
        => QueriesCover'
  BY StepCover
<1> QED
  BY <1>1, <1>2, <1>3, ServerInvariance, ServerNotice, QueriesInvariance, PTL
     DEF QuerySpec
=============================================================================
