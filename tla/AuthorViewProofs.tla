--------------------------- MODULE AuthorViewProofs ---------------------------
(***************************************************************************)
(* Theorems about AuthorView, for any readers, page size, profiles known   *)
(* at first, number of pages in flight and number of failures.             *)
(***************************************************************************)
EXTENDS AuthorView, FiniteSetTheorems, SequenceTheorems, TLAPS

(* L has every reader of the first window whose receipt was applied. *)
Whole(L) ==
  \A i \in 1..Len(index) : i <= PageSize /\ index[i] \in told => index[i] \in L

(* Receipts are of readers. *)
ReadsInv ==
  /\ IsFiniteSet(read) /\ told \subseteq read
  /\ \A i \in DOMAIN events : events[i] \in read \cup {Nil}

Answered == query # Nil /\ query.answer # Nil

(* No answer, applied or on its way, counts more than have read. *)
CountsInv ==
  /\ status.count <= Cardinality(read)
  /\ Answered => query.answer.count <= Cardinality(read)

(* Nor does an answer go out of date with nothing to replace it. *)
DueInv ==
  /\ OutdatedCountIsDue
  /\ Answered => query.answer = CountOnServer \/ due \/ events # <<>>

ListsInv == readers # Nil => readers.list \subseteq read /\ Whole(readers.list)

(* A page that will be accepted is whole, or follows a list that is. *)
GoodPage(g) ==
  /\ g.epoch <= epoch
  /\ g.answer # Nil => g.answer.list \subseteq read
  /\ g.epoch = epoch => IF g.offset > 0 THEN readers # Nil
                        ELSE g.answer # Nil => Whole(g.answer.list)

PagesInv == \A i \in InFlight : GoodPage(pages[i])

IInv ==
  /\ TypeOK /\ ReadsInv /\ CountsInv /\ DueInv /\ ListsInv /\ PagesInv
  /\ LoadingHasCause /\ NamedUnlessFailed

-----------------------------------------------------------------------------
(* The helpers. *)

LEMMA WindowType ==
  ASSUME TypeOK, ReadsInv, NEW offset \in Nat
  PROVE  Window(offset) \in ReaderList /\ Window(offset).list \subseteq read
<1>1. Len(index) \in Nat /\ PageSize \in Nat
  BY AuthorAssumption DEF TypeOK
<1>2. read \subseteq Readers
  BY DEF TypeOK
<1> QED
  BY <1>1, <1>2 DEF Window, NextOffset, ReaderList

LEMMA FirstWindowWhole ==
  ASSUME TypeOK, ReadsInv
  PROVE  Whole(Window(0).list)
<1>1. Len(index) \in Nat /\ PageSize \in Nat /\ told \subseteq read
  BY AuthorAssumption DEF TypeOK, ReadsInv
<1> QED
  BY <1>1 DEF Window, Whole

LEMMA CountOnServerType ==
  ASSUME TypeOK, ReadsInv
  PROVE  CountOnServer \in Status /\ CountOnServer.count <= Cardinality(read)
<1>1. Window(0) \in ReaderList /\ Window(0).list \subseteq read
  BY WindowType
<1>2. Cardinality(Window(0).list) \in Nat /\ Cardinality(Window(0).list) <= Cardinality(read)
  BY <1>1, FS_Subset, FS_CardinalityType DEF ReadsInv
<1> QED
  BY <1>1, <1>2 DEF CountOnServer, Status, ReaderList

(* loadReaders uses a free slot and leaves the others alone. *)
LEMMA LoadReadersSlot ==
  ASSUME TypeOK, NEW offset \in Nat, NEW e \in Nat, LoadReaders(offset, e)
  PROVE  \E i \in DOMAIN pages :
           /\ pages[i] = Nil
           /\ pages' = [pages EXCEPT ![i] = [offset |-> offset, epoch |-> e, answer |-> Nil]]
           /\ [offset |-> offset, epoch |-> e, answer |-> Nil] \in Page
           /\ popover' = [open |-> TRUE, failed |-> FALSE]
<1> DEFINE i == CHOOSE j \in DOMAIN pages : j \notin InFlight
<1>1. \E j \in DOMAIN pages : j \notin InFlight
  BY DEF LoadReaders, InFlight
<1>2. i \in DOMAIN pages /\ pages[i] = Nil
  BY <1>1 DEF InFlight
<1> QED
  BY <1>2 DEF LoadReaders, Page

-----------------------------------------------------------------------------
LEMMA InitInv == Init => IInv
<1> SUFFICES ASSUME Init PROVE IInv
  OBVIOUS
<1>1. MaxFailures \in Nat /\ MaxPages \in Nat /\ PageSize \in Nat \ {0} /\ Known \subseteq Readers
  BY AuthorAssumption
<1>2. index \in Seq(Readers) /\ events \in Seq(Readers \cup {Nil}) /\ Len(index) = 0
  BY DEF Init
<1>3. TypeOK
  <2>1. status \in Status /\ popover \in [open : BOOLEAN, failed : BOOLEAN]
    BY DEF Init, Status
  <2>2. pages \in [1..MaxPages -> Page \cup {Nil}] /\ lookups \in SUBSET (SUBSET Readers)
    BY DEF Init
  <2>3. failures \in 0..MaxFailures /\ epoch \in Nat
    BY <1>1 DEF Init
  <2>4. due \in BOOLEAN
    BY Zenon DEF Init
  <2> QED
    BY <1>1, <1>2, <2>1, <2>2, <2>3, <2>4 DEF Init, TypeOK
<1>4. ReadsInv /\ IsFiniteSet({}) /\ Cardinality({}) = 0
  BY FS_EmptySet DEF Init, ReadsInv
<1>5. CountsInv
  BY <1>4 DEF Init, CountsInv, Answered
<1>6. DueInv
  <2>0. ~(Len(index) > 0 + PageSize) /\ read = {}
    BY <1>1, <1>2 DEF Init
  <2>1. Window(0) = [list |-> {}, truncated |-> FALSE, nextOffset |-> 0]
    <3>1. {index[i] : i \in (0 + 1)..Len(index)} \cap read = {}
      BY <2>0
    <3>2. (Len(index) > 0 + PageSize) = FALSE
      BY <2>0
    <3> QED
      BY <3>1, <3>2 DEF Window, NextOffset
  <2>2. CountOnServer = status
    <3>0. Window(0).list = {}
      BY <2>1
    <3>a. Window(0).truncated = FALSE
      BY <2>1
    <3>1. CountOnServer = [count |-> Cardinality({}), truncated |-> FALSE]
      BY <3>0, <3>a, Zenon DEF CountOnServer
    <3> QED
      BY <1>4, <3>1, Zenon DEF Init
  <2> QED
    BY <2>2 DEF Init, DueInv, OutdatedCountIsDue, Answered
<1>7. ListsInv /\ PagesInv
  BY DEF Init, ListsInv, PagesInv, InFlight
<1>8. LoadingHasCause /\ NamedUnlessFailed
  BY DEF Init, LoadingHasCause, NamedUnlessFailed, Listed
<1> QED
  BY <1>3, <1>4, <1>5, <1>6, <1>7, <1>8 DEF IInv

-----------------------------------------------------------------------------
(* A step of the watcher leaves the popover as it is. *)
LEMMA WatcherFrame ==
  ASSUME IInv, UNCHANGED <<server, readers, epoch, names, popover, pages, told>>
  PROVE  ListsInv' /\ PagesInv' /\ LoadingHasCause' /\ NamedUnlessFailed'
<1>1. ListsInv'
  BY DEF IInv, ListsInv, Whole, server
<1>2. PagesInv'
  BY DEF IInv, PagesInv, GoodPage, InFlight, Whole, server
<1>3. LoadingHasCause' /\ NamedUnlessFailed'
  BY DEF IInv, LoadingHasCause, NamedUnlessFailed, InFlight, Listed, names
<1> QED
  BY <1>1, <1>2, <1>3

(* A step of the popover leaves the server and the count as they are. *)
LEMMA PopoverFrame ==
  ASSUME IInv, UNCHANGED <<server, events, watch, told>>
  PROVE  ReadsInv' /\ CountsInv' /\ DueInv'
<1>1. ReadsInv' /\ CountsInv'
  BY DEF IInv, ReadsInv, CountsInv, Answered, server, watch
<1>2. CountOnServer' = CountOnServer
  BY DEF CountOnServer, Window, NextOffset, server
<1>3. DueInv'
  BY <1>2 DEF IInv, DueInv, OutdatedCountIsDue, Answered, watch
<1> QED
  BY <1>1, <1>3

LEMMA DeliverChangedInv == IInv /\ DeliverChanged => IInv'
<1> SUFFICES ASSUME IInv, DeliverChanged PROVE IInv'
  OBVIOUS
<1> USE DEF DeliverChanged
<1>1. /\ events' \in Seq(Readers \cup {Nil})
      /\ \A i \in DOMAIN events' : events'[i] = events[i + 1] /\ i + 1 \in DOMAIN events
  BY DEF IInv, TypeOK
<1>2. TypeOK'
  BY <1>1 DEF IInv, TypeOK, server, names
<1>3. ReadsInv' /\ CountsInv'
  BY <1>1 DEF IInv, ReadsInv, CountsInv, Answered, server
<1>4. DueInv'
  BY DEF DueInv, OutdatedCountIsDue, Answered
<1> QED
  BY <1>2, <1>3, <1>4, WatcherFrame DEF IInv

LEMMA ReconnectInv == IInv /\ Reconnect => IInv'
<1> SUFFICES ASSUME IInv, Reconnect PROVE IInv'
  OBVIOUS
<1> USE DEF Reconnect
<1>1. TypeOK'
  BY AuthorAssumption DEF IInv, TypeOK, Fails, server, names
<1>2. ReadsInv' /\ CountsInv'
  BY DEF IInv, ReadsInv, CountsInv, Answered, server
<1>3. DueInv'
  BY DEF DueInv, OutdatedCountIsDue, Answered
<1> QED
  BY <1>1, <1>2, <1>3, WatcherFrame DEF IInv

LEMMA SendQueryInv == IInv /\ SendQuery => IInv'
<1> SUFFICES ASSUME IInv, SendQuery PROVE IInv'
  OBVIOUS
<1> USE DEF SendQuery
<1>1. TypeOK'
  BY DEF IInv, TypeOK, Query, server, names
<1>2. ReadsInv' /\ CountsInv'
  BY DEF IInv, ReadsInv, CountsInv, Answered, server
<1>3. query' # Nil /\ query'.answer = Nil
  BY NilAssumption DEF Query
<1>4. DueInv'
  BY <1>3 DEF DueInv, OutdatedCountIsDue, Answered
<1> QED
  BY <1>1, <1>2, <1>4, WatcherFrame DEF IInv

LEMMA AnswerQueryInv == IInv /\ AnswerQuery => IInv'
<1> SUFFICES ASSUME IInv, AnswerQuery PROVE IInv'
  OBVIOUS
<1> USE DEF AnswerQuery
<1>1. CountOnServer \in Status /\ CountOnServer.count <= Cardinality(read)
  BY CountOnServerType DEF IInv
<1>2. TypeOK'
  BY <1>1 DEF IInv, TypeOK, Query, server, names
<1>3. ReadsInv' /\ CountsInv'
  BY <1>1 DEF IInv, ReadsInv, CountsInv, Answered, server
<1>4. query' # Nil /\ query'.answer = CountOnServer
  BY <1>1, NilAssumption DEF Query
<1>5. CountOnServer' = CountOnServer
  BY DEF CountOnServer, Window, NextOffset, server
<1>6. DueInv'
  BY <1>4, <1>5 DEF DueInv, OutdatedCountIsDue, Answered
<1> QED
  BY <1>2, <1>3, <1>6, WatcherFrame DEF IInv

LEMMA QueryArrivesInv == IInv /\ QueryArrives => IInv'
<1> SUFFICES ASSUME IInv, QueryArrives PROVE IInv'
  OBVIOUS
<1> USE DEF QueryArrives
<1>1. query # Nil /\ query.answer # Nil /\ query.answer \in Status
  BY DEF IInv, TypeOK, Query
<1>2. TypeOK'
  BY <1>1 DEF IInv, TypeOK, server, names
<1>3. ReadsInv' /\ CountsInv'
  BY <1>1 DEF IInv, ReadsInv, CountsInv, Answered, server
<1>4. CountOnServer' = CountOnServer
  BY DEF CountOnServer, Window, NextOffset, server
<1>5. DueInv'
  BY <1>1, <1>4 DEF IInv, DueInv, OutdatedCountIsDue, Answered
<1> QED
  BY <1>2, <1>3, <1>5, WatcherFrame DEF IInv

LEMMA QueryFailsInv == IInv /\ QueryFails => IInv'
<1> SUFFICES ASSUME IInv, QueryFails PROVE IInv'
  OBVIOUS
<1> USE DEF QueryFails
<1>1. TypeOK'
  BY AuthorAssumption DEF IInv, TypeOK, Fails, server, names
<1>2. ReadsInv' /\ CountsInv'
  BY DEF IInv, ReadsInv, CountsInv, Answered, server
<1>3. DueInv'
  BY DEF DueInv, OutdatedCountIsDue, Answered
<1> QED
  BY <1>1, <1>2, <1>3, WatcherFrame DEF IInv

-----------------------------------------------------------------------------
(* A read: the reader has not been told of, so that what was whole is.     *)
LEMMA ReadInv ==
  ASSUME IInv, NEW r \in Readers, NEW which \in {"older", "this", "newer"}, Read(r, which)
  PROVE  IInv'
<1> USE DEF IInv
<1>1. /\ index \in Seq(Readers) /\ index' \in Seq(Readers) /\ Len(index) <= Len(index')
      /\ \A i \in 1..Len(index') : index'[i] = r \/ (i <= Len(index) /\ index'[i] = index[i])
  BY DEF Read, TypeOK
<1>2. /\ events' \in Seq(Readers \cup {Nil}) /\ events' # <<>>
      /\ \A i \in DOMAIN events' :
           events'[i] \in {r, Nil} \/ (i \in DOMAIN events /\ events'[i] = events[i])
      /\ which # "this" => \A i \in DOMAIN events' :
           events'[i] = Nil \/ (i \in DOMAIN events /\ events'[i] = events[i])
  <2> DEFINE x == IF which = "this" THEN r ELSE Nil
  <2>1. events' = events \o <<x>> /\ x \in {r, Nil} /\ (which # "this" => x = Nil)
    BY DEF Read
  <2>2. events \in Seq(Readers \cup {Nil}) /\ <<x>> \in Seq(Readers \cup {Nil})
    BY <2>1 DEF TypeOK
  <2> HIDE DEF x
  <2>3. /\ events' \in Seq(Readers \cup {Nil}) /\ Len(events') = Len(events) + 1
        /\ \A i \in 1..Len(events') : events'[i] = IF i <= Len(events) THEN events[i] ELSE x
    BY <2>1, <2>2
  <2> QED
    BY <2>1, <2>2, <2>3
<1>3. /\ read \subseteq read' /\ read' \subseteq read \cup {r} /\ r \notin told
      /\ which = "this" => r \in read'
  BY DEF Read, ReadsInv
<1>4. IsFiniteSet(read') /\ Cardinality(read) <= Cardinality(read')
      /\ Cardinality(read) \in Nat /\ Cardinality(read') \in Nat
  <2>1. IsFiniteSet(read \cup {r})
    BY FS_AddElement DEF ReadsInv
  <2>2. IsFiniteSet(read')
    BY <1>3, <2>1, FS_Subset
  <2> QED
    BY <1>3, <2>2, FS_Subset, FS_CardinalityType
<1>5. UNCHANGED <<watch, readers, epoch, names, popover, pages, failures, told>>
  BY DEF Read
<1>6. TypeOK'
  BY <1>1, <1>2, <1>3, <1>5 DEF TypeOK, watch, names
<1>7. ReadsInv'
  BY <1>2, <1>3, <1>4, <1>5 DEF ReadsInv
<1>8. CountsInv'
  <2>1. status.count \in Nat /\ (Answered => query.answer.count \in Nat)
    BY DEF TypeOK, Answered, Query, Status
  <2> QED
    BY <1>4, <1>5, <2>1 DEF CountsInv, Answered, watch
<1>9. DueInv'
  BY <1>2 DEF DueInv, OutdatedCountIsDue, Answered
<1>10. \A i \in 1..Len(index') : i <= PageSize /\ index'[i] \in told' =>
          i \in 1..Len(index) /\ index'[i] = index[i] /\ index[i] \in told
  <2>1. Len(index) \in Nat /\ Len(index') \in Nat /\ told' = told
    BY <1>1, <1>5
  <2> QED
    BY <1>1, <1>3, <2>1
<1>11. ListsInv'
  BY <1>3, <1>5, <1>10 DEF ListsInv, Whole
<1>13. PagesInv'
  BY <1>3, <1>5, <1>10 DEF PagesInv, GoodPage, InFlight, Whole
<1>12. LoadingHasCause' /\ NamedUnlessFailed'
  BY <1>5 DEF LoadingHasCause, NamedUnlessFailed, InFlight, Listed, names
<1> QED
  BY <1>6, <1>7, <1>8, <1>9, <1>11, <1>12, <1>13

(* A receipt: the pages asked for so far will not be accepted. *)
LEMMA DeliverReceiptInv == IInv /\ DeliverReceipt => IInv'
<1> SUFFICES ASSUME IInv, DeliverReceipt PROVE IInv'
  OBVIOUS
<1> USE DEF IInv
<1>1. /\ events' \in Seq(Readers \cup {Nil}) /\ Head(events) \in read /\ Head(events) \in Readers
      /\ \A i \in DOMAIN events' : events'[i] = events[i + 1] /\ i + 1 \in DOMAIN events
  BY DEF DeliverReceipt, TypeOK, ReadsInv
<1>2. Cardinality(read) \in Nat /\ Cardinality(read) >= 1
  <2>1. {Head(events)} \subseteq read /\ IsFiniteSet(read)
    BY <1>1 DEF ReadsInv
  <2> QED
    BY <2>1, FS_Subset, FS_Singleton, FS_CardinalityType
<1>3. /\ told' = told \cup {Head(events)} /\ readers' = Nil /\ epoch' = epoch + 1
      /\ epoch \in Nat /\ due' /\ status' = [status EXCEPT !.count = Floor(status.count)]
      /\ status \in Status
      /\ UNCHANGED <<server, query, names, failures>>
  BY DEF DeliverReceipt, RefreshSoon, TypeOK
<1>4. \/ ~popover.open /\ UNCHANGED <<pages, popover>>
      \/ \E i \in DOMAIN pages :
           /\ pages' = [pages EXCEPT ![i] = [offset |-> 0, epoch |-> epoch', answer |-> Nil]]
           /\ [offset |-> 0, epoch |-> epoch', answer |-> Nil] \in Page
           /\ popover' = [open |-> TRUE, failed |-> FALSE]
  <2>1. CASE ~popover.open
    BY <2>1 DEF DeliverReceipt, Reloads
  <2>2. CASE popover.open
    <3> DEFINE e == epoch'
    <3>1. LoadReaders(0, e) /\ e \in Nat
      BY <1>3, <2>2 DEF DeliverReceipt, Reloads
    <3> HIDE DEF e
    <3>2. \E i \in DOMAIN pages :
           /\ pages' = [pages EXCEPT ![i] = [offset |-> 0, epoch |-> e, answer |-> Nil]]
           /\ [offset |-> 0, epoch |-> e, answer |-> Nil] \in Page
           /\ popover' = [open |-> TRUE, failed |-> FALSE]
      BY <3>1, LoadReadersSlot
    <3> QED
      BY <3>2 DEF e
  <2> QED
    BY <2>1, <2>2
<1>5. TypeOK'
  <2>1. status' \in Status /\ told' \subseteq Readers /\ epoch' \in Nat /\ due' \in BOOLEAN
    BY <1>1, <1>3 DEF TypeOK, Status, Floor, DeliverReceipt, RefreshSoon
  <2>2. pages' \in [1..MaxPages -> Page \cup {Nil}]
    BY <1>4 DEF TypeOK
  <2>3. popover' \in [open : BOOLEAN, failed : BOOLEAN]
    <3>1. popover \in [open : BOOLEAN, failed : BOOLEAN]
      BY DEF TypeOK
    <3>2. [open |-> TRUE, failed |-> FALSE] \in [open : BOOLEAN, failed : BOOLEAN]
      OBVIOUS
    <3>3. popover' = popover \/ popover' = [open |-> TRUE, failed |-> FALSE]
      BY <1>4
    <3> QED
      BY <3>1, <3>2, <3>3, Zenon
  <2>4. readers' \in ReaderList \cup {Nil}
    BY <1>3
  <2> QED
    BY <1>1, <1>3, <2>1, <2>2, <2>3, <2>4 DEF TypeOK, server, names
<1>6. ReadsInv'
  BY <1>1, <1>3 DEF ReadsInv, server
<1>7. CountsInv'
  BY <1>2, <1>3 DEF CountsInv, Answered, server, Floor, Status
<1>8. DueInv'
  BY <1>3 DEF DueInv, OutdatedCountIsDue, Answered
<1>9. ListsInv' /\ NamedUnlessFailed'
  BY <1>3 DEF ListsInv, NamedUnlessFailed, Listed
<1>10. PagesInv'
  <2> SUFFICES ASSUME NEW i \in InFlight' PROVE GoodPage(pages[i])'
    BY DEF PagesInv
  <2>1. CASE pages'[i] = pages[i]
    <3>1. i \in InFlight /\ pages[i] \in Page /\ GoodPage(pages[i])
      BY <1>4, <2>1 DEF InFlight, TypeOK, PagesInv
    <3>2. pages[i].epoch \in Nat /\ pages[i].epoch <= epoch
      BY <3>1 DEF GoodPage, Page
    <3> QED
      BY <1>3, <2>1, <3>1, <3>2 DEF GoodPage, server
  <2>2. CASE pages'[i] = [offset |-> 0, epoch |-> epoch', answer |-> Nil]
    BY <1>3, <2>2 DEF GoodPage
  <2> QED
    BY <1>4, <2>1, <2>2 DEF TypeOK, InFlight
<1>11. LoadingHasCause'
  <2> SUFFICES ASSUME popover'.open
               PROVE  \E i \in DOMAIN pages' : pages'[i] # Nil /\ pages'[i].epoch = epoch'
                                              /\ pages'[i].offset = 0
    BY DEF LoadingHasCause, InFlight
  <2>1. PICK i \in DOMAIN pages :
          /\ pages' = [pages EXCEPT ![i] = [offset |-> 0, epoch |-> epoch', answer |-> Nil]]
          /\ [offset |-> 0, epoch |-> epoch', answer |-> Nil] \in Page
    BY <1>4
  <2>2. i \in DOMAIN pages' /\ pages'[i] = [offset |-> 0, epoch |-> epoch', answer |-> Nil]
    BY <2>1
  <2> QED
    BY <2>1, <2>2, NilAssumption
<1> QED
  BY <1>5, <1>6, <1>7, <1>8, <1>9, <1>10, <1>11

-----------------------------------------------------------------------------
(* A page is asked for: the first one, or one that follows a cached list. *)
LEMMA LoadStep ==
  ASSUME IInv, NEW offset \in Nat, LoadReaders(offset, epoch),
         IF readers = Nil THEN offset = 0 ELSE TRUE,
         UNCHANGED <<server, events, watch, readers, epoch, names, failures, told>>
  PROVE  IInv'
<1> USE DEF IInv
<1> DEFINE new == [offset |-> offset, epoch |-> epoch, answer |-> Nil]
<1>1. PICK i \in DOMAIN pages :
        /\ pages' = [pages EXCEPT ![i] = new] /\ new \in Page
        /\ popover' = [open |-> TRUE, failed |-> FALSE]
  BY LoadReadersSlot DEF TypeOK
<1>2. new.offset = offset /\ new.epoch = epoch /\ new.answer = Nil /\ new # Nil
  BY <1>1, NilAssumption
<1> HIDE DEF new
<1>3. TypeOK'
  <2>1. [open |-> TRUE, failed |-> FALSE] \in [open : BOOLEAN, failed : BOOLEAN]
    OBVIOUS
  <2>2. popover' \in [open : BOOLEAN, failed : BOOLEAN]
    BY <1>1, <2>1
  <2> QED
    BY <1>1, <2>2 DEF TypeOK, server, watch, names
<1>4. PagesInv'
  <2> SUFFICES ASSUME NEW j \in InFlight' PROVE GoodPage(pages[j])'
    BY DEF PagesInv
  <2>1. CASE pages'[j] = pages[j]
    <3>1. j \in InFlight /\ GoodPage(pages[j])
      BY <1>1, <2>1 DEF InFlight, PagesInv
    <3> QED
      BY <2>1, <3>1 DEF GoodPage, Whole, server
  <2>2. CASE pages'[j] = new
    <3>1. epoch \in Nat
      BY DEF TypeOK
    <3> QED
      BY <1>2, <2>2, <3>1 DEF GoodPage
  <2> QED
    BY <1>1, <2>1, <2>2 DEF InFlight
<1>5. LoadingHasCause'
  BY <1>1, <1>2 DEF LoadingHasCause, InFlight
<1>6. ListsInv' /\ NamedUnlessFailed'
  BY DEF ListsInv, Whole, NamedUnlessFailed, Listed, server, names
<1> QED
  BY <1>3, <1>4, <1>5, <1>6, PopoverFrame

LEMMA OpenPopoverInv == IInv /\ OpenPopover => IInv'
<1> SUFFICES ASSUME IInv, OpenPopover PROVE IInv'
  OBVIOUS
<1>1. UNCHANGED <<server, events, watch, readers, epoch, names, failures, told>>
  BY DEF OpenPopover
<1>2. CASE readers = Nil
  BY <1>1, <1>2, LoadStep DEF OpenPopover
<1>3. CASE readers # Nil
  <2> USE DEF IInv
  <2>1. popover' = [popover EXCEPT !.open = TRUE] /\ pages' = pages
    BY <1>3 DEF OpenPopover
  <2>2. popover' \in [open : BOOLEAN, failed : BOOLEAN]
    BY <2>1 DEF TypeOK
  <2>3. TypeOK'
    BY <1>1, <2>1, <2>2 DEF TypeOK, server, watch, names
  <2>4. ListsInv' /\ PagesInv' /\ NamedUnlessFailed'
    BY <1>1, <2>1 DEF ListsInv, PagesInv, GoodPage, InFlight, Whole, NamedUnlessFailed, Listed,
                      server, names
  <2>5. LoadingHasCause'
    BY <1>1, <1>3 DEF LoadingHasCause
  <2> QED
    BY <1>1, <2>3, <2>4, <2>5, PopoverFrame
<1> QED
  BY <1>2, <1>3

LEMMA ShowMoreInv == IInv /\ ShowMore => IInv'
<1> SUFFICES ASSUME IInv, ShowMore PROVE IInv'
  OBVIOUS
<1>1. readers # Nil /\ readers.nextOffset \in Nat
  BY DEF ShowMore, IInv, TypeOK, ReaderList
<1> QED
  BY <1>1, LoadStep DEF ShowMore

LEMMA ClosePopoverInv == IInv /\ ClosePopover => IInv'
<1> SUFFICES ASSUME IInv, ClosePopover PROVE IInv'
  OBVIOUS
<1> USE DEF IInv
<1>1. /\ popover' = [popover EXCEPT !.open = FALSE] /\ pages' = pages
      /\ UNCHANGED <<server, events, watch, readers, epoch, names, failures, told>>
  BY DEF ClosePopover
<1>2. popover' \in [open : BOOLEAN, failed : BOOLEAN] /\ ~popover'.open
  BY <1>1 DEF TypeOK
<1>3. TypeOK'
  BY <1>1, <1>2 DEF TypeOK, server, watch, names
<1>4. ListsInv' /\ PagesInv' /\ NamedUnlessFailed'
  BY <1>1 DEF ListsInv, PagesInv, GoodPage, InFlight, Whole, NamedUnlessFailed, Listed,
              server, names
<1>5. LoadingHasCause'
  BY <1>2 DEF LoadingHasCause
<1> QED
  BY <1>1, <1>3, <1>4, <1>5, PopoverFrame

LEMMA AnswerPageInv == IInv /\ AnswerPage => IInv'
<1> SUFFICES ASSUME IInv, AnswerPage PROVE IInv'
  OBVIOUS
<1> USE DEF IInv
<1>1. PICK i \in InFlight :
        pages[i].answer = Nil /\ pages' = [pages EXCEPT ![i].answer = Window(pages[i].offset)]
  BY DEF AnswerPage
<1>2. UNCHANGED <<server, events, watch, readers, epoch, names, popover, failures, told>>
  BY DEF AnswerPage
<1> DEFINE g == pages[i]
           a == Window(g.offset)
           h == [g EXCEPT !.answer = a]
<1>3. g \in Page /\ GoodPage(g)
  BY DEF InFlight, TypeOK, PagesInv
<1>4. a \in ReaderList /\ a.list \subseteq read /\ a # Nil
  BY <1>3, WindowType, NilAssumption DEF Page
<1>5. g.offset = 0 => Whole(a.list)
  BY FirstWindowWhole
<1> HIDE DEF a
<1>6. /\ h \in Page /\ h # Nil /\ h.answer = a
      /\ h.epoch = g.epoch /\ h.offset = g.offset /\ g.offset \in Nat
  BY <1>3, <1>4, NilAssumption DEF Page
<1>7. pages' = [pages EXCEPT ![i] = h]
  BY <1>1 DEF a
<1> HIDE DEF g, h
<1>8. TypeOK'
  BY <1>2, <1>6, <1>7 DEF TypeOK, server, watch, names
<1>9. PagesInv'
  <2> SUFFICES ASSUME NEW j \in InFlight' PROVE GoodPage(pages[j])'
    BY DEF PagesInv
  <2>1. CASE j # i
    <3>1. j \in InFlight /\ pages'[j] = pages[j]
      BY <1>7, <2>1 DEF InFlight
    <3> QED
      BY <1>2, <3>1 DEF PagesInv, GoodPage, Whole, server
  <2>2. CASE j = i
    <3>1. pages'[j] = h
      BY <1>7, <2>2 DEF InFlight
    <3> QED
      BY <1>2, <1>3, <1>4, <1>5, <1>6, <3>1 DEF GoodPage, Whole, server
  <2> QED
    BY <2>1, <2>2
<1>10. LoadingHasCause'
  BY <1>2, <1>6, <1>7 DEF LoadingHasCause, InFlight, g
<1>11. ListsInv' /\ NamedUnlessFailed'
  BY <1>2 DEF ListsInv, Whole, NamedUnlessFailed, Listed, server, names
<1> QED
  BY <1>2, <1>8, <1>9, <1>10, <1>11, PopoverFrame

(* Profiles m are asked for. *)
LEMMA NamedLookup ==
  ASSUME NamedUnlessFailed, NEW m, Listed' \subseteq Listed \cup profiles \cup m,
         lookups' = lookups \cup ({m} \ {{}}), unnamed' = unnamed \ m, profiles' = profiles
  PROVE  NamedUnlessFailed'
<1> SUFFICES ASSUME NEW r \in Listed', r \notin profiles', r \notin unnamed'
             PROVE  r \in UNION lookups'
  BY DEF NamedUnlessFailed
<1>1. CASE r \in m
  <2>1. m \in lookups'
    BY <1>1
  <2> QED
    BY <1>1, <2>1
<1>2. CASE r \notin m
  <2>1. r \in Listed /\ r \notin profiles /\ r \notin unnamed
    BY <1>2
  <2>2. r \in UNION lookups
    BY <2>1 DEF NamedUnlessFailed
  <2> QED
    BY <2>2
<1> QED
  BY <1>1, <1>2

(* A page arrives: accepted, it is whole by itself or added to a list that *)
(* is; dropped, it is not the one an open popover waits for.               *)
LEMMA PageArrivesInv == IInv /\ PageArrives => IInv'
<1> SUFFICES ASSUME IInv, PageArrives PROVE IInv'
  OBVIOUS
<1> USE DEF IInv
<1>1. PICK i \in InFlight :
        /\ pages[i].answer # Nil /\ pages' = [pages EXCEPT ![i] = Nil]
        /\ readers' = IF Accepts(pages[i]) THEN WithPage(pages[i]) ELSE readers
        /\ lookups' = lookups \cup ({Missing(pages[i])} \ {{}})
        /\ unnamed' = unnamed \ Missing(pages[i])
  BY DEF PageArrives
<1>2. UNCHANGED <<server, events, watch, epoch, profiles, popover, failures, told>>
  BY DEF PageArrives
<1> DEFINE g == pages[i]
<1>3. g \in Page /\ GoodPage(g) /\ g.answer \in ReaderList /\ g.answer # Nil
  BY <1>1 DEF InFlight, TypeOK, PagesInv, Page
<1>4. Missing(g) = g.answer.list \ profiles
  BY DEF Missing
<1>a. lookups' \in SUBSET (SUBSET Readers) /\ unnamed' \subseteq Readers
  <2>1. Missing(g) \subseteq Readers
    BY <1>3, <1>4 DEF ReaderList
  <2> QED
    BY <1>1, <2>1 DEF TypeOK
<1>b. pages' \in [1..MaxPages -> Page \cup {Nil}]
  BY <1>1 DEF TypeOK
<1>5. CASE g.epoch = epoch
  <2> DEFINE l == IF g.offset > 0 /\ readers # Nil THEN readers.list \cup g.answer.list
                  ELSE g.answer.list
  <2>1. readers' = [g.answer EXCEPT !.list = l]
    BY <1>1, <1>5 DEF Accepts, WithPage
  <2>2. l \subseteq Readers /\ l \subseteq read /\ l \subseteq Listed \cup g.answer.list
    BY <1>3 DEF TypeOK, ReaderList, ListsInv, GoodPage, Listed
  <2>3. Whole(l)
    <3>1. CASE g.offset > 0
      BY <1>3, <1>5, <3>1 DEF GoodPage, ListsInv, Whole
    <3>2. CASE ~(g.offset > 0)
      BY <1>3, <1>5, <3>2 DEF GoodPage
    <3> QED
      BY <3>1, <3>2
  <2> HIDE DEF l
  <2>4. readers' \in ReaderList /\ readers'.list = l /\ readers' # Nil
    BY <1>3, <2>1, <2>2, NilAssumption DEF ReaderList
  <2>5. TypeOK'
    BY <1>2, <1>a, <1>b, <2>4 DEF TypeOK, server, watch
  <2>6. ListsInv'
    BY <1>2, <2>2, <2>3, <2>4 DEF ListsInv, Whole, server
  <2>7. PagesInv'
    <3> SUFFICES ASSUME NEW j \in InFlight' PROVE GoodPage(pages[j])'
      BY DEF PagesInv
    <3>1. j \in InFlight /\ pages'[j] = pages[j]
      BY <1>1 DEF InFlight
    <3> QED
      BY <1>2, <2>4, <3>1 DEF PagesInv, GoodPage, Whole, server
  <2>8. LoadingHasCause'
    BY <2>4 DEF LoadingHasCause
  <2>9. NamedUnlessFailed'
    <3>1. Listed' \subseteq Listed \cup profiles \cup Missing(g)
      BY <1>4, <2>2, <2>4 DEF Listed
    <3> QED
      BY <1>1, <1>2, <3>1, NamedLookup
  <2> QED
    BY <1>2, <2>5, <2>6, <2>7, <2>8, <2>9, PopoverFrame
<1>6. CASE g.epoch # epoch
  <2>1. readers' = readers
    BY <1>1, <1>6 DEF Accepts
  <2>2. TypeOK'
    BY <1>2, <1>a, <1>b, <2>1 DEF TypeOK, server, watch
  <2>3. ListsInv'
    BY <1>2, <2>1 DEF ListsInv, Whole, server
  <2>4. PagesInv'
    <3> SUFFICES ASSUME NEW j \in InFlight' PROVE GoodPage(pages[j])'
      BY DEF PagesInv
    <3>1. j \in InFlight /\ pages'[j] = pages[j]
      BY <1>1 DEF InFlight
    <3> QED
      BY <1>2, <2>1, <3>1 DEF PagesInv, GoodPage, Whole, server
  <2>5. LoadingHasCause'
    BY <1>1, <1>2, <1>6, <2>1 DEF LoadingHasCause, InFlight
  <2>6. NamedUnlessFailed'
    <3>1. Listed' \subseteq Listed \cup profiles \cup Missing(g)
      BY <2>1 DEF Listed
    <3> QED
      BY <1>1, <1>2, <3>1, NamedLookup
  <2> QED
    BY <1>2, <2>2, <2>3, <2>4, <2>5, <2>6, PopoverFrame
<1> QED
  BY <1>5, <1>6

LEMMA PageFailsInv == IInv /\ PageFails => IInv'
<1> SUFFICES ASSUME IInv, PageFails PROVE IInv'
  OBVIOUS
<1> USE DEF IInv
<1>1. PICK i \in InFlight : pages' = [pages EXCEPT ![i] = Nil]
  BY DEF PageFails
<1>2. UNCHANGED <<server, events, watch, readers, epoch, names, told>>
  BY DEF PageFails
<1>3. popover' \in [open : BOOLEAN, failed : BOOLEAN] /\ popover'.failed
  BY DEF PageFails, TypeOK
<1>4. failures' \in 0..MaxFailures
  BY AuthorAssumption DEF PageFails, Fails, TypeOK
<1>5. TypeOK'
  BY <1>1, <1>2, <1>3, <1>4 DEF TypeOK, server, watch, names
<1>6. PagesInv'
  BY <1>1, <1>2 DEF PagesInv, GoodPage, InFlight, Whole, server
<1>7. ListsInv' /\ NamedUnlessFailed' /\ LoadingHasCause'
  BY <1>2, <1>3 DEF ListsInv, Whole, NamedUnlessFailed, Listed, LoadingHasCause, server, names
<1> QED
  BY <1>2, <1>5, <1>6, <1>7, PopoverFrame

LEMMA ProfilesArriveInv == IInv /\ ProfilesArrive => IInv'
<1> SUFFICES ASSUME IInv, ProfilesArrive PROVE IInv'
  OBVIOUS
<1> USE DEF IInv
<1>0. PICK l \in lookups : \E found \in SUBSET l :
        /\ lookups' = lookups \ {l}
        /\ profiles' = profiles \cup found
        /\ unnamed' = unnamed \cup (l \ found)
  BY DEF ProfilesArrive
<1>1. PICK found \in SUBSET l :
        /\ lookups' = lookups \ {l}
        /\ profiles' = profiles \cup found
        /\ unnamed' = unnamed \cup (l \ found)
  BY <1>0
<1>2. UNCHANGED <<server, events, watch, readers, epoch, popover, pages, failures, told>>
  BY DEF ProfilesArrive
<1>3. TypeOK'
  BY <1>1, <1>2 DEF TypeOK, server, watch
<1>4. ListsInv' /\ PagesInv' /\ LoadingHasCause'
  BY <1>2 DEF ListsInv, PagesInv, GoodPage, InFlight, Whole, LoadingHasCause, server
<1>5. NamedUnlessFailed'
  <2> SUFFICES ASSUME NEW r \in Listed', r \notin profiles', r \notin unnamed'
               PROVE  r \in UNION lookups'
    BY DEF NamedUnlessFailed
  <2>1. r \in Listed /\ r \notin profiles /\ r \notin unnamed /\ r \notin l
    BY <1>1, <1>2 DEF Listed
  <2>2. PICK k \in lookups : r \in k
    BY <2>1 DEF NamedUnlessFailed
  <2>3. k \in lookups'
    BY <1>1, <2>1, <2>2
  <2> QED
    BY <2>2, <2>3
<1> QED
  BY <1>2, <1>3, <1>4, <1>5, PopoverFrame

LEMMA ProfilesFailInv == IInv /\ ProfilesFail => IInv'
<1> SUFFICES ASSUME IInv, ProfilesFail PROVE IInv'
  OBVIOUS
<1> USE DEF IInv
<1>1. PICK l \in lookups : lookups' = lookups \ {l} /\ unnamed' = unnamed \cup l
  BY DEF ProfilesFail
<1>2. UNCHANGED <<server, events, watch, readers, epoch, profiles, pages, told>>
  BY DEF ProfilesFail
<1>3. popover' \in [open : BOOLEAN, failed : BOOLEAN] /\ popover'.failed
  BY DEF ProfilesFail, TypeOK
<1>4. failures' \in 0..MaxFailures
  BY AuthorAssumption DEF ProfilesFail, Fails, TypeOK
<1>5. TypeOK'
  BY <1>1, <1>2, <1>3, <1>4 DEF TypeOK, server, watch
<1>6. ListsInv' /\ PagesInv' /\ LoadingHasCause'
  BY <1>2, <1>3 DEF ListsInv, PagesInv, GoodPage, InFlight, Whole, LoadingHasCause, server
<1>7. NamedUnlessFailed'
  <2> SUFFICES ASSUME NEW r \in Listed', r \notin profiles', r \notin unnamed'
               PROVE  r \in UNION lookups'
    BY DEF NamedUnlessFailed
  <2>1. r \in Listed /\ r \notin profiles /\ r \notin unnamed /\ r \notin l
    BY <1>1, <1>2 DEF Listed
  <2>2. PICK k \in lookups : r \in k
    BY <2>1 DEF NamedUnlessFailed
  <2>3. k \in lookups'
    BY <1>1, <2>1, <2>2
  <2> QED
    BY <2>2, <2>3
<1> QED
  BY <1>2, <1>5, <1>6, <1>7, PopoverFrame

LEMMA StepInv == IInv /\ [Next]_vars => IInv'
<1> SUFFICES ASSUME IInv, [Next]_vars PROVE IInv'
  OBVIOUS
<1>1. ASSUME NEW r \in Readers, NEW which \in {"older", "this", "newer"}, Read(r, which)
      PROVE  IInv'
  BY <1>1, ReadInv
<1>2. CASE DeliverReceipt \/ DeliverChanged \/ Reconnect
  BY <1>2, DeliverReceiptInv, DeliverChangedInv, ReconnectInv
<1>3. CASE SendQuery \/ AnswerQuery \/ QueryArrives \/ QueryFails
  BY <1>3, SendQueryInv, AnswerQueryInv, QueryArrivesInv, QueryFailsInv
<1>4. CASE OpenPopover \/ ClosePopover \/ ShowMore
  BY <1>4, OpenPopoverInv, ClosePopoverInv, ShowMoreInv
<1>5. CASE AnswerPage \/ PageArrives \/ PageFails
  BY <1>5, AnswerPageInv, PageArrivesInv, PageFailsInv
<1>6. CASE ProfilesArrive \/ ProfilesFail
  BY <1>6, ProfilesArriveInv, ProfilesFailInv
<1>7. CASE UNCHANGED vars
  <2>1. TypeOK'
    BY <1>7 DEF IInv, TypeOK, vars, server, watch, names
  <2> QED
    BY <1>7, <2>1, WatcherFrame, PopoverFrame DEF vars, watch, IInv
<1> QED
  BY <1>1, <1>2, <1>3, <1>4, <1>5, <1>6, <1>7 DEF Next

LEMMA Invariance == Spec => []IInv
<1>1. Init => IInv
  BY InitInv
<1>2. IInv /\ [Next]_vars => IInv'
  BY StepInv
<1> QED
  BY <1>1, <1>2, PTL DEF Spec

-----------------------------------------------------------------------------
(* The type invariant: among others, a cached list always knows where its  *)
(* next page starts (nextOffset in types.ts).                              *)
THEOREM ViewTypeCorrect == Spec => []TypeOK
<1>1. IInv => TypeOK
  BY DEF IInv
<1> QED
  BY <1>1, Invariance, PTL

(* Nobody is counted or listed who has not read the post: WS_RECEIPT of    *)
(* reducer.ts raises the count to one and no further.                      *)
THEOREM NobodyIsInvented == Spec => []NoPhantomReaders
<1>1. IInv => NoPhantomReaders
  BY DEF IInv, CountsInv, ListsInv, Listed, NoPhantomReaders
<1> QED
  BY <1>1, Invariance, PTL

(* A list on screen has every reader of the first window whose receipt was *)
(* applied: POST_READERS of reducer.ts drops the pages asked for earlier.  *)
THEOREM ListsKeepReceipts == Spec => []ReceiptsAreListed
<1>1. IInv => ReceiptsAreListed
  <2> SUFFICES ASSUME IInv, readers # Nil,
                      NEW i \in 1..Len(index), i <= PageSize, index[i] \in told
               PROVE  index[i] \in Listed
    BY DEF ReceiptsAreListed
  <2> QED
    BY DEF IInv, ListsInv, Whole, Listed
<1> QED
  BY <1>1, Invariance, PTL

(* An open popover without a list waits for a page that will be accepted:  *)
(* the effect of read_receipt.tsx that depends on the epoch asks anew.     *)
THEOREM PopoverNeverHangs == Spec => []LoadingHasCause
<1>1. IInv => LoadingHasCause
  BY DEF IInv
<1> QED
  BY <1>1, Invariance, PTL

(* A count that is not the server's is on its way to be replaced: a        *)
(* receipt ends with refreshSoon (websocket.ts).                           *)
THEOREM OutdatedCountIsReplaced == Spec => []OutdatedCountIsDue
<1>1. IInv => OutdatedCountIsDue
  BY DEF IInv, DueInv
<1> QED
  BY <1>1, Invariance, PTL

(* A listed reader has a name, or one is on its way, or asking failed      *)
(* (loadPostReaders of actions.ts).                                        *)
THEOREM ListedAreNamed == Spec => []NamedUnlessFailed
<1>1. IInv => NamedUnlessFailed
  BY DEF IInv
<1> QED
  BY <1>1, Invariance, PTL

=============================================================================
