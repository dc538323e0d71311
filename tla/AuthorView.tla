------------------------------ MODULE AuthorView ------------------------------
(***************************************************************************)
(* What the author sees of one own post in a group channel: the count      *)
(* beside the ticks and the popover's list of readers, fed by websocket    *)
(* events, by the channel query and by pages of readers.  The server is    *)
(* ReadServer reduced to its index and to who has read the post, the       *)
(* watcher is ChannelWatcher reduced to a refresh that is due and a query  *)
(* in flight.  An action is one macrotask with the effects of its render.  *)
(***************************************************************************)
EXTENDS Integers, Sequences, FiniteSets

CONSTANTS
  Readers, Nil,
  Known,        \* readers whose profile the webapp has already
  PageSize,     \* maxQueryReaders
  MaxPages,     \* bound of this model on page requests in flight
  MaxFailures   \* bound of this model on requests that fail

ASSUME AuthorAssumption ==
  /\ Known \subseteq Readers
  /\ PageSize \in Nat \ {0}
  /\ MaxPages \in Nat /\ MaxFailures \in Nat

(* PostStatus: the count is a lower bound when truncated. *)
Status == [count : Nat, truncated : BOOLEAN]

(* ReaderList, and the answer of /receipts/post; the order of the rows is  *)
(* left out.                                                               *)
ReaderList == [list : SUBSET Readers, truncated : BOOLEAN, nextOffset : Nat]

(* A channel query and what it will tell of the post. *)
Query == [answer : Status \cup {Nil}]

(* A page request in flight; answer is Nil until the server computes it. *)
Page == [offset : Nat, epoch : Nat, answer : ReaderList \cup {Nil}]

ASSUME NilAssumption ==
  Nil \notin Readers /\ Nil \notin Status /\ Nil \notin ReaderList
    /\ Nil \notin Query /\ Nil \notin Page

VARIABLES
  index,    \* server: the readers of the channel, in order of arrival
  read,     \* server: those who have read the post
  events,   \* on their way: a reader for a receipt of the post, else Nil
  due,      \* the watcher is going to refresh the channel
  query,    \* its query in flight, Nil: none
  status,   \* Redux: statuses[post]
  readers,  \* Redux: readers[post], Nil: not cached
  epoch,    \* Redux: readersEpoch[post]
  profiles, \* Redux: readers whose profile is known
  popover,  \* popoverOpen and readersFailed of the component
  pages,    \* page requests in flight, Nil: an unused slot
  lookups,  \* requests for profiles in flight
  failures, \* requests that failed so far
  told,     \* history: readers whose receipt was applied
  unnamed   \* history: readers whose last lookup failed or left them out

server == <<index, read>>
watch  == <<due, query, status>>
names  == <<profiles, lookups, unnamed>>
vars   == <<server, events, watch, readers, epoch, names, popover, pages,
            failures, told>>

TypeOK ==
  /\ index \in Seq(Readers) /\ read \subseteq Readers
  /\ events \in Seq(Readers \cup {Nil})
  /\ due \in BOOLEAN
  /\ query \in Query \cup {Nil}
  /\ status \in Status
  /\ readers \in ReaderList \cup {Nil}
  /\ epoch \in Nat
  /\ profiles \subseteq Readers /\ unnamed \subseteq Readers /\ told \subseteq Readers
  /\ popover \in [open : BOOLEAN, failed : BOOLEAN]
  /\ pages \in [1..MaxPages -> Page \cup {Nil}]
  /\ lookups \in SUBSET (SUBSET Readers)
  /\ failures \in 0..MaxFailures

-----------------------------------------------------------------------------
(* Where the next page starts, 0 when there is none. *)
NextOffsetOptional(truncated, end) == IF truncated THEN end ELSE Nil
NextOffset(truncated, end) == IF truncated THEN end ELSE 0

(* channelReaders: one window over the index, and what follows it. *)
Window(offset) ==
  LET truncated == Len(index) > offset + PageSize
      end       == IF truncated THEN offset + PageSize ELSE Len(index)
  IN  [ list       |-> {index[i] : i \in (offset + 1)..end} \cap read,
        truncated  |-> truncated,
        nextOffset |-> NextOffset(truncated, end) ]

(* handleQuery: the count of the first window. *)
CountOnServer ==
  [count |-> Cardinality(Window(0).list), truncated |-> Window(0).truncated]

(* The count a receipt raises: at least one, never a decrement. *)
FloorIncremented(n) == n + 1
Floor(n) == IF n = 0 THEN 1 ELSE n

(* POST_READERS drops a page asked for in an earlier epoch. *)
AcceptsAll(g) == TRUE
Accepts(g) == g.epoch = epoch

(* The cached list with the answer of page g. *)
WithPage(g) ==
  [g.answer EXCEPT !.list =
     IF g.offset > 0 /\ readers # Nil THEN readers.list \cup @ ELSE @]

(* Readers of the page whose profile has to be fetched. *)
MissingOnFirst(g) == IF g.offset > 0 THEN {} ELSE g.answer.list \ profiles
Missing(g) == g.answer.list \ profiles

(* The popover's effect loads the list when its dependencies change: the   *)
(* popover's opening, the cached list and the epoch.                       *)
ReloadsOnDrop(open) == open /\ readers # Nil
Reloads(open) == open

InFlight == {i \in DOMAIN pages : pages[i] # Nil}

(* loadReaders. *)
LoadReaders(offset, e) ==
  /\ InFlight # DOMAIN pages
  /\ pages' = [pages EXCEPT ![CHOOSE i \in DOMAIN pages : i \notin InFlight] =
                 [offset |-> offset, epoch |-> e, answer |-> Nil]]
  /\ popover' = [open |-> TRUE, failed |-> FALSE]

(* handleWebSocketEvent ends with refreshSoon outside of a DM. *)
RefreshLater == due' = due
RefreshSoon == due' = TRUE

Fails == failures < MaxFailures /\ failures' = failures + 1

-----------------------------------------------------------------------------
(* Nobody has read the post; some may have read older ones. *)
Init ==
  /\ index = <<>> /\ read = {} /\ events = <<>>
  /\ due = FALSE /\ query = Nil
  /\ status = [count |-> 0, truncated |-> FALSE]
  /\ readers = Nil /\ epoch = 0
  /\ profiles = Known /\ lookups = {} /\ unnamed = {}
  /\ popover = [open |-> FALSE, failed |-> FALSE]
  /\ pages = [i \in 1..MaxPages |-> Nil] /\ failures = 0 /\ told = {}

Indexed == {index[i] : i \in DOMAIN index}

(* A read of an older post, of this one or of a newer one, which covers it *)
(* without a receipt of its own.  The receipts_changed that follows a      *)
(* receipt asks for the refresh the receipt causes and is left out.        *)
Read(r, which) ==
  /\ r \notin read
  /\ which = "older" => r \notin Indexed
  /\ index' = IF r \in Indexed THEN index ELSE Append(index, r)
  /\ read' = IF which = "older" THEN read ELSE read \cup {r}
  /\ events' = events \o (IF which = "this" THEN <<r>> ELSE <<Nil>>)
  /\ UNCHANGED <<watch, readers, epoch, names, popover, pages, failures, told>>

(* handleWebSocketEvent for the post, WS_RECEIPT, the popover's effect. *)
DeliverReceipt ==
  /\ events # <<>> /\ Head(events) # Nil
  /\ events' = Tail(events)
  /\ told' = told \cup {Head(events)}
  /\ status' = [status EXCEPT !.count = Floor(@)]
  /\ readers' = Nil
  /\ epoch' = epoch + 1
  /\ IF Reloads(popover.open) THEN LoadReaders(0, epoch') ELSE UNCHANGED <<pages, popover>>
  /\ RefreshSoon
  /\ UNCHANGED <<server, query, names, failures>>

(* handleReceiptsChangedEvent, or a receipt of another post. *)
DeliverChanged ==
  /\ events # <<>> /\ Head(events) = Nil
  /\ events' = Tail(events)
  /\ due' = TRUE
  /\ UNCHANGED <<server, query, status, readers, epoch, names, popover, pages,
                 failures, told>>

(* The connection was lost with what was on its way, and is back. *)
Reconnect ==
  /\ Fails
  /\ events' = <<>>
  /\ due' = TRUE
  /\ UNCHANGED <<server, query, status, readers, epoch, names, popover, pages, told>>

-----------------------------------------------------------------------------
(* The watcher refreshes the channel, one query at a time. *)
SendQuery ==
  /\ due /\ query = Nil
  /\ due' = FALSE /\ query' = [answer |-> Nil]
  /\ UNCHANGED <<server, events, status, readers, epoch, names, popover, pages,
                 failures, told>>

AnswerQuery ==
  /\ query = [answer |-> Nil]
  /\ query' = [answer |-> CountOnServer]
  /\ UNCHANGED <<server, events, due, status, readers, epoch, names, popover,
                 pages, failures, told>>

(* RECEIPTS_QUERY. *)
QueryArrives ==
  /\ query \notin {Nil, [answer |-> Nil]}
  /\ status' = query.answer /\ query' = Nil
  /\ UNCHANGED <<server, events, due, readers, epoch, names, popover, pages,
                 failures, told>>

QueryFails ==
  /\ query # Nil
  /\ Fails
  /\ query' = Nil /\ due' = TRUE
  /\ UNCHANGED <<server, events, status, readers, epoch, names, popover, pages, told>>

-----------------------------------------------------------------------------
(* The count is rendered as a button only when somebody has read the post. *)
Anchored == status.count > 0

OpenPopover ==
  /\ Anchored /\ ~popover.open
  /\ IF readers = Nil THEN LoadReaders(0, epoch)
     ELSE popover' = [popover EXCEPT !.open = TRUE] /\ UNCHANGED pages
  /\ UNCHANGED <<server, events, watch, readers, epoch, names, failures, told>>

(* A click outside, Escape or a scroll. *)
ClosePopover ==
  /\ Anchored /\ popover.open
  /\ popover' = [popover EXCEPT !.open = FALSE]
  /\ UNCHANGED <<server, events, watch, readers, epoch, names, pages, failures, told>>

ShowMore ==
  /\ Anchored /\ popover.open
  /\ readers # Nil /\ readers.nextOffset # 0
  /\ LoadReaders(readers.nextOffset, epoch)
  /\ UNCHANGED <<server, events, watch, readers, epoch, names, failures, told>>

(* handlePostReaders. *)
AnswerPage ==
  /\ \E i \in InFlight :
       /\ pages[i].answer = Nil
       /\ pages' = [pages EXCEPT ![i].answer = Window(pages[i].offset)]
  /\ UNCHANGED <<server, events, watch, readers, epoch, names, popover, failures, told>>

(* loadPostReaders goes on, whether or not its page is accepted. *)
PageArrives ==
  /\ \E i \in InFlight :
       LET g == pages[i] IN
       /\ g.answer # Nil
       /\ pages' = [pages EXCEPT ![i] = Nil]
       /\ readers' = IF Accepts(g) THEN WithPage(g) ELSE readers
       /\ lookups' = lookups \cup ({Missing(g)} \ {{}})
       /\ unnamed' = unnamed \ Missing(g)
  /\ UNCHANGED <<server, events, watch, epoch, profiles, popover, failures, told>>

PageFails ==
  /\ Fails
  /\ \E i \in InFlight : pages' = [pages EXCEPT ![i] = Nil]
  /\ popover' = [popover EXCEPT !.failed = TRUE]
  /\ UNCHANGED <<server, events, watch, readers, epoch, names, told>>

(* PROFILES.  The answer leaves out accounts that Mattermost does not know *)
(* any more; the popover then shows their identifiers.                     *)
ProfilesArrive ==
  /\ \E l \in lookups : \E found \in SUBSET l :
       /\ lookups' = lookups \ {l}
       /\ profiles' = profiles \cup found
       /\ unnamed' = unnamed \cup (l \ found)
  /\ UNCHANGED <<server, events, watch, readers, epoch, popover, pages, failures,
                 told>>

ProfilesFail ==
  /\ Fails
  /\ \E l \in lookups : lookups' = lookups \ {l} /\ unnamed' = unnamed \cup l
  /\ popover' = [popover EXCEPT !.failed = TRUE]
  /\ UNCHANGED <<server, events, watch, readers, epoch, profiles, pages, told>>

-----------------------------------------------------------------------------
Next ==
  \/ \E r \in Readers, which \in {"older", "this", "newer"} : Read(r, which)
  \/ DeliverReceipt \/ DeliverChanged \/ Reconnect
  \/ SendQuery \/ AnswerQuery \/ QueryArrives \/ QueryFails
  \/ OpenPopover \/ ClosePopover \/ ShowMore
  \/ AnswerPage \/ PageArrives \/ PageFails \/ ProfilesArrive \/ ProfilesFail

Spec == Init /\ [][Next]_vars

(* Events arrive in order, requests end (client.ts aborts one that does    *)
(* not), the watcher refreshes; the user owes nothing.                     *)
FairSpec ==
  /\ Spec
  /\ WF_vars(DeliverReceipt) /\ WF_vars(DeliverChanged)
  /\ WF_vars(SendQuery) /\ WF_vars(AnswerQuery) /\ WF_vars(QueryArrives)
  /\ WF_vars(AnswerPage) /\ WF_vars(PageArrives) /\ WF_vars(ProfilesArrive)

-----------------------------------------------------------------------------
Listed == IF readers = Nil THEN {} ELSE readers.list

(* Nobody is counted or listed who has not read the post, whatever order   *)
(* receipts and query answers take (a receipt does not add to the count).  *)
NoPhantomReaders ==
  status.count <= Cardinality(read) /\ Listed \subseteq read

(* Once a receipt has been applied, no list on screen misses its reader:   *)
(* a page asked for before the receipt never gets in, and pages that come  *)
(* late or twice leave the first page whole.                               *)
ReceiptsAreListed ==
  readers # Nil =>
    \A i \in 1..Len(index) : i <= PageSize /\ index[i] \in told => index[i] \in Listed

(* An open popover without a list has an answer coming that will be        *)
(* accepted, or says that loading failed; never "loading" for good.        *)
LoadingHasCause ==
  popover.open /\ readers = Nil =>
    \/ popover.failed
    \/ \E i \in InFlight : pages[i].epoch = epoch /\ pages[i].offset = 0

(* A count that differs from the server's is on its way to be replaced,    *)
(* also one that an answer from before a receipt has walked back.          *)
OutdatedCountIsDue ==
  status # CountOnServer =>
    \/ due \/ events # <<>>
    \/ query # Nil /\ query.answer \in {Nil, CountOnServer}

(* A listed reader has a name, or one is on its way, or asking failed or   *)
(* brought none; nobody is listed whose name was never asked for.          *)
NamedUnlessFailed == Listed \subseteq profiles \cup (UNION lookups) \cup unnamed

(* An open popover shows a list in the end, or says that loading failed. *)
ListSettles ==
  popover.open ~> (~popover.open \/ readers # Nil \/ popover.failed)

(* The count becomes the server's, through failures and lost connections. *)
CountCatchesUp == <>[](status = CountOnServer)

(* An open popover comes to list everybody who has read the post, unless   *)
(* the server cut the list (README: a click shows who has read, and when). *)
ListIsComplete ==
  \A r \in Readers :
    (popover.open /\ r \in read) ~>
      (~popover.open \/ popover.failed \/ r \in Listed
         \/ (readers # Nil /\ readers.truncated))
=============================================================================
