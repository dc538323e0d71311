------------------------------ MODULE ReadLedger ------------------------------
(***************************************************************************)
(* What the server promises about reads, without handlers, keys or         *)
(* retries: each reader has a position in the channel that only moves      *)
(* forward, readers become visible to the counts, authors and readers are  *)
(* told of covered posts only, and growth of the visible coverage stays    *)
(* owed to the channel until a receipts_changed event.                     *)
(***************************************************************************)
EXTENDS Integers

CONSTANTS Users, Posts, Nil, Author, CreateAt

VARIABLES
  position,      \* the post each reader has read up to, or Nil
  visible,       \* readers whose positions the counts use
  owed,          \* coverage grew since the last receipts_changed
  acknowledged,  \* <<reader, post>> answered with 200
  announced      \* <<reader, post>> sent to the author

vars == <<position, visible, owed, acknowledged, announced>>

(* r's position is at p or beyond. *)
ReadUpTo(r, p) == position[r] # Nil /\ CreateAt[p] <= CreateAt[position[r]]

Init ==
  /\ position \in [Users -> Posts \cup {Nil}]
  /\ \A r \in Users : position[r] # Nil => Author[position[r]] # r
  /\ visible = {}
  /\ owed = FALSE
  /\ acknowledged = {}
  /\ announced = {}

Commit(r, p) ==
  /\ Author[p] # r
  /\ ~ReadUpTo(r, p)
  /\ position' = [position EXCEPT ![r] = p]
  /\ owed' = (owed \/ r \in visible)
  /\ UNCHANGED <<visible, acknowledged, announced>>

(* r joins the counted readers; readers who left may drop out with it. *)
Show(r, gone) ==
  /\ r \notin visible
  /\ visible' = (visible \ gone) \cup {r}
  /\ owed' = (owed \/ position[r] # Nil)
  /\ UNCHANGED <<position, acknowledged, announced>>

Announce(r, p) ==
  /\ ReadUpTo(r, p)
  /\ announced' = announced \cup {<<r, p>>}
  /\ UNCHANGED <<position, visible, owed, acknowledged>>

Acknowledge(r, p) ==
  /\ ReadUpTo(r, p)
  /\ acknowledged' = acknowledged \cup {<<r, p>>}
  /\ UNCHANGED <<position, visible, owed, announced>>

NotifyChannel ==
  /\ owed' = FALSE
  /\ UNCHANGED <<position, visible, acknowledged, announced>>

Next ==
  \/ \E r \in Users, p \in Posts :
       Commit(r, p) \/ Announce(r, p) \/ Acknowledge(r, p)
  \/ \E r \in Users : \E gone \in SUBSET visible : Show(r, gone)
  \/ NotifyChannel

Spec == Init /\ [][Next]_vars
=============================================================================
