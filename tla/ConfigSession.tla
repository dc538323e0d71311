----------------------------- MODULE ConfigSession -----------------------------
(***************************************************************************)
(* What the rest of the webapp sees of the configuration loader, without   *)
(* attempts, generations and timers: a configuration that is there or not, *)
(* and a session that loads it.  A session begins at startup or with a     *)
(* reconnect, which drops the configuration at once; it ends by loading or *)
(* by giving up, and no earlier session has a say in between.              *)
(***************************************************************************)

VARIABLES
  loaded,   \* the plugin configuration is in the Redux store
  session,  \* why it is being loaded, "settled" if it is not
  stopped   \* the plugin is uninitialized

vars == <<loaded, session, stopped>>

Init == loaded = FALSE /\ session = "startup" /\ stopped = FALSE

Reconnect ==
  /\ ~stopped
  /\ loaded' = FALSE
  /\ session' = "reconnect"
  /\ UNCHANGED stopped

Load ==
  /\ session # "settled"
  /\ loaded' = TRUE
  /\ session' = "settled"
  /\ UNCHANGED stopped

GiveUp ==
  /\ session # "settled"
  /\ session' = "settled"
  /\ UNCHANGED <<loaded, stopped>>

Stop ==
  /\ ~stopped
  /\ stopped' = TRUE
  /\ session' = "settled"
  /\ UNCHANGED loaded

Next == Reconnect \/ Load \/ GiveUp \/ Stop

Spec == Init /\ [][Next]_vars
=============================================================================
