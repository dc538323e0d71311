-------------------------- MODULE MCChannelWatcher --------------------------
(***************************************************************************)
(* Small instances of ChannelWatcher: one or two channels of an enabled    *)
(* type, a third one of a disabled type.                                   *)
(***************************************************************************)
EXTENDS ChannelWatcher

CONSTANTS c1, c2, c3
=============================================================================
