-------------------------- MODULE MCChannelRuntime --------------------------
(* Messages of two conversations of one sender, which may be merged each   *)
(* with its like, and events that never are.                               *)
EXTENDS ChannelRuntime

CONSTANTS dm, room, reaction

MCKey == {dm, room, reaction}
MCSingle == {reaction}
=============================================================================
