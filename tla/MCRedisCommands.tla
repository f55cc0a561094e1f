-------------------------- MODULE MCRedisCommands --------------------------
(***************************************************************************)
(* RedisCommands on small instances for TLC.  A buffer holds seven bytes,  *)
(* two of them a length.  Blobs of 1 to 3 bytes are served; 4 and 5 are    *)
(* saved, but overrun on the way back; 6 does not fit with its length.     *)
(***************************************************************************)
EXTENDS RedisCommands

AllLengths == {0, 1, 3, 4, 5, 6}
=============================================================================
