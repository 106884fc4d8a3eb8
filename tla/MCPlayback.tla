----------------------------- MODULE MCPlayback -----------------------------
(***************************************************************************)
(* Playback of both maps of the server.                                    *)
(***************************************************************************)
EXTENDS Playback

CONSTANTS clutter, target

MCBlkCnts == [m \in Maps |-> IF m = clutter THEN 1 ELSE 3]
MCMaxLags == [m \in Maps |-> IF m = clutter THEN 1 ELSE 2]
=============================================================================
