-------------------------- MODULE MCChannelAuthority --------------------------
(* Two processes, one of which starts while the other may be alive, and one *)
(* item of a player.                                                        *)
EXTENDS ChannelAuthority

CONSTANTS p1, p2, i1
=============================================================================
