------------------------------- MODULE MCFeed -------------------------------
(***************************************************************************)
(* One sender, and three subscriptions of which two share a channel.       *)
(***************************************************************************)
EXTENDS Feed

CONSTANTS s1, u1, u2, u3, c1, c2

MCChanOf == [u \in Subs |-> IF u = u3 THEN c2 ELSE c1]
MCChanCap == [c \in Channels |-> 1]

=============================================================================
