------------------------------ MODULE MCSettings ------------------------------
(* Model values and small sets for TLC. *)
EXTENDS Settings, TLC

CONSTANTS own, other, peer, fcc, mkk, bogus

AllCards == {"acx100", "acx111", "vlynq"}
MCChannels == 1..3
MCDomains == {fcc, mkk, bogus}
\* Of two domains that are known, one is without channel 1, with which the driver starts.
MCDomainMask == (fcc :> {1, 2}) @@ (mkk :> {2, 3})
AllKeys == {"CCMP", "TKIP", "CMAC"}
MCAddrs == {own, other}
MCPeers == {peer}
\* A power below the first level, and one nearer to the level above; each channel is
\* outside one of the domains; either changes with the other and without it.
MCRequests == {<<1, 1>>, <<3, 1>>, <<3, 7>>}
OneThreshold == {0}
\* Bound: the TIM template, sent between two that are needed, is set.
CommandFaults == Fields \ {"tim"}
===============================================================================
