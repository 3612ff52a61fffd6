----------------------------- MODULE MCDiscovery -----------------------------
(***************************************************************************)
(* Two threads of one process, one with two commands to run, and a Target  *)
(* that moves, so that its address is another host's, or has a copy.       *)
(***************************************************************************)
EXTENDS TargetDiscovery

CONSTANTS c1, c2, p1, h1, h2, h3

MCHome == [c \in {c1, c2} |-> p1]
MCCommands == [c \in {c1, c2} |-> IF c = c1 THEN 2 ELSE 1]

\* The administrator enters the address it has at first, or the one it moves to.
MCEntries == {h1, h3}

\* The Target moves to an address only the subnet scan finds, or there are two
\* hosts with its key among the neighbours.
MCNeighborhoods == {{h1, h2}}
MCPlacements == {{h1, h2}, {h3}}
=============================================================================
