----------------------------- MODULE Neighbours -----------------------------
(***************************************************************************)
(* What a client knows of the others (p2pclient/src/p2pclient.cpp, the     *)
(* static members of P2PCServer): the map neiIP from address to file       *)
(* level.  Its entry for the server is never looked at, so that only the   *)
(* other clients' are kept; addresses are numbers, for the map's order.    *)
(***************************************************************************)
EXTENDS Naturals

CONSTANTS Server,       \* "1111"
          Peers,        \* the clients' addresses
          AssumedFile   \* the level noted for a neighbour at level 1 (101)

Addresses == Peers \cup {Server}

ASSUME NeighbourAssumption == /\ Addresses \subseteq Nat \ {0} /\ Server \notin Peers
                              /\ AssumedFile \in Nat

NoAddress == 0
Unknown == 0            \* no entry in neiIP

NoNeighbours == [a \in Peers |-> Unknown]

\* insertNeiIP: a neighbour at level 1 is noted as one that has everything.
insertNeiIP(nei, ip, file) ==
    [a \in Peers |-> IF a # ip THEN nei[a] ELSE IF file = 1 THEN AssumedFile ELSE file]

\* processMessage, 'b': the list names each neighbour with the level it
\* registered with, 1.
insertList(nei, list) == [a \in Peers |-> IF a \in list THEN AssumedFile ELSE nei[a]]

removeNeiIP(nei, ip) == [a \in Peers |-> IF a = ip THEN Unknown ELSE nei[a]]

MutantFindNeiIP(nei, level) ==
    LET better == {a \in Peers : nei[a] >= level}
    IN  IF better = {} THEN Server ELSE CHOOSE a \in better : \A b \in better : a <= b

\* The first neighbour, in the order of the map, above the level; else the server.
findNeiIP(nei, level) ==
    LET better == {a \in Peers : nei[a] > level}
    IN  IF better = {} THEN Server ELSE CHOOSE a \in better : \A b \in better : a <= b

MutantProcessUpdateFile(level, updateFile) == IF level >= updateFile THEN 1 ELSE 0

\* processUpdateFile: the levels gained from a source at the given level.
processUpdateFile(level, updateFile) == IF level > updateFile THEN 1 ELSE 0
=============================================================================
