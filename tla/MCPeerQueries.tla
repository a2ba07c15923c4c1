----------------------------- MODULE MCPeerQueries -----------------------------
(* A small instance of the queries; int32 is -2..1. *)
EXTENDS PeerQueries

CONSTANTS p1, p2

\* Two peers, an id that is too long, an array with a hole and one with "".
MCLists == {<<p1, p2>>, <<Hole>>, <<Long>>, <<Empty>>}

\* With Half = 2, 3 and 5 do not fit: they become -1 and 1.
MCRequestIds == {0, 1, 3, 5}
=============================================================================
