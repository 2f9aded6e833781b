--------------------------- MODULE MCLibraryAction ---------------------------
(* A library action of up to two items, albums of two tracks, and counts    *)
(* below, at and above nothing; two titles alike, one of its own and one    *)
(* that heads a listing; slips as near to both references and to one.       *)
EXTENDS LibraryAction

MCCounts == {-1, 0, 1}
MCTitles == {"Symphony No. 5", "Symphony No. 6", "Tracks"}
MCNear == {{"Symphony No. 5", "Symphony No. 6"}}
MCGateways == {"Tracks"}
MCRefs == {<<1, 1>>, <<1, 2>>}
MCSlips == {<<1, 3>>, <<2, 2>>}
=============================================================================
