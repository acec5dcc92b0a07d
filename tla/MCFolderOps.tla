---------------------------- MODULE MCFolderOps -----------------------------
(* Small trees for FolderOps: Root holds d and h, d holds e and f, e holds g.  *)
(* A configuration with fewer entries leaves the others out.                   *)
EXTENDS FolderOps

CONSTANTS d, e, f, g, h

MCUp == [n \in Nodes |-> IF n \in {d, h} THEN Root ELSE IF n = g THEN e ELSE d]
AtLocal == [s \in Sides |-> IF s = "local" THEN Nodes ELSE {}]
AtPeer  == [s \in Sides |-> IF s = "peer" THEN Nodes ELSE {}]
Shared  == [s \in Sides |-> IF s = "peer" THEN {d, e, f, g} ELSE {d, e, h}]
=============================================================================
