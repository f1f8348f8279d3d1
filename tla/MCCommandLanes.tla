--------------------------- MODULE MCCommandLanes ---------------------------
(***************************************************************************)
(* CommandLanes for TLC: two changes to one feature, a change to another   *)
(* and a read.                                                             *)
(***************************************************************************)
EXTENDS CommandLanes

CONSTANTS site1, site2, upload, list

LaneCmds == {site1, site2, upload, list}

Segments == [c \in LaneCmds |->
               IF c \in {site1, site2} THEN <<"proxy", "sites", "example.org">>
               ELSE IF c = upload THEN <<"fs", "upload">> ELSE <<"fs", "list">>]

Changes == {site1, site2, upload}
=============================================================================
