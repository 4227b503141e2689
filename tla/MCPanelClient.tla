---------------------------- MODULE MCPanelClient ----------------------------
(* Instances of PanelClient for TLC.                                        *)
EXTENDS PanelClient, TLC
CONSTANTS a, b

\* A payment creates the key and an admin edits it; the owner renews or
\* deletes it while lists are read.
MCOps == a :> {"add", "edit"} @@ b :> {"extend", "delete", "list"}

\* Bulk renewal and the syncs do one thing after another in a session.
MCSessions == a :> 1 @@ b :> 2
=============================================================================
