---------------------------- MODULE MCPanelSync -----------------------------
(* Instances of PanelSync for TLC.                                           *)
EXTENDS PanelSync
CONSTANTS e1, e2, e3, b1, b2, b3
\* Every email serves a purchase of its own.
MCApart == (e1 :> b1) @@ (e2 :> b2) @@ (e3 :> b3)
\* Every email is an attempt to serve the same purchase.
MCSame == [e \in {e1, e2, e3} |-> b1]
=============================================================================
