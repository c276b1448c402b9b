--------------------------- MODULE MCConnectorSync ---------------------------
(* An instance of ConnectorSync for TLC.                                     *)
EXTENDS ConnectorSync

CONSTANTS r1, r2, w1, w2
===============================================================================
