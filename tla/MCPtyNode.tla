------------------------------ MODULE MCPtyNode ------------------------------
(* Models of PtyNode.                                                      *)
EXTENDS PtyNode
=============================================================================
