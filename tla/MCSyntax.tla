------------------------------ MODULE MCSyntax -----------------------------
(* Programs of up to seven nodes, two syntax errors and two closing tokens  *)
(* awaited at a time. An IF with ELSE in a function body takes six nodes; so*)
(* does a mulacc in one, whose own two nodes are not counted. The tokens    *)
(* bound how deep parentheses and blocks nest that add no node.             *)
EXTENDS Syntax
=============================================================================
