--------------------------- MODULE MCContextWindow ---------------------------
(* ContextWindow with a text that is cut as one would expect, a short one     *)
(* that grows by its marker, and one whose second line is all of it.         *)
EXTENDS ContextWindow

MCSections == {<<6, 3, 2>>, <<2, 3, 2>>, <<9, 9, 4>>}
=============================================================================
