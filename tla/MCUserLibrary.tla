--------------------------- MODULE MCUserLibrary ---------------------------
(* The bounds of the user library's texts.                                 *)
EXTENDS UserLibrary

TextLengths == [shell |-> 5, regex |-> 4, format |-> 4, bytes |-> 4, grep |-> 6, wc |-> 5]
=============================================================================
