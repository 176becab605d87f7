--------------------------- MODULE MCStringTable ---------------------------
(* Strings of two lengths over two characters.                             *)
EXTENDS StringTable

a  == <<1>>
b  == <<2>>
ab == <<1, 2>>

someStrings == {a, b, ab}
=============================================================================
