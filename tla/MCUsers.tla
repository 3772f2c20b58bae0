------------------------------- MODULE MCUsers -------------------------------
(* A small instance of Users: a seeded administrator, and a name in lower   *)
(* and in upper case.  OE stands for a letter that SQLite does not lower.   *)
EXTENDS Users

OtherNames == {"root", "oern", "OErn"}

LowerOther == [n \in OtherNames |-> IF n = "root" THEN n ELSE "oern"]

LowerAscii == [n \in OtherNames |-> n]
=============================================================================
