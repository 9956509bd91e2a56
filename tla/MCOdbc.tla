------------------------------- MODULE MCOdbc -------------------------------
(* Small instances of Odbc for TLC.                                        *)
EXTENDS Odbc

CONSTANTS v1

OneValue  == {v1}

(* A column that is NULL, and one that takes three rounds of the loop.      *)
NullLong == <<-1, 5>>

=============================================================================
