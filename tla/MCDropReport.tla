----------------------------- MODULE MCDropReport -----------------------------
(* Four starts are enough for a report to be replaced by a later one, for a   *)
(* torn line to be continued and for the outcome to be read and published.    *)
EXTENDS DropReport
=============================================================================
