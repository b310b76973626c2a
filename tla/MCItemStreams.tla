----------------------------- MODULE MCItemStreams -----------------------------
(***************************************************************************)
(* A small input with a line of every kind, and a table of as many rows.   *)
(***************************************************************************)
EXTENDS ItemStreams

MixedLines == <<"item", "item", "blank", "bad", "item", "null", "item">>
=============================================================================
