--------------------------- MODULE MCTrailingStop ---------------------------
(***************************************************************************)
(* An index position for TLC, whose direction the executor calls LONG:     *)
(* entry at 40 with 8 at risk, prices on, between and beyond the targets   *)
(* of a long, 52 and 60, and of a short, 28 and 20.                        *)
(***************************************************************************)
EXTENDS TrailingStop

AllPrices == {9, 15, 20, 24, 28, 31, 32, 36, 40, 44, 48, 49, 52, 56, 60, 70}

IndexLong == {"LONG"}

AllStrategies == {"SCALP", "INTRADAY", "BTST"}

=============================================================================
