--------------------------- MODULE MCPriceAverage ---------------------------
(* A 4-bit u64 (0..15) and up to three reports: two large timestamps      *)
(* already overflow the accumulator.                                       *)
EXTENDS PriceAverage

MCWidth == 4
MCStamps == 0 .. 15
MCMaxReports == 3
=============================================================================
