----------------------------- MODULE MCHistogram -----------------------------
(* A finite instance of Histogram for TLC: a byte has two bits, and a merge *)
(* is due every second byte.  The files end before, at and after a multiple *)
(* of the period, one is empty and one cannot be opened.                    *)
EXTENDS Histogram

MCFiles == << <<{0, 1}, {1}, {0}>>, <<{1}, {0, 1}>>, <<{0}>>, <<>>, <<{1}>> >>
MCUnreadable == {3}
=============================================================================
