------------------------- MODULE MCMotionDetection -------------------------
\* Histories of lengths below, at and above the usual ones, and a negative one;
\* frames with and without a remainder for every block size.
EXTENDS MotionDetection

MCHistoryLengths == {-1, 0, 1, 3}

MCRows == 1..6
MCCols == 1..6

=============================================================================
