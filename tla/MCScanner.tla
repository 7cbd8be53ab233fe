----------------------------- MODULE MCScanner -----------------------------
\* Two ranges of the target: one of two elements, one of one element after it.
EXTENDS Scanner

TwoRanges == {1, 2}
BaseOfTwo == [r \in TwoRanges |-> IF r = 1 THEN 4 ELSE 12]
SizeOfTwo == [r \in TwoRanges |-> IF r = 1 THEN 4 ELSE 2]
=============================================================================
