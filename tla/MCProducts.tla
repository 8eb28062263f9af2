----------------------------- MODULE MCProducts -----------------------------
(* Products for TLC: requests, SKUs, contents and file names are            *)
(* interchangeable among themselves.                                        *)
EXTENDS Products, TLC

Symmetries == Permutations(Requests) \cup Permutations(SKUs)
                \cup Permutations(Infos) \cup Permutations(Files)

\* With two rows at most: a negative number, a page in the middle or behind the
\* end, and one whose offset overflows.
SomePages == {-1, 1, 2}
=============================================================================
