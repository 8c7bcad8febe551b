------------------------------ MODULE MCLogRange ------------------------------
\* Two chunks of four and three blocks, and every
\* distribution of up to two logs per block.
EXTENDS LogRange

AllCounts == [Blocks -> 0 .. 2]
=============================================================================
