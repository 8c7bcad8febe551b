------------------------------ MODULE MCHttpRetry ----------------------------
\* Budgets of 30 s, 300 s and 300 s as 1, 2 and 2; a request takes at most 1.
EXTENDS HttpRetry
MCLevels == 1 .. 3
MCMaxTime == <<1, 2, 2>>
=============================================================================
