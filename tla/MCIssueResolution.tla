--------------------------- MODULE MCIssueResolution ---------------------------
EXTENDS IssueResolution, TLC

\* The handlers that may be in flight are interchangeable.
CallerSymmetry == Permutations(Callers)
=============================================================================
