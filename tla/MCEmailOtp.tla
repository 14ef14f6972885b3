----------------------------- MODULE MCEmailOtp -----------------------------
\* Two login challenges, so that one can replace the other, and one of a
\* registration; requests are interchangeable, and so are the starts.
EXTENDS EmailOtpChallenges, TLC

CONSTANTS a, b, s

\* One login replaces the other, or the wallet is enrolled anew.
TwoScenarios == {{a, b}, {s}}

Symmetry == Permutations(Requests) \cup Permutations(Starts)
=============================================================================
