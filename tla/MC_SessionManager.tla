------------------------- MODULE MC_SessionManager -------------------------
(* One ephemeral code, one of the four local codes, two tokens, two callers. *)
EXTENDS SessionManager, TLC

CONSTANTS code1, localDev, t1, t2, h1, h2

OneCode == {code1}
OneLocalCode == {localDev}
TwoTokens == {t1, t2}
TwoCallers == {h1, h2}
DrawSymmetry == Permutations(TwoTokens) \cup Permutations(TwoCallers)
=============================================================================
