-------------------------- MODULE MC_CloudPairing --------------------------
(* Two users, two codes, two devices; the names of a kind are interchangeable. *)
EXTENDS CloudPairing, TLC

CONSTANTS u1, u2, t1, t2, p1, p2, d1, d2

TwoEmails == {u1, u2}
TwoTokens == {t1, t2}
TwoCodes == {p1, p2}
TwoDevices == {d1, d2}
NameSymmetry == Permutations(TwoEmails) \cup Permutations(TwoTokens)
                \cup Permutations(TwoCodes) \cup Permutations(TwoDevices)
=============================================================================
