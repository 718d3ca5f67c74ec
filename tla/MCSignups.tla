----------------------------- MODULE MCSignups -----------------------------
(***************************************************************************)
(* Small instances of Signups: three spellings of one address, two that    *)
(* differ by case only and one with a name before it, which                *)
(* mail.ParseAddress accepts and the index takes for another address.      *)
(***************************************************************************)
EXTENDS Signups, TLC

LowerCase == [e \in Emails |-> IF e = "Awa@x" THEN "awa@x" ELSE e]

\* Calls are interchangeable names, and so are pages.
Symmetry == Permutations(Calls) \cup Permutations(Consoles)
=============================================================================
