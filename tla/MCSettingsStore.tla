--------------------------- MODULE MCSettingsStore ---------------------------
(* Instances of SettingsStore for TLC. *)
EXTENDS SettingsStore, TLC

\* Files, keys and values differ by name only.
DataSymmetry == Permutations(Files) \cup Permutations(Keys) \cup Permutations(Values)
=============================================================================
