----------------------------- MODULE MCMetadata -----------------------------
(* Small instances of Metadata for TLC. *)
EXTENDS Metadata, TLC

\* Callers, calls and keys are interchangeable; sound for safety only.
Symmetry == Permutations(Requests) \cup Permutations(Calls) \cup Permutations(Keys)
=============================================================================
