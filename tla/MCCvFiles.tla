------------------------------ MODULE MCCvFiles ------------------------------
(* Instances of CvFiles for TLC: files and requests are interchangeable.    *)
EXTENDS CvFiles, TLC

Symmetry == Permutations(Files) \cup Permutations(Requests)
============================================================================
