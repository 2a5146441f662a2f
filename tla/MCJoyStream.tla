------------------------------ MODULE MCJoyStream ------------------------------
(* JoyStream with interchangeable sources: nothing compares them but =.     *)
EXTENDS JoyStream, TLC

Symmetry == Permutations(Sources)
=============================================================================
