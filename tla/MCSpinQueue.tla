----------------------------- MODULE MCSpinQueue -----------------------------
(* Instances of SpinQueue for TLC; the .cfg files give every constant. *)
EXTENDS SpinQueue

==============================================================================
