------------------------------ MODULE MCPageTree ------------------------------
(* Instances of PageTree for TLC. *)
EXTENDS PageTree

NewOrModified == {0, 2}
=============================================================================
