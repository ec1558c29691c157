------------------------------ MODULE MCUpload ------------------------------
(***************************************************************************)
(* Upload with a file of three bytes.                                      *)
(***************************************************************************)
EXTENDS Upload

ThreeBytes == <<"d1", "d2", "d3">>

=============================================================================
