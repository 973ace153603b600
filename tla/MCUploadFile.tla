---------------------------- MODULE MCUploadFile -----------------------------
(* Small instances of UploadFile for TLC. *)
EXTENDS UploadFile

\* Empty, one short part, whole parts, whole parts and a short one.
SmallSizes == {0, 1, 4, 5}
=============================================================================
