----------------------------- MODULE MCUploader -----------------------------
(* Two tabs of one browser with the same file.                             *)
EXTENDS Uploader

CONSTANTS t1, t2
=============================================================================
