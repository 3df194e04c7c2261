------------------------------ MODULE MCBlobs ------------------------------
(* Small instances of Blobs for TLC.                                       *)
EXTENDS Blobs, TLC

============================================================================
