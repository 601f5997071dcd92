------------------------------ MODULE MCUpload ------------------------------
(* The refusals of the runs of Upload, by _appendUploadSupported.          *)
EXTENDS Upload

MCRefusals == [appends \in BOOLEAN |-> {"refused", "unparsed"}]
MCRefusedByAppend ==
  [appends \in BOOLEAN |-> IF appends THEN {"refused", "unparsed"} ELSE {}]
=============================================================================
