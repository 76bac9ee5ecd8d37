---------------------------- MODULE MCHistoryBlobs ----------------------------
(* HistoryBlobs for TLC: an upload whose picture the proxy and the upload        *)
(* controller both persist, and another request with a picture.                  *)
EXTENDS HistoryBlobs

MCEventOf == [p \in Persists |-> IF p = "other" THEN "request" ELSE "upload"]
=============================================================================
