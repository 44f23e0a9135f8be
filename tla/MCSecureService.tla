--------------------------- MODULE MCSecureService ---------------------------
(* Two frames; two requests, the first of which takes two records. *)
EXTENDS SecureService

MCReqLens == <<3, 1>>
=============================================================================
