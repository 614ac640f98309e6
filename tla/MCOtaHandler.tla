--------------------------- MODULE MCOtaHandler ---------------------------
(* Two assignments of firmware; the configurations make an image of three  *)
(* chunks with two retries for each.                                       *)
EXTENDS OtaHandler

MCVersions == {1, 2}
MCNone == {}
=============================================================================
