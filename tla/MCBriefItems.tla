--------------------------- MODULE MCBriefItems ---------------------------
(***************************************************************************)
(* A collection over two names: the model answers with up to two items,    *)
(* and the application issues up to three IDs.                             *)
(***************************************************************************)
EXTENDS BriefItems
=============================================================================
