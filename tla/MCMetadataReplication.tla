----------------------- MODULE MCMetadataReplication -----------------------
(* A small instance of MetadataReplication. *)
EXTENDS MetadataReplication
=============================================================================
