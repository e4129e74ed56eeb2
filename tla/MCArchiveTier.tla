--------------------------- MODULE MCArchiveTier ---------------------------
(* Two tiers.  Evaluate moves an object from the file to either tier and     *)
(* from GLACIER to DEEP_ARCHIVE.                                             *)
EXTENDS ArchiveTier

MCTiers == {"GLACIER", "DEEP_ARCHIVE"}
MCColder == {<<None, c>> : c \in MCTiers} \cup {<<"GLACIER", "DEEP_ARCHIVE">>}
============================================================================
