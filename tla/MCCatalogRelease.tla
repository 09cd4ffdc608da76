--------------------------- MODULE MCCatalogRelease ---------------------------
(* Instances of CatalogRelease for TLC.                                    *)
EXTENDS CatalogRelease, TLC

CONSTANTS d1, d2, e1, e2

MCDigests == {d1, d2}
MCEntries == {e1, e2}
=============================================================================
