----------------------------- MODULE MCRelease ------------------------------
(* A release of up to two assets, with two digests.                         *)
EXTENDS Release

CONSTANTS source, report, genuine, other

MCAssets == {source, report}

MCDigests == {genuine, other}
=============================================================================
