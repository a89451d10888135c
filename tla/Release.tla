------------------------------ MODULE Release -------------------------------
(***************************************************************************)
(* scripts/ci/verify-immutable-release.sh: a shell loop that reads the     *)
(* listing of a release's assets while the process that lists them, page   *)
(* by page, is still writing it.  The shell ends at the first command that *)
(* fails; the listing is the input of the loop, not a command of it.       *)
(***************************************************************************)
EXTENDS Sequences

CONSTANTS
  Assets,   \* what may be uploaded to a release
  Digests,  \* the digests of files
  Absent    \* no digest reported, or no such file downloaded

VARIABLES
  release,     \* what the service holds: immutable, and each uploaded asset's digest
  downloaded,  \* the digest of each asset's file in asset_dir
  listed,      \* the assets listed so far
  pending,     \* those of them that the loop has not read
  listing,     \* "before", "open" while gh lists, "closed" when it has ended
  compared,    \* the assets whose digests have been found equal
  status       \* "running", "ok" or "error"

vars == <<release, downloaded, listed, pending, listing, compared, status>>

Init ==
  /\ \E uploaded \in SUBSET Assets :
       release \in [immutable : BOOLEAN, assets : [uploaded -> Digests \union {Absent}]]
  /\ downloaded \in [Assets -> Digests \union {Absent}]
  /\ listed = {}
  /\ pending = <<>>
  /\ listing = "before"
  /\ compared = {}
  /\ status = "running"

Fail ==
  /\ status' = "error"
  /\ UNCHANGED <<release, downloaded, listed, pending, listing, compared>>

\* The release is queried, and the loop is entered only if it is immutable.
QueryRelease ==
  /\ status = "running"
  /\ listing = "before"
  /\ \/ /\ release.immutable
        /\ listing' = "open"
        /\ UNCHANGED <<release, downloaded, listed, pending, compared, status>>
     \/ Fail

\* gh writes the line of one more asset.
List(a) ==
  /\ status = "running"
  /\ listing = "open"
  /\ a \in DOMAIN release.assets \ listed
  /\ listed' = listed \union {a}
  /\ pending' = Append(pending, a)
  /\ UNCHANGED <<release, downloaded, listing, compared, status>>

\* gh ends: after the last asset, or because a page cannot be had.
ListingEnds ==
  /\ status = "running"
  /\ listing = "open"
  /\ listing' = "closed"
  /\ UNCHANGED <<release, downloaded, listed, pending, compared, status>>

\* The tests of the loop's body.
Agrees(a) ==
  /\ release.assets[a] # Absent
  /\ downloaded[a] # Absent
  /\ downloaded[a] = release.assets[a]

Compare ==
  /\ status = "running"
  /\ pending # <<>>
  /\ IF Agrees(Head(pending))
     THEN /\ compared' = compared \union {Head(pending)}
          /\ pending' = Tail(pending)
          /\ UNCHANGED <<release, downloaded, listed, listing, status>>
     ELSE Fail

\* The loop has read the last line: its status is the script's.
LoopEnds ==
  /\ status = "running"
  /\ listing = "closed"
  /\ pending = <<>>
  /\ status' = "ok"
  /\ UNCHANGED <<release, downloaded, listed, pending, listing, compared>>

Next ==
  \/ QueryRelease \/ (\E a \in Assets : List(a)) \/ ListingEnds
  \/ Compare \/ LoopEnds

Spec == Init /\ [][Next]_vars

-----------------------------------------------------------------------------
(* Properties.                                                             *)

\* "Query each uploaded asset and compare the API-provided digest with the locally
\* computed SHA-256 digest" (docs/release-procedure.md:13-14): a verification that
\* succeeds has compared every asset of the release.
EveryAssetIsCompared ==
  status = "ok" => release.immutable /\ compared = DOMAIN release.assets
=============================================================================
