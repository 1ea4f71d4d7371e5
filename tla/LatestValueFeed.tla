--------------------------- MODULE LatestValueFeed ---------------------------
(***************************************************************************)
(* What a sidecar promises its paired slide, independently of polling,     *)
(* retries and backoff: a lossy feed of a remote value.                    *)
(*                                                                         *)
(* A remote source moves through versions 0, 1, 2, ...  A one-place slot   *)
(* (the host's sidecar-to-slide channel) holds some version the source     *)
(* already had, and only ever moves forward.  Versions may be skipped.     *)
(* The slide copies the slot.                                              *)
(***************************************************************************)
EXTENDS Naturals

CONSTANT MaxVersion     \* bound on the versions the source goes through

VARIABLES
  source,    \* the current version of the remote data
  slot,      \* the version in the channel
  seen       \* the version the slide shows

feedVars == <<source, slot, seen>>

FeedInit ==
  /\ source = 0
  /\ slot = 0
  /\ seen = 0

\* The remote data changes.
Change ==
  /\ source < MaxVersion
  /\ source' = source + 1
  /\ UNCHANGED <<slot, seen>>

\* The slot moves forward to a version the source has had.
Publish ==
  /\ slot' \in (slot + 1) .. source
  /\ UNCHANGED <<source, seen>>

\* The slide picks up what is in the slot.
Pickup ==
  /\ seen # slot
  /\ seen' = slot
  /\ UNCHANGED <<source, slot>>

FeedNext == Change \/ Publish \/ Pickup

FeedSpec == FeedInit /\ [][FeedNext]_feedVars
=============================================================================
