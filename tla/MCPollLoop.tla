----------------------------- MODULE MCPollLoop -----------------------------
(***************************************************************************)
(* Instances of PollLoop for TLC.  The u32 is scaled down to 8 bits so     *)
(* that doubling a backoff reaches the end of the type.                    *)
(***************************************************************************)
EXTENDS PollLoop

\* Intervals that meet every boundary: zero, one, below and above half the
\* cap, the cap, above it, half the width, and the width.
MCRequested == {0, 1, 7, 30, 31, 59, 60, 61, 90, 128, 255}

\* Slept, skip requested, host call failed.
MCAnnounce == {0, 1, -1}
=============================================================================
