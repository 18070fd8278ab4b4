--------------------------- MODULE MCOpenSubtitles ---------------------------
(* OpenSubtitles with two workers, small delays and short Suspensions. *)
EXTENDS OpenSubtitles

MCHints == {3}
MCResumes == {0, 1}
=============================================================================
