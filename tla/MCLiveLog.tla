----------------------------- MODULE MCLiveLog -----------------------------
(***************************************************************************)
(* Instances of LiveLog for TLC: what the chunks of the output can look    *)
(* like.                                                                   *)
(***************************************************************************)
EXTENDS LiveLog

\* A piece of a line, the end of a line and the start of the next, two lines, and a line and
\* an empty one (which differ, so that a line out of place shows).
MCShapes == {<<"c">>, <<"n", "c">>, <<"c", "n", "c", "n">>, <<"c", "n", "n">>}
=============================================================================
