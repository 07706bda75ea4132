------------------------------ MODULE MCBreak ------------------------------
(* Announcements in a queue of two tracks. *)
EXTENDS Break

TwoTracks == <<"track", "last">>
=============================================================================
