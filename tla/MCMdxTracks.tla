---------------------------- MODULE MCMdxTracks ----------------------------
(* Three kinds of song, so that the commands that interact meet: notes and *)
(* slurs; two tracks that wait for one another and a fade; loops and a     *)
(* fade.  The player may fade any of them.                                 *)
EXTENDS MdxTracks

MCRepertoires ==
  { {"rest", "note", "legato", "end", "bad"},
    {"rest", "note", "send", "wait", "fade", "end"},
    {"rest", "note", "loop", "fade", "data", "end"} }
=============================================================================
