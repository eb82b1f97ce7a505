---------------------------- MODULE MCFrameReader ----------------------------
(* Bytes of two values: bodies of no byte, and of one to three, whose bytes     *)
(* look like the headers of others.                                           *)
EXTENDS FrameReader

MCBodies == {<<>>, <<0>>, <<1>>, <<0, 1>>, <<1, 0, 1>>}
=============================================================================
