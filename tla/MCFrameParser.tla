--------------------------- MODULE MCFrameParser ---------------------------
(* FrameParser with bodies of up to two bytes. *)
EXTENDS FrameParser

Lines == <<"content-length:0", "content-length:1", "content-length:2">>
=============================================================================
