----------------------------- MODULE MCWvDynBuf -----------------------------
(***************************************************************************)
(* One dynamic buffer that five bytes are written to, enough for several   *)
(* sub-buffers.                                                            *)
(***************************************************************************)
EXTENDS WvDynBuf

FiveBytes == <<5>>
Nothing == <<>>
============================================================================
