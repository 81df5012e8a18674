----------------------------- MODULE MCCmdLine -----------------------------
(***************************************************************************)
(* Instances of CmdLine for TLC.  A buffer of five bytes holds one line of *)
(* three characters or two of one, and wraps at every place.               *)
(***************************************************************************)
EXTENDS CmdLine

MCBootLine == <<66>>
=============================================================================
