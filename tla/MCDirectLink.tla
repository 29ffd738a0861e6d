---------------------------- MODULE MCDirectLink ----------------------------
(***************************************************************************)
(* DirectLink with three exchanges, two payloads each way of which the first *)
(* takes one frame and the second two.                                     *)
(***************************************************************************)
EXTENDS DirectLink

TwoParts == <<1, 2>>
=============================================================================
