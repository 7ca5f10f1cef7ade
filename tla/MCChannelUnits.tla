--------------------------- MODULE MCChannelUnits ---------------------------
(***************************************************************************)
(* A small instance of ChannelUnits: one client of config.ini stays in the *)
(* window's fields, the other is replaced.                                 *)
(***************************************************************************)
EXTENDS ChannelUnits

ConfigClients == <<"a", "b">>
WindowFields == <<"a", "c">>
=============================================================================
