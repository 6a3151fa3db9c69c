-------------------------- MODULE MCEndpointConfig --------------------------
(* Instances of EndpointConfig for TLC: old and new differ in a password   *)
(* only, small lacks one of their two extensions.                          *)
EXTENDS EndpointConfig, TLC

CONSTANTS old, new, small

MCExtensions == [c \in Config \cup {Blank} |->
  IF c = Blank THEN {} ELSE IF c = small THEN {"2001"} ELSE {"2001", "2002"}]
=============================================================================
