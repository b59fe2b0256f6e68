------------------------------ MODULE MCPvMode ------------------------------
(* PvMode with a phone and two sizes of a desktop's window. *)
EXTENDS PvMode

Windows == {<<375, 812>>, <<1280, 803>>}
=============================================================================
