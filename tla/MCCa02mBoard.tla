---------------------------- MODULE MCCa02mBoard ----------------------------
(***************************************************************************)
(* Both plug-ins on one board.  One lamp that both may want, one that only *)
(* the protocol has; a pulse of two cycles.                                *)
(***************************************************************************)
EXTENDS Ca02mBoard

MCLampInputs == {{}, {"BLUE_LED"}}

MCProjects == {<<"INPUT">>, <<"USB_POWER">>, <<"DOUT", "INPUT", "BLUE_LED">>}

MCGarbage == {{}, Bits}
=============================================================================
