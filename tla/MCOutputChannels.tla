-------------------------- MODULE MCOutputChannels --------------------------
(***************************************************************************)
(* The output side of the protocol alone, on the projects that tell its    *)
(* paths apart: no channel, no expander output, an input between outputs,  *)
(* a foreign output, and all four outputs in an order that is not the      *)
(* order of their bits.                                                    *)
(***************************************************************************)
EXTENDS OutputChannels

MCProjects == {
    <<>>,
    <<"USB_POWER">>,
    <<"OTHER", "BLUE_LED">>,
    <<"RED_LED", "INPUT", "BUZZER", "USB_POWER">>,
    <<"DOUT", "BLUE_LED", "RED_LED", "BUZZER">>
}

MCGarbage == {{}, Bits}
=============================================================================
