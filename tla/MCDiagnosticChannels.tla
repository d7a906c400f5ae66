------------------------ MODULE MCDiagnosticChannels ------------------------
(***************************************************************************)
(* The input side of the protocol: two instances of one task that share    *)
(* the caches, one of them on a project that exercises a device or a group *)
(* of sources, the other on one that refreshes a part of the same caches,  *)
(* or others.                                                              *)
(***************************************************************************)
EXTENDS DiagnosticChannels

MCProjects == {
    <<"USB_FLASH_SIZE", "USB_FLASH_DEV">>,
    <<"SD_CARD_USED", "USB_FLASH_LABEL">>,
    <<"MODEM_IFACE", "MODEM_STATUS">>,
    <<"CPU_TEMP", "SYS_TIME">>
}
=============================================================================
