---------------------------- MODULE MCHdcDevices ----------------------------
(***************************************************************************)
(* The instances of HdcDevices: what may happen to a device, by its link.  *)
(***************************************************************************)
EXTENDS HdcDevices

MCLinks == {"usb", "winusb", "tcp", "uart"}
MCCommands == [usb |-> 0, winusb |-> 2, tcp |-> 2, uart |-> 2]
MCFaults == [usb |-> 1, winusb |-> 0, tcp |-> 1, uart |-> 1]
MCPort == {"uart"}
MCOnce == [uart |-> 1]
=============================================================================
