---------------------------- MODULE MCDispatcher ----------------------------
(* Instances of Dispatcher for TLC.                                        *)
EXTENDS Dispatcher

CONSTANTS eth0, eth1, usb0

(* A tethered computer.                                                    *)
OneGadget == <<usb0>>
=============================================================================
