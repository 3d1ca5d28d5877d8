---------------------------- MODULE MCUsbBridge ----------------------------
(* A header of two bytes and a CRC of one; every packet has a byte that is *)
(* escaped, in the header, the payload or the CRC, and bytes that look     *)
(* like the second half of an escape.                                      *)
EXTENDS UsbBridge

CONSTANTS nl, esc, fd, fc, pre, len, x

Packets ==
  { <<pre, len, nl>>, <<esc, len, esc, fd>>, <<pre, len, fc, nl, x>> }

=============================================================================
