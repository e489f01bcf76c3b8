----------------------------- MODULE MCUartLine -----------------------------
(* 27 MHz and 115200 bit/s, divided by their common divisor 14400.         *)
EXTENDS UartLine

MCBytes == {0, 4, 85, 254}
(* Back to back, and pauses that end between two samples of uart.py and    *)
(* exactly on one.                                                         *)
MCGaps  == {228, 1000, 1875}
=============================================================================
