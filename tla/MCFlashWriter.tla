--------------------------- MODULE MCFlashWriter ---------------------------
(* The layout of an STM32F4 with 256 KiB of flash: four sectors of one     *)
(* cell, one of four, one of eight.                                        *)
EXTENDS FlashWriter

\* The last configuration page, both ends and the inside of the two
\* application sectors, and the end of the flash.
MCAddresses == {3, 4, 7, 8, 12, 15, 16}
=============================================================================
