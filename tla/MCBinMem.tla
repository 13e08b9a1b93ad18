------------------------------ MODULE MCBinMem ------------------------------
(* An instance of BinMem small enough for TLC.  A heap of 640 bytes has    *)
(* small bins, larger bins and requests too large for it.                  *)
EXTENDS BinMem

MCSizes   == {8, 500, 640}         \* chunks of 24 and 520 bytes; a large block
MCReSizes == {460}                 \* a chunk of 480 bytes: larger, or smaller, than the block
MCFails   == {"alloc", "realloc"}
=============================================================================
