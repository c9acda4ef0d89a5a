------------------------------- MODULE Fat12 -------------------------------
(***************************************************************************)
(* Twelve-bit entries of a file allocation table, two in three bytes: how  *)
(* the image builder writes one (SetFatEntry of                            *)
(* tools/NerbOS.FloppyBuilder/Program.cs) and how the boot loader reads it *)
(* (GetFatEntry of FloppyInstallBootstrap.asm).  A table is a function     *)
(* from offsets to bytes.                                                  *)
(***************************************************************************)
EXTENDS Integers

Byte     == 0 .. 255
FatEntry == 0 .. 4095

EndMarkers == 4080      \* 0FF0h, the first value that is not a cluster
FileEnd    == 4095      \* 0FFFh, after the last cluster of a file

SetFatEntry(fat, index, value) ==
    LET pair == (index * 3) \div 2
        low  == fat[pair]
        high == fat[pair + 1]
        v    == value % 4096
    IN  IF index % 2 = 0
        THEN [fat EXCEPT ![pair] = v % 256,
                         ![pair + 1] = (high - (high % 16)) + (v \div 256)]
        ELSE [fat EXCEPT ![pair] = (low % 16) + (v % 16) * 16,
                         ![pair + 1] = v \div 16]

GetFatEntry(fat, cluster) ==
    LET si == cluster + (cluster \div 2)
        ax == fat[si] + 256 * fat[si + 1]
    IN  IF cluster % 2 = 0 THEN ax % 4096 ELSE ax \div 16
=============================================================================
