-------------------------- MODULE MCChecksumField --------------------------
(* ChecksumField.tla over every packet of at most 6 bytes of base 8, every *)
(* place of the field and every damaged byte.  The low two of the three    *)
(* bits of a first byte are the header length in units of 2 bytes, so that *)
(* headers of 4 and of 6 bytes are accepted, one bit being the version.    *)
EXTENDS ChecksumField

MCRadix == 8
MCMaxLen == 6
MCSizeRange == 8
MCLengthCodes == 4
MCUnit == 2
MCMinHeader == 4
=============================================================================
