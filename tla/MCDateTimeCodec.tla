--------------------------- MODULE MCDateTimeCodec ---------------------------
(* Years 0000..0001 fit four digits, a year has three seconds and offsets  *)
(* are one second either way: enough for an offset to carry the first or  *)
(* the last accepted second out of the four-digit range, and for a         *)
(* fraction to meet a negative instant.                                    *)
EXTENDS DateTimeCodec

MCOffsets == {-1, 0, 1}

=============================================================================
