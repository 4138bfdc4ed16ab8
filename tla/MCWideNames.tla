----------------------------- MODULE MCWideNames -----------------------------
(* WideNames with 2-bit INT16 and 4-bit wchar_t characters, in buffers of four:
   a character of either sign, one that is cut to 0, one that is cut to another
   one, and one that is negative in both. *)
EXTENDS WideNames

MCWide == {0, 1, 2, 4, 5, 15}
=============================================================================
