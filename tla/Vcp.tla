-------------------------------- MODULE Vcp --------------------------------
(***************************************************************************)
(* How brightness travels in VCP requests and replies -- a 16-bit value in *)
(* two bytes (ddc/abstraction.c and the backends) -- and how a monitor's   *)
(* three-letter maker becomes a number (ddc/linux.c).                      *)
(***************************************************************************)
EXTENDS Integers

Byte == 256

\* ddc_src_set and the replies of the backends: (value >> 8) & 0xFF and value & 0xFF.
Packed(value) == [hi |-> (value \div Byte) % Byte, lo |-> value % Byte]

\* A faulty ddc_src_get swaps the two bytes.
unpacked_swapped(bytes) == (bytes.lo * Byte) + bytes.hi

\* ddc_src_get and the set requests of the backends: (hi << 8) | lo.
Unpacked(bytes) == (bytes.hi * Byte) + bytes.lo

\* ddctl's reply has one byte for each number.
LowByte(bytes) == [hi |-> 0, lo |-> bytes.lo]

\* m1ddc's reply has a signed field for each number.  (convertI2CtoDDC, which keeps
\* the low bits of a number, from -half to half - 1.)
Signed(number, half) ==
    LET low == number % (2 * half)
    IN  IF low < half THEN low ELSE low - (2 * half)

\* m1ddc's reply is brought into range.
Sane(reading) ==
    [current |-> IF reading.current < 0 THEN 0 ELSE reading.current,
     max |-> IF reading.max <= 0 THEN 100 ELSE reading.max]

\* 1..26 for a letter of either case, 0 for anything else.
eisa_id_from_mfg(mfg) ==
    IF \E i \in 1..3 : mfg[i] = 0 THEN 0
    ELSE (mfg[1] * 1024) + (mfg[2] * 32) + mfg[3]
=============================================================================
