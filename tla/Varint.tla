------------------------------- MODULE Varint -------------------------------
(***************************************************************************)
(* The two encodings of 07-microservice/grpc/main.go.  encodeVarint cuts a *)
(* number into digits to the base 2^7, the low ones first, each in a byte  *)
(* to which Base, its eighth bit, is added when more follow; zigzag folds  *)
(* the 64-bit integers into the unsigned ones.                             *)
(***************************************************************************)
EXTENDS Integers, Sequences

CONSTANTS Base,  \* 2^7 in the code
          Half   \* 2^63 in the code: the integers are from -Half to Half - 1

VARIABLES number,  \* what is to be encoded
          n, buf,  \* of encodeVarint
          encoded  \* the loop is left

varintVars == <<number, n, buf, encoded>>

Unsigned == 0 .. 2 * Half - 1
Signed == -Half .. Half - 1

\* n >> 63 is -1 for the negative numbers: the exclusive or flips every bit of
\* n << 1.
zigzag(v) ==
    LET shifted == (2 * v) % (2 * Half)
    IN  IF v < 0 THEN 2 * Half - 1 - shifted ELSE shifted

\* The numbers are encoded as they are, or those that zigzag made.
Init ==
    /\ number \in Unsigned \cup {zigzag(v) : v \in Signed}
    /\ n = number /\ buf = <<>>
    /\ encoded = FALSE

more ==
    /\ ~encoded /\ n > Base - 1
    /\ buf' = Append(buf, (n % Base) + Base)
    /\ n' = n \div Base
    /\ UNCHANGED <<number, encoded>>

lastByte ==
    /\ ~encoded /\ n <= Base - 1
    /\ buf' = Append(buf, n)
    /\ encoded' = TRUE
    /\ UNCHANGED <<number, n>>

Next == more \/ lastByte

-----------------------------------------------------------------------------
\* What a reader makes of the bytes: each has seven bits of the number, the
\* last the highest.
Read(bytes) ==
    LET value[k \in 0 .. Len(bytes)] ==  \* of the last k
          IF k = 0 THEN 0
          ELSE (bytes[Len(bytes) + 1 - k] % Base) + Base * value[k - 1]
    IN  value[Len(bytes)]

\* A reader that takes bytes up to the first without the continuation bit gets
\* the number back, and the last byte is not there for nothing.
ReadsBack ==
    encoded =>
    /\ \A b \in DOMAIN buf : buf[b] \in 0 .. 2 * Base - 1
    /\ \A b \in DOMAIN buf : buf[b] >= Base <=> b < Len(buf)
    /\ number = Read(buf)
    /\ Len(buf) > 1 => buf[Len(buf)] # 0

\* zigzag loses no number, the smallest and the largest included, and gives
\* a number closer to zero a smaller code.
ZigzagIsOneToOne ==
    /\ {zigzag(v) : v \in Signed} = Unsigned
    /\ \A v, w \in Signed :
          /\ v # w => zigzag(v) # zigzag(w)
          /\ v >= 0 /\ -v < w /\ w < v => zigzag(w) < zigzag(v)
=============================================================================
