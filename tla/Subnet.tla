------------------------------- MODULE Subnet -------------------------------
(***************************************************************************)
(* Addresses of the rotated subnet (simple-ipv6-proxy/src/subnet.rs), byte *)
(* by byte as the code computes them.  An IPv6 address has 16 bytes of 8   *)
(* bits; both numbers are parameters.                                      *)
(***************************************************************************)
EXTENDS Naturals

CONSTANTS
    Bytes,          \* bytes of an address
    Bits            \* bits of a byte

ASSUME SubnetAssumption == Bytes \in Nat \ {0} /\ Bits \in Nat \ {0}

\* The powers of two up to the number of addresses.
Pow2[n \in 0..(Bytes * Bits)] == IF n = 0 THEN 1 ELSE 2 * Pow2[n - 1]

Byte == 0..(Pow2[Bits] - 1)

Address == [0..(Bytes - 1) -> Byte]

\* The bits of byte i that a prefix of length len leaves to the host, if the
\* prefix ends within the byte.
HostBits(i, len) == (i + 1) * Bits - len

\* b & !mask and b & mask for the mask of the last n bits.
HighBits(b, n) == (b \div Pow2[n]) * Pow2[n]
LowBits(b, n) == b % Pow2[n]

\* mask_prefix: the host part of an address is cleared.
MaskPrefix(a, len) ==
    [i \in 0..(Bytes - 1) |->
        IF (i + 1) * Bits <= len THEN a[i]
        ELSE IF i * Bits >= len THEN 0
        ELSE HighBits(a[i], HostBits(i, len))]

\* Subnet::parse of "a/len".
Parse(a, len) == [prefix |-> MaskPrefix(a, len), len |-> len]

\* Mutant of RandomAddr: the byte in which the prefix ends is all random.
RandomAddrWholeByte(s, rnd) ==
    [i \in 0..(Bytes - 1) |-> IF (i + 1) * Bits > s.len THEN rnd[i] ELSE s.prefix[i]]

\* random_addr with the random bytes rnd.
RandomAddr(s, rnd) ==
    [i \in 0..(Bytes - 1) |->
        IF i * Bits >= s.len THEN rnd[i]
        ELSE IF (i + 1) * Bits > s.len
        THEN HighBits(s.prefix[i], HostBits(i, s.len)) + LowBits(rnd[i], HostBits(i, s.len))
        ELSE s.prefix[i]]

Sources(s) == {RandomAddr(s, rnd) : rnd \in Address}

-----------------------------------------------------------------------------
(* The same, read as numbers.                                              *)

\* The number that the bytes of an address are.
Value(a) ==
    LET first[k \in 0..Bytes] ==
            IF k = 0 THEN 0 ELSE first[k - 1] * Pow2[Bits] + a[k - 1]
    IN  first[Bytes]

\* Its first len bits.
Prefix(a, len) == Value(a) \div Pow2[Bytes * Bits - len]
=============================================================================
