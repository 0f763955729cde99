---------------------------- MODULE TrieEncoding ----------------------------
(***************************************************************************)
(* The key encodings of the trie: proton/trie/encoding.go.                 *)
(*                                                                         *)
(* KEYBYTES keys are sequences of bytes.  HEX keys hold one nibble per     *)
(* element and may end in a terminator.  COMPACT keys pack two nibbles     *)
(* into a byte behind a flag nibble and are what the database stores.      *)
(* A nibble is a digit in base Radix: 16 in the code.                      *)
(***************************************************************************)
EXTENDS Integers, Sequences

CONSTANT Radix

\* The flag nibble of a compact key takes the values 0..3.
ASSUME RadixAssumption == Radix \in Nat /\ Radix >= 4

Nibble == 0 .. Radix - 1
Byte == 0 .. Radix * Radix - 1
Terminator == Radix

\* The slices s[:n] and s[n:]
Take(s, n) == SubSeq(s, 1, n)
Drop(s, n) == SubSeq(s, n + 1, Len(s))

hasTerm(s) == Len(s) > 0 /\ s[Len(s)] = Terminator

keybytesToHex(str) ==
    [i \in 1 .. 2 * Len(str) + 1 |->
        IF i = 2 * Len(str) + 1 THEN Terminator
        ELSE IF i % 2 = 1 THEN str[(i + 1) \div 2] \div Radix
        ELSE str[i \div 2] % Radix]

\* Pairs of nibbles, for an even number of them
decodeNibbles(nibbles) ==
    [i \in 1 .. Len(nibbles) \div 2 |-> nibbles[2 * i - 1] * Radix + nibbles[2 * i]]

hexToCompact(hex) ==
    LET terminator == IF hasTerm(hex) THEN 1 ELSE 0
        digits == Take(hex, Len(hex) - terminator)
        odd == Len(digits) % 2
    IN  <<(2 * terminator + odd) * Radix + (IF odd = 1 THEN digits[1] ELSE 0)>>
            \o decodeNibbles(Drop(digits, odd))

compactToHex(compact) ==
    IF compact = <<>> THEN compact
    ELSE LET base == keybytesToHex(compact)
             flagged == IF base[1] < 2 THEN Take(base, Len(base) - 1) ELSE base
         IN  Drop(flagged, 2 - (base[1] % 2))

\* The length of the common prefix of a and b
prefixLen(a, b) ==
    CHOOSE n \in 0 .. Len(a) :
        /\ n <= Len(b) /\ Take(a, n) = Take(b, n)
        /\ n < Len(a) /\ n < Len(b) => a[n + 1] # b[n + 1]

=============================================================================
