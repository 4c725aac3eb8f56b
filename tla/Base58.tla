------------------------------- MODULE Base58 -------------------------------
(***************************************************************************)
(* Identifiers and the ids of bioauthorizations as text: the digits of a   *)
(* number in decimal are bytes, which a version byte and a checksum are    *)
(* put around, and the base of the whole is changed from 256 to 58.        *)
(*                                                                         *)
(* A character is its index in the alphabet; what is not in the alphabet   *)
(* is TextBase.  Digits of the base changed are least significant first,   *)
(* bytes and text most significant first, as in the code.                  *)
(***************************************************************************)
EXTENDS Naturals, Sequences, FiniteSets, SequencesExt

CONSTANTS
    ByteBase,     \* 256
    TextBase,     \* 58
    DecBase,      \* 10
    Zero,         \* the byte of the character "0"
    Kept,         \* 40: digits of a hash that an identifier keeps
    Versions,     \* versionBytes, and values the mining script tries
    VersionBytes, \* versionBytes: those ids are read with
    Checksum(_),  \* external: sha256 twice, shortened to (here) one byte
    Origins       \* bound: the values converted

ASSUME Base58Assumption ==
    /\ {ByteBase, TextBase, DecBase, Zero, Kept} \subseteq Nat \ {0}
    /\ 1 < DecBase /\ DecBase + Zero <= ByteBase
    /\ 1 < TextBase /\ TextBase < ByteBase

\* versionBytes are bytes.  A version that is not one is written as two, and the
\* first of them is not what ids are read with: the mining script tries 1 .. 10000
\* or so, and versionBytes are 180 and 144.
ASSUME VersionsAssumption ==
    /\ Versions \subseteq 1 .. ByteBase * ByteBase - 1
    /\ VersionBytes \subseteq Versions /\ VersionBytes \subseteq 1 .. ByteBase - 1
    /\ \A v \in Versions : v \div ByteBase \notin VersionBytes

VARIABLES
    origin,  \* the value converted first
    value,   \* what it was converted to
    version, \* the version byte it was converted with, or 0
    read,    \* the version byte it is read with, or 0
    steps    \* conversions made

vars == <<origin, value, version, read, steps>>

\* Bytes(s), Text(s), Number(<<n>>) and what was thrown.
Bytes(s)  == [is |-> "bytes", seq |-> s]
Text(s)   == [is |-> "text", seq |-> s]
Number(n) == [is |-> "number", seq |-> <<n>>]
Thrown    == [is |-> "thrown", seq |-> <<>>]

\* A character of the text may be none of the alphabet's.
ASSUME OriginsAssumption ==
    \A o \in Origins :
        \/ o = Bytes(o.seq) /\ o.seq \in Seq(0 .. ByteBase - 1)
        \/ o = Text(o.seq) /\ o.seq \in Seq(0 .. TextBase)
        \/ o = Number(o.seq[1]) /\ o.seq[1] \in Nat

-----------------------------------------------------------------------------
(***************************************************************************)
(* changeBase                                                              *)
(***************************************************************************)
\* The power of 2 that n is after k rounds of a loop that doubles it, and powers
\* of the base of the decimal digits.
Power(b, n) ==
    LET power[m \in Nat] == IF m = 0 THEN 1 ELSE b * power[m - 1]
    IN power[n]

\* basePowers: base, base^2, base^4, ..., each the square of the one before.
BasePower(base, n) ==
    LET power[m \in Nat] == IF m = 0 THEN base ELSE power[m - 1] * power[m - 1]
    IN power[n]

\* The number of basePowers: to join len digits into one, and to split x.
Joins(len) ==
    CHOOSE k \in 0 .. len :
        len <= Power(2, k) /\ \A j \in 0 .. k - 1 : Power(2, j) < len

Splits(x, base) ==
    CHOOSE k \in 0 .. x :
        x <= BasePower(base, k) /\ \A j \in 0 .. k - 1 : BasePower(base, j) < x

Zeros(n) == [i \in 1 .. n |-> 0]

\* Each two digits become one of the base squared.
Paired(digits, p) ==
    [j \in 1 .. Len(digits) \div 2 |-> digits[2 * j - 1] + p * digits[2 * j]]

\* Mutant: the power of the base is not squared from a round to the next.
MutantFromBase(digits, base) ==
    LET k == Joins(Len(digits))
        joined[i \in 0 .. k] ==
            IF i = 0 THEN digits \o Zeros(Power(2, k) - Len(digits))
            ELSE Paired(joined[i - 1], base)
    IN joined[k][1]

FromBase(digits, base) ==
    LET k == Joins(Len(digits))
        joined[i \in 0 .. k] ==
            IF i = 0 THEN digits \o Zeros(Power(2, k) - Len(digits))
            ELSE Paired(joined[i - 1], BasePower(base, i - 1))
    IN joined[k][1]

\* Each digit becomes two, of the root of the base.
Halved(digits, p) ==
    [n \in 1 .. 2 * Len(digits) |->
        LET d == digits[(n + 1) \div 2]
        IN IF n % 2 = 1 THEN d % p ELSE d \div p]

\* The number of zeros a sequence begins with.
Leading(s) ==
    CHOOSE z \in 0 .. Len(s) :
        /\ \A n \in 1 .. z : s[n] = 0
        /\ z < Len(s) => s[z + 1] # 0

\* The digits of x: trailing zeros, which are the leading ones, are popped.
ToBase(x, base) ==
    LET k == Splits(x, base)
        split[i \in 0 .. k] ==
            IF i = 0 THEN <<x>>
            ELSE Halved(split[i - 1], BasePower(base, k - i))
        digits == split[k]
    IN SubSeq(digits, 1, Len(digits) - Leading(Reverse(digits)))

ChangeBase(digits, base, newBase) == ToBase(FromBase(digits, base), newBase)

\* Mutant: the leading zeros are left out.
MutantWithBase(seq, base, newBase) == Reverse(ChangeBase(Reverse(seq), base, newBase))

\* Leading zeros are kept one for one.
WithBase(seq, base, newBase) ==
    Zeros(Leading(seq)) \o Reverse(ChangeBase(Reverse(seq), base, newBase))

-----------------------------------------------------------------------------
(***************************************************************************)
(* Text                                                                    *)
(***************************************************************************)
\* A digit that has no character is undefined, which is joined as nothing.
Characters(digits) ==
    LET joined[n \in 0 .. Len(digits)] ==
            IF n = 0 THEN <<>>
            ELSE joined[n - 1] \o
                    (IF digits[n] < TextBase THEN <<digits[n]>> ELSE <<>>)
    IN joined[Len(digits)]

ToBase58(bytes) == Text(Characters(WithBase(bytes, ByteBase, TextBase)))

FromBase58(text) ==
    IF \E n \in DOMAIN text : text[n] >= TextBase THEN Thrown
    ELSE Bytes(WithBase(text, TextBase, ByteBase))

ToBase58Check(bytes, v) ==
    ToBase58(<<v>> \o bytes \o <<Checksum(<<v>> \o bytes)>>)

\* Mutant: the version byte is not compared.
MutantFromBase58Check(text, v) ==
    LET bytes == FromBase58(text)
        given == Front(bytes.seq)
    IN IF \/ bytes = Thrown \/ Len(bytes.seq) < 2
          \/ Last(bytes.seq) # Checksum(given)
       THEN Thrown ELSE Bytes(Tail(given))

\* The checksum must be there and agree, and so must the version byte.
FromBase58Check(text, v) ==
    LET bytes == FromBase58(text)
        given == Front(bytes.seq)
    IN IF \/ bytes = Thrown \/ Len(bytes.seq) < 2
          \/ Last(bytes.seq) # Checksum(given)
          \/ given[1] # v
       THEN Thrown ELSE Bytes(Tail(given))

\* The value of digits, least significant first: the naive sum that the comment
\* on fromBase explains.
ValueOf(digits, base) ==
    LET sum[n \in 0 .. Len(digits)] ==
            IF n = 0 THEN 0
            ELSE sum[n - 1] + digits[n] * Power(base, n - 1)
    IN sum[Len(digits)]

\* The characters of a number, and back (BigInt, of which "" is 0).
Length(n) ==
    CHOOSE l \in 1 .. n + 1 :
        n < Power(DecBase, l) /\ \A m \in 1 .. l - 1 : Power(DecBase, m) <= n

Numeral(n) ==
    [i \in 1 .. Length(n) |->
        Zero + ((n \div Power(DecBase, Length(n) - i)) % DecBase)]

FromNumeral(bytes) ==
    IF \E i \in DOMAIN bytes : bytes[i] \notin Zero .. Zero + DecBase - 1
    THEN Thrown
    ELSE Number(ValueOf(Reverse([i \in DOMAIN bytes |-> bytes[i] - Zero]),
                        DecBase))

\* The leading digits of a hash.
Shortened(n) ==
    LET s == Numeral(n)
    IN FromNumeral(SubSeq(s, 1, IF Kept < Len(s) THEN Kept ELSE Len(s))).seq[1]

\* The numbers that ids are made of, and the checksums in them, which are bytes.
Numbers ==
    LET given == {o.seq[1] : o \in {x \in Origins : x.is = "number"}}
    IN given \cup {Shortened(n) : n \in given}

ASSUME ChecksumAssumption ==
    \A v \in Versions, n \in Numbers :
        Checksum(<<v>> \o Numeral(n)) \in 0 .. ByteBase - 1

-----------------------------------------------------------------------------
(***************************************************************************)
(* Conversions                                                             *)
(***************************************************************************)
Init ==
    /\ origin \in Origins
    /\ value = origin
    /\ version = 0 /\ read = 0 /\ steps = 0

Converts(to) == value' = to /\ steps' = steps + 1

\* toBase58 and fromBase58.
Encode ==
    /\ value.is = "bytes" /\ version = 0 /\ read = 0
    /\ steps < 2
    /\ Converts(ToBase58(value.seq))
    /\ UNCHANGED <<origin, version, read>>

Decode ==
    /\ value.is = "text" /\ version = 0 /\ read = 0
    /\ steps < 2
    /\ Converts(FromBase58(value.seq))
    /\ UNCHANGED <<origin, version, read>>

\* payloadToBase58, Identifier.fromField.
FromField(v) ==
    /\ steps = 0 /\ value.is = "number"
    /\ Converts(ToBase58Check(Numeral(value.seq[1]), v))
    /\ version' = v
    /\ UNCHANGED <<origin, read>>

\* Identifier.fromPublicKey: of a hash, which is read back at once.
FromPublicKey(v) ==
    LET base58 == ToBase58Check(Numeral(Shortened(value.seq[1])), v)
        bytes  == FromBase58Check(base58.seq, v)
    IN /\ steps = 0 /\ value.is = "number"
       /\ bytes # Thrown /\ FromNumeral(bytes.seq) # Thrown
       /\ origin' = FromNumeral(bytes.seq)
       /\ Converts(base58)
       /\ version' = v
       /\ UNCHANGED read

\* payloadFromBase58, Identifier.fromBase58: of what was made, or of any text.
ToField(v) ==
    LET bytes == FromBase58Check(value.seq, v)
    IN /\ value.is = "text" /\ (version # 0 \/ steps = 0)
       /\ Converts(IF bytes = Thrown THEN Thrown ELSE FromNumeral(bytes.seq))
       /\ read' = v
       /\ UNCHANGED <<origin, version>>

Next ==
    \/ Encode
    \/ Decode
    \/ \E v \in Versions : FromField(v)
    \/ \E v \in VersionBytes : FromPublicKey(v) \/ ToField(v)

Spec == Init /\ [][Next]_vars

-----------------------------------------------------------------------------
(***************************************************************************)
(* Properties                                                              *)
(***************************************************************************)
\* base^(2^k), the last of the squares, which toBase does not split.
Unsplit(x, bases) == \E b \in bases : x = BasePower(b, Splits(x, b))

BaseOf(v) == IF v.is = "text" THEN TextBase ELSE ByteBase

\* The text of bytes, and the bytes of a text, are those of the same number:
\* the conversion by pairs agrees with the naive one, with every digit within
\* its base, except for the numbers toBase leaves unsplit.
SameNumber ==
    steps = 1 /\ version = 0 /\ read = 0 /\ value # Thrown =>
        LET x == ValueOf(Reverse(origin.seq), BaseOf(origin))
        IN \/ Unsplit(x, {BaseOf(value)})
           \/ /\ x = ValueOf(Reverse(value.seq), BaseOf(value))
              /\ \A n \in DOMAIN value.seq : value.seq[n] < BaseOf(value)

\* Bytes come back from their text, and text from its bytes, leading zeros and
\* all, unless toBase leaves the number unsplit: then they never do.  (A number
\* that is unsplit as bytes still has its text; as one "byte" of 256.)
RoundTrips ==
    steps = 2 /\ version = 0 /\ value # Thrown =>
        (value = origin <=>
            ~Unsplit(ValueOf(Reverse(origin.seq), BaseOf(origin)),
                     {TextBase, BaseOf(origin)}))

\* The whole that is encoded for a number.
Whole(n, v) ==
    LET bytes == <<v>> \o Numeral(n)
    IN ValueOf(Reverse(bytes \o <<Checksum(bytes)>>), ByteBase)

\* An identifier, or a bioauthorization's id, is read as the number it was
\* made of with the version byte it was made with, and thrown out with any
\* other.  (What the mining script makes with a version that is not a byte
\* cannot be read, and neither can an id that toBase leaves unsplit.)
VersionsApart ==
    read # 0 /\ version # 0 =>
        value = IF /\ read = version
                   /\ ~Unsplit(Whole(origin.seq[1], version), {ByteBase, TextBase})
                THEN origin ELSE Thrown

=============================================================================
