------------------------------ MODULE MCBase58 ------------------------------
(***************************************************************************)
(* Instances of Base58 for TLC: bytes of base 9 and text of base 4, which  *)
(* stand to each other about as 256 and 58 do; every sequence of up to     *)
(* four bytes, every text of up to five characters (or with one that is    *)
(* not in the alphabet), and numbers of up to three digits in base 3.       *)
(***************************************************************************)
EXTENDS Base58

\* A checksum every byte and its place counts in.
MCChecksum(bytes) ==
    FoldFunction(+, 1, [n \in DOMAIN bytes |-> n * bytes[n]]) % 9

SeqsUpTo(n, S) == UNION {[1 .. m -> S] : m \in 0 .. n}

MCOrigins ==
    {Bytes(s) : s \in SeqsUpTo(4, 0 .. 8)}
        \cup {Text(s) : s \in SeqsUpTo(5, 0 .. 3)}
        \cup {Text(s) : s \in SeqsUpTo(2, 0 .. 4)}
        \cup {Number(n) : n \in 0 .. 26}

\* versionBytes.identifier, versionBytes.bioauthPayload.
MCVersionBytes == {2, 7}

\* And what the mining script tries, which may not fit in a byte.
MCVersions == MCVersionBytes \cup {4, 9}
=============================================================================
