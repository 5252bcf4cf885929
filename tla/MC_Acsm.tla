------------------------------ MODULE MC_Acsm ------------------------------
(* Instances of Acsm for TLC. *)
EXTENDS Acsm

CONSTANTS
    High,                        \* the bytes of two-byte characters that are tried
    MaxAscii, MaxHigh,           \* bounds: the length of a keyword without and with them
    MaxList, MaxText             \* bounds: keywords in a list, bytes of a text

Low == Alphabet \ High
NonEmpty(A, n) == BoundedSeq(A, n) \ {<<>>}

\* Two letters, and a slash with the high bytes
MC_Words == {NonEmpty(Low, MaxAscii), NonEmpty({47} \cup High, MaxHigh)}

\* A pattern's flag is its place in the list, so that answers can be told apart.
MC_Lists ==
    UNION {{[i \in 1 .. n |-> [word |-> f[i], flag |-> 100 + i]] : f \in [1 .. MaxList -> W]} :
              n \in 1 .. MaxList, W \in MC_Words}
MC_Texts == BoundedSeq(Low, MaxText) \cup BoundedSeq({47} \cup High, MaxText)
=============================================================================
