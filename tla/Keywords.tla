------------------------------ MODULE Keywords ------------------------------
(***************************************************************************)
(* Keyword lists and what a search for them should answer: the definition   *)
(* the automaton of acsmDFA.c is checked against, and the one the key       *)
(* functions of store_key_md5.c rely on.  A list is a sequence of records   *)
(* [word, flag] in the order of acsmPatterns: the last line of the file is   *)
(* first.                                                                   *)
(***************************************************************************)
EXTENDS Integers, Sequences, SequencesExt

Words(pats) == {p.word : p \in ToSet(pats)}

\* PrintMatch: the flag of the first pattern of the list with this text
FlagOf(pats, w) == pats[SelectInSeq(pats, LAMBDA p : p.word = w)].flag

\* w occurs in t and ends there at n
EndsAt(w, t, n) == IsSuffix(w, SubSeq(t, 1, n))

Occurs(w, t) == \E n \in 1 .. Len(t) : EndsAt(w, t, n)

LongestOf(S) == CHOOSE w \in S : \A v \in S : Len(v) <= Len(w)

\* The longest of the words that end first in t; an empty text is refused
Search(pats, t) ==
    LET Ends == {n \in 1 .. Len(t) : \E w \in Words(pats) : EndsAt(w, t, n)}
        n == CHOOSE m \in Ends : \A k \in Ends : m <= k
    IN  IF t = <<>> THEN -1
        ELSE IF Ends = {} THEN 0
        ELSE FlagOf(pats, LongestOf({w \in Words(pats) : EndsAt(w, t, n)}))
=============================================================================
