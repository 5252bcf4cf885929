-------------------------------- MODULE Acsm --------------------------------
(***************************************************************************)
(* The keyword automaton (acsmDFA.c): patterns are put into a trie, the     *)
(* trie is completed in place, breadth first, to a deterministic automaton, *)
(* and a text is run through it until the first match.  A state of the      *)
(* table is named by the word that leads to it, state 0 by the empty word.  *)
(* Characters are bytes; one of 128 or more is half of a two-byte character.*)
(* The model starts from the list acsm_parse_line has left.                 *)
(***************************************************************************)
EXTENDS Keywords, FiniteSets

CONSTANTS
    Alphabet,     \* the bytes that occur, in upper case
    Lists,        \* the lists of patterns
    Texts         \* the texts searched

ASSUME AlphabetAssumption == Alphabet \subseteq 1 .. 255
ASSUME ListsAssumption ==
    \A l \in Lists : \A p \in ToSet(l) : p.word \in Seq(Alphabet) /\ p.word # <<>>
ASSUME TextsAssumption == Texts \subseteq Seq(Alphabet)

VARIABLES
    pats,      \* acsmPatterns
    todo,      \* the part of it acsmCompile_cap has still to add
    next,      \* NextState of each state: a state or ACSM_FAIL_STATE
    fail,      \* FailState
    accept,    \* the states with a MatchList: it holds the one pattern that names the state
    virtual,   \* the states flagged VIRTUAL_STATE1, all others are SOLID_STATE
    queue,     \* Build_DFA's queue
    phase,     \* where the program is
    text, T, state, ret   \* the text, the index of the next byte, the state, the answer

build  == <<todo, queue>>
table  == <<next, fail, accept, virtual>>
search == <<text, T, state, ret>>
vars   == <<pats, build, table, phase, search>>

ACSM_FAIL_STATE == <<0>>     \* no byte is 0, so no state has this name
Root == <<>>
States == DOMAIN next

(***************************************************************************)
(* Compilation                                                              *)
(***************************************************************************)

\* One state per byte of the pattern; the first of two high bytes leads to a
\* virtual state.
AddPatternStates ==
    LET w == Head(todo).word
        S == States \cup {SubSeq(w, 1, n) : n \in 1 .. Len(w)}
        half[n \in 0 .. Len(w)] == n > 0 /\ w[n] >= 128 /\ ~half[n - 1]
    IN  /\ phase = "patterns" /\ todo # <<>>
        /\ next' = [s \in S |-> [c \in Alphabet |->
                      IF Append(s, c) \in S THEN Append(s, c) ELSE ACSM_FAIL_STATE]]
        /\ fail' = [s \in S |-> Root]
        /\ accept' = accept \cup {w}
        /\ virtual' = virtual \cup {SubSeq(w, 1, n) : n \in {m \in 1 .. Len(w) : half[m]}}
        /\ todo' = Tail(todo)
        /\ UNCHANGED <<pats, queue, phase, search>>

\* The states reached from s, in the order of the bytes
Children(s) ==
    LET cs == SetToSortSeq({c \in Alphabet : next[s][c] \notin {ACSM_FAIL_STATE, Root}}, <)
    IN  [i \in DOMAIN cs |-> next[s][cs[i]]]

\* acsmCompile_cap's last loop and Build_DFA's first: state 0 fails to itself
StartBuild ==
    /\ phase = "patterns" /\ todo = <<>>
    /\ next' = [next EXCEPT ![Root] =
                  [c \in Alphabet |-> IF @[c] = ACSM_FAIL_STATE THEN Root ELSE @[c]]]
    /\ queue' = Children(Root)
    /\ phase' = "build"
    /\ UNCHANGED <<pats, todo, fail, accept, virtual, search>>

\* The first state on the fail chain of fs that has a transition on c
FailOf(fs, c) ==
    LET chase[f \in States] ==
          IF next[f][c] = ACSM_FAIL_STATE THEN chase[fail[f]] ELSE next[f][c]
    IN  chase[fs]

\* Mutation of BuildState: a missing transition leads to state 0.
BuildStateRoot ==
    LET r == Head(queue)
        own == {c \in Alphabet : next[r][c] # ACSM_FAIL_STATE}
    IN  /\ phase = "build" /\ queue # <<>>
        /\ fail' = [s \in States |-> IF \E c \in own : s = next[r][c]
                                       THEN FailOf(fail[r], Last(s)) ELSE fail[s]]
        /\ next' = [next EXCEPT ![r] = [c \in Alphabet |-> IF c \in own THEN @[c] ELSE Root]]
        /\ queue' = Tail(queue) \o Children(r)
        /\ UNCHANGED <<pats, todo, accept, virtual, phase, search>>

\* One turn of Build_DFA's loop: r's missing transitions are those of its fail state
BuildState ==
    LET r == Head(queue)
        own == {c \in Alphabet : next[r][c] # ACSM_FAIL_STATE}
    IN  /\ phase = "build" /\ queue # <<>>
        /\ fail' = [s \in States |-> IF \E c \in own : s = next[r][c]
                                       THEN FailOf(fail[r], Last(s)) ELSE fail[s]]
        /\ next' = [next EXCEPT ![r] =
                      [c \in Alphabet |-> IF c \in own THEN @[c] ELSE next[fail[r]][c]]]
        /\ queue' = Tail(queue) \o Children(r)
        /\ UNCHANGED <<pats, todo, accept, virtual, phase, search>>

(***************************************************************************)
(* Search (acsmSearch_cap)                                                  *)
(***************************************************************************)
StartSearch(t) ==
    /\ phase = "done" \/ (phase = "build" /\ queue = <<>>)
    /\ text' = t /\ T' = 1 /\ state' = Root
    /\ ret' = IF t = <<>> THEN -1 ELSE 0
    /\ phase' = IF t = <<>> THEN "done" ELSE "search"
    /\ UNCHANGED <<pats, build, table>>

Return(r) ==
    /\ ret' = r /\ phase' = "done"
    /\ UNCHANGED <<pats, build, table, text, T, state>>

GoOn(s, t) ==
    /\ state' = s /\ T' = t
    /\ UNCHANGED <<pats, build, table, phase, text, ret>>

\* The patterns that end here too, along the fail chain of s; Root if none
Shorter(s) ==
    LET chain[f \in States] ==
          IF f = Root \/ (f \in accept /\ f \notin virtual) THEN f ELSE chain[fail[f]]
    IN  chain[fail[s]]

SearchAscii ==
    LET s == next[state][text[T]]
    IN  /\ phase = "search" /\ T <= Len(text) /\ text[T] < 128
        /\ IF s \in accept THEN Return(FlagOf(pats, s))
           ELSE IF Shorter(s) # Root THEN Return(FlagOf(pats, Shorter(s)))
           ELSE GoOn(s, T + 1)

\* Mutation of SearchHigh: the state is kept over a character that starts no pattern.
SearchHighKeep ==
    LET n == next[state][text[T]]
        s == IF state \in virtual /\ n \in virtual THEN Root ELSE n
    IN  /\ phase = "search" /\ T <= Len(text) /\ text[T] >= 128
        /\ IF s = Root /\ state \notin virtual THEN GoOn(state, T + 2)
           ELSE IF s \in accept /\ state \in virtual THEN Return(Head(pats).flag)
           ELSE IF Shorter(s) # Root THEN Return(FlagOf(pats, Shorter(s)))
           ELSE GoOn(s, T + 1)

\* A high byte that starts no pattern takes the byte after it along; a match on
\* the second half of a character answers with the flag of the list's head.
SearchHigh ==
    LET n == next[state][text[T]]
        s == IF state \in virtual /\ n \in virtual THEN Root ELSE n
    IN  /\ phase = "search" /\ T <= Len(text) /\ text[T] >= 128
        /\ IF s = Root /\ state \notin virtual THEN GoOn(s, T + 2)
           ELSE IF s \in accept /\ state \in virtual THEN Return(Head(pats).flag)
           ELSE IF Shorter(s) # Root THEN Return(FlagOf(pats, Shorter(s)))
           ELSE GoOn(s, T + 1)

NoMatch == phase = "search" /\ T > Len(text) /\ Return(0)

-----------------------------------------------------------------------------
Init ==
    /\ pats \in Lists
    /\ todo = pats
    /\ next = [s \in {Root} |-> [c \in Alphabet |-> ACSM_FAIL_STATE]]
    /\ fail = [s \in {Root} |-> Root]
    /\ accept = {} /\ virtual = {} /\ queue = <<>>
    /\ phase = "patterns"
    /\ text = <<>> /\ T = 1 /\ state = Root /\ ret = 0

Next ==
    \/ AddPatternStates \/ StartBuild \/ BuildState
    \/ \E t \in Texts : StartSearch(t)
    \/ SearchAscii \/ SearchHigh \/ NoMatch

Spec == Init /\ [][Next]_vars

(***************************************************************************)
(* Correctness                                                              *)
(***************************************************************************)

\* The longest of a set of words that is a state
LongestState(S) == LongestOf(S \cap States)

\* Once the queue has gone past a state, its fail state is its longest proper
\* suffix in the trie, and every transition leads to the longest suffix of what
\* has been read: completing the table in place never uses an unfinished row.
DfaExact ==
    phase \in {"search", "done"} =>
        \A s \in States :
            /\ s # Root => fail[s] = LongestState(Suffixes(s) \ {s})
            /\ \A c \in Alphabet : next[s][c] = LongestState(Suffixes(Append(s, c)))

\* No byte of w is half of a two-byte character
Ascii(w) == \A i \in DOMAIN w : w[i] < 128

\* Without two-byte characters the answer for a text is the definition's: the flag of the
\* longest of the keywords that end first, and 0 exactly when no keyword occurs.
SearchExact ==
    phase = "done" /\ (\A w \in Words(pats) \cup {text} : Ascii(w)) => ret = Search(pats, text)

\* The automaton and the search over it (Build_DFA, acsmSearch_cap) are those of the
\* definition of a longest match.
MatcherExact == DfaExact /\ SearchExact

\* With two-byte characters an answer still comes from a keyword that occurs.
FoundOccurs ==
    phase = "done" /\ ret > 0 => \E w \in Words(pats) : Occurs(w, text)

=============================================================================
