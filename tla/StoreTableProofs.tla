-------------------------- MODULE StoreTableProofs --------------------------
(***************************************************************************)
(* Proofs about StoreTable, for every number of entries, keys, clients and  *)
(* files and every configuration: a public key finds one entry, an entry    *)
(* asked to be released cannot be found, a swap file has one owner.         *)
(*                                                                          *)
(* The store functions are operators on the store record, so the argument   *)
(* is about operators: one lemma for each says that it keeps Good, the      *)
(* inductive part, and what it can change for the entries at large (Loses). *)
(***************************************************************************)
EXTENDS StoreTable, TLAPS

F == RoleLock("fwd")

KeysUnique(S) ==
    \A e1, e2 \in Entries : S.key[e1] \in Keys /\ S.key[e1] = S.key[e2] => e1 = e2

FilesOwned(S) ==
    \A e \in Entries : S.filen[e] # -1 =>
        /\ S.filen[e] \in S.map
        /\ \A e2 \in Entries \ {e} : S.filen[e2] # S.filen[e]

\* An entry being fetched is held by its FwdState, the ones in X (just created,
\* not yet handed to fwdStart) excepted; such an entry is never both cachable
\* and asked to be released, so it can be made public.
EntryOK(S, X, e) ==
    /\ "RELEASE_REQUEST" \in S.flags[e] => S.key[e] \notin Keys
    /\ "RELEASE_REQUEST" \in S.flags[e] /\ "ENTRY_CACHABLE" \in S.flags[e] => F \notin S.lock[e]
    /\ S.status[e] = "STORE_PENDING" => F \in S.lock[e] \/ e \in X

Good(S, X) ==
    /\ S \in Store
    /\ KeysUnique(S)
    /\ FilesOwned(S)
    /\ \A e \in Entries : EntryOK(S, X, e)

\* What the store functions do to entries at large: keys are lost, never gained;
\* a transfer may end; the server side keeps its lock.
Loses(S, T) ==
    \A e \in Entries :
        /\ T.key[e] = S.key[e] \/ T.key[e] \notin Keys
        /\ T.status[e] = S.status[e] \/ T.status[e] = "STORE_OK"
        /\ F \in S.lock[e] => F \in T.lock[e]

Step(S, T, X) == Good(T, X) /\ Loses(S, T)

\* The same, of a function that may make an entry public.
Keeps(S, T) ==
    \A e \in Entries :
        /\ T.status[e] = S.status[e] \/ T.status[e] = "STORE_OK"
        /\ F \in S.lock[e] => F \in T.lock[e]

Advance(S, T, X) == Good(T, X) /\ Keeps(S, T)

\* e cannot be found any more; no other entry's flags are changed and no file
\* number is taken.
Hidden(S, T, e) ==
    /\ T.key[e] \notin Keys
    /\ T.map \subseteq S.map
    /\ \A x \in Entries \ {e} : T.flags[x] = S.flags[x]

\* Nothing Good speaks of is changed.
Quiet(S, T) ==
    /\ T \in Store
    /\ T.key = S.key /\ T.filen = S.filen /\ T.map = S.map
    /\ T.flags = S.flags /\ T.status = S.status /\ T.lock = S.lock

\* Unlocking the entry cannot leave a transfer nobody holds.
Safe(S, X, e) == e \notin X \/ S.status[e] = "STORE_OK"

LEMMA QuietStep ==
    ASSUME NEW S, NEW T, NEW X, Good(S, X), Quiet(S, T)
    PROVE  Step(S, T, X)
  BY DEF Good, Quiet, Step, Loses, KeysUnique, FilesOwned, EntryOK

LEMMA StepTrans ==
    ASSUME NEW S, NEW T, NEW U, NEW X, Step(S, T, X), Step(T, U, X)
    PROVE  Step(S, U, X)
  BY DEF Step, Loses

LEMMA StepRefl ==
    ASSUME NEW S, NEW X, Good(S, X)
    PROVE  Step(S, S, X)
  BY DEF Step, Loses

LEMMA StepSafe ==
    ASSUME NEW S, NEW T, NEW X, NEW e \in Entries, Safe(S, X, e), Step(S, T, X)
    PROVE  Safe(T, X, e)
  BY DEF Step, Loses, Safe

LEMMA StepAdvance ==
    ASSUME NEW S, NEW T, NEW X, Step(S, T, X)
    PROVE  Advance(S, T, X)
  BY DEF Step, Loses, Advance, Keeps

LEMMA AdvanceTrans ==
    ASSUME NEW S, NEW T, NEW U, NEW X, Advance(S, T, X), Advance(T, U, X)
    PROVE  Advance(S, U, X)
  BY DEF Advance, Keeps

LEMMA AdvanceSafe ==
    ASSUME NEW S, NEW T, NEW X, NEW e \in Entries, Safe(S, X, e), Advance(S, T, X)
    PROVE  Safe(T, X, e)
  BY DEF Advance, Keeps, Safe

LEMMA AdvanceGood ==
    ASSUME NEW S, NEW T, NEW X, Advance(S, T, X)
    PROVE  Good(T, X)
  BY DEF Advance

LEMMA StepGood ==
    ASSUME NEW S, NEW T, NEW X, Step(S, T, X)
    PROVE  Good(T, X)
  BY DEF Step

(***************************************************************************)
(* Keys, the swap log and release                                           *)
(***************************************************************************)
LEMMA MustQuiet ==
    ASSUME NEW S \in Store, NEW p
    PROVE  Quiet(S, Must(S, p))
  BY DEF Quiet, Store, Must

LEMMA MustStep ==
    ASSUME NEW S, NEW X, Good(S, X), NEW p
    PROVE  Step(S, Must(S, p), X)
  BY MustQuiet, QuietStep DEF Good

LEMMA LogQuiet ==
    ASSUME NEW S \in Store, NEW L \in SUBSET (Keys \X Files)
    PROVE  Quiet(S, [S EXCEPT !.log = L])
  BY DEF Quiet, Store

LEMMA storeDirSwapLogQuiet ==
    ASSUME NEW S \in Store, NEW e \in Entries, NEW op
    PROVE  Quiet(S, storeDirSwapLog(S, e, op))
<1> DEFINE T == Must(S, Public(S, e) /\ S.filen[e] \in Files)
<1>1. Quiet(S, T)
  BY MustQuiet
<1> HIDE DEF T
<1>2. CASE ~(Public(S, e) /\ S.filen[e] \in Files)
  BY <1>1, <1>2 DEF storeDirSwapLog, T
<1>3. CASE Public(S, e) /\ S.filen[e] \in Files
  <2>1. LogRecord(S, e) \in SUBSET (Keys \X Files)
    BY <1>3 DEF LogRecord, Public
  <2>2. T \in Store /\ T.log \in SUBSET (Keys \X Files)
    BY <1>1 DEF Quiet, Store
  <2>3. /\ T.log \cup LogRecord(S, e) \in SUBSET (Keys \X Files)
        /\ T.log \ LogRecord(S, e) \in SUBSET (Keys \X Files)
    BY <2>1, <2>2
  <2>4. /\ Quiet(T, [T EXCEPT !.log = T.log \cup LogRecord(S, e)])
        /\ Quiet(T, [T EXCEPT !.log = T.log \ LogRecord(S, e)])
    BY <2>2, <2>3, LogQuiet
  <2>5. /\ Quiet(S, [T EXCEPT !.log = T.log \cup LogRecord(S, e)])
        /\ Quiet(S, [T EXCEPT !.log = T.log \ LogRecord(S, e)])
    BY <1>1, <2>4 DEF Quiet
  <2> QED
    BY <1>3, <2>5 DEF storeDirSwapLog, T
<1> QED
  BY <1>2, <1>3

LEMMA storeDirSwapLogStep ==
    ASSUME NEW S, NEW X, Good(S, X), NEW e \in Entries, NEW op
    PROVE  Step(S, storeDirSwapLog(S, e, op), X)
  BY storeDirSwapLogQuiet, QuietStep DEF Good

\* Setting a flag is harmless unless it asks for release or makes cachable.
LEMMA FlagStep ==
    ASSUME NEW S, NEW X, Good(S, X), NEW e \in Entries, NEW f \in Flags
    PROVE  /\ f \notin {"RELEASE_REQUEST", "ENTRY_CACHABLE"} => Step(S, SetFlag(S, e, f), X)
           /\ Step(S, ClrFlag(S, e, f), X)
<1>1. ASSUME NEW G \in SUBSET Flags
      PROVE  LET T == [S EXCEPT !.flags[e] = G]
             IN  /\ T \in Store
                 /\ T.key = S.key /\ T.filen = S.filen /\ T.map = S.map
                 /\ T.status = S.status /\ T.lock = S.lock
                 /\ T.flags = [S.flags EXCEPT ![e] = G]
  BY DEF Good, Store
<1>2. S.flags \in [Entries -> SUBSET Flags]
  BY DEF Good, Store
<1>3. ASSUME NEW G \in SUBSET Flags,
             "RELEASE_REQUEST" \in G => "RELEASE_REQUEST" \in S.flags[e],
             "ENTRY_CACHABLE" \in G => "ENTRY_CACHABLE" \in S.flags[e]
      PROVE  Step(S, [S EXCEPT !.flags[e] = G], X)
  <2> DEFINE T == [S EXCEPT !.flags[e] = G]
  <2>1. /\ T \in Store
        /\ T.key = S.key /\ T.filen = S.filen /\ T.map = S.map
        /\ T.status = S.status /\ T.lock = S.lock
        /\ T.flags = [S.flags EXCEPT ![e] = G]
    BY <1>1
  <2> HIDE DEF T
  <2>2. KeysUnique(T) /\ FilesOwned(T) /\ Loses(S, T)
    BY <2>1 DEF Good, KeysUnique, FilesOwned, Loses
  <2>3. ASSUME NEW x \in Entries PROVE EntryOK(T, X, x)
    BY <1>2, <1>3, <2>1 DEF Good, EntryOK
  <2>4. Step(S, T, X)
    BY <2>1, <2>2, <2>3 DEF Step, Good
  <2> QED
    BY <2>4 DEF T
<1> QED
  BY <1>2, <1>3 DEF SetFlag, ClrFlag

\* What storeSetPrivateKey changes: the key (and the swap log).
LEMMA storeSetPrivateKeyShape ==
    ASSUME NEW S \in Store, NEW e \in Entries
    PROVE  LET T == storeSetPrivateKey(S, e)
           IN  /\ T \in Store
               /\ T.key = [S.key EXCEPT ![e] = Private]
               /\ T.filen = S.filen /\ T.map = S.map
               /\ T.flags = S.flags /\ T.status = S.status /\ T.lock = S.lock
<1> DEFINE L == IF Live(S, e) /\ S.filen[e] # -1 THEN storeDirSwapLog(S, e, "DEL") ELSE S
<1>1. Quiet(S, L)
  BY storeDirSwapLogQuiet DEF Quiet
<1> HIDE DEF L
<1>2. S.key \in [Entries -> Keys \cup {Private, NoKey}]
  BY DEF Store
<1>3. CASE S.key[e] = Private
  BY <1>2, <1>3 DEF storeSetPrivateKey
<1>4. CASE S.key[e] # Private
  <2>1. storeSetPrivateKey(S, e) = [L EXCEPT !.key[e] = Private]
    BY <1>4 DEF storeSetPrivateKey, L
  <2> DEFINE T == [L EXCEPT !.key[e] = Private]
  <2>2. /\ T \in Store
        /\ T.key = [L.key EXCEPT ![e] = Private]
        /\ T.filen = L.filen /\ T.map = L.map
        /\ T.flags = L.flags /\ T.status = L.status /\ T.lock = L.lock
    BY <1>1 DEF Quiet, Store
  <2> QED
    BY <1>1, <2>1, <2>2 DEF Quiet
<1> QED
  BY <1>3, <1>4

\* An entry whose key is private may be asked to be released.
LEMMA PrivateStep ==
    ASSUME NEW S, NEW X, Good(S, X), NEW e \in Entries, NEW T \in Store,
           T.key = [S.key EXCEPT ![e] = Private],
           T.filen = S.filen, T.map = S.map, T.status = S.status, T.lock = S.lock,
           \A x \in Entries \ {e} : T.flags[x] = S.flags[x],
           "RELEASE_REQUEST" \in T.flags[e] /\ "ENTRY_CACHABLE" \in T.flags[e]
              => "RELEASE_REQUEST" \in S.flags[e] /\ "ENTRY_CACHABLE" \in S.flags[e]
    PROVE  Step(S, T, X)
<1>1. S.key \in [Entries -> Keys \cup {Private, NoKey}]
  BY DEF Good, Store
<1>2. KeysUnique(T)
  BY <1>1, KeysAssumption DEF Good, KeysUnique
<1>3. FilesOwned(T)
  BY DEF Good, FilesOwned
<1>4. Loses(S, T)
  BY <1>1, KeysAssumption DEF Loses
<1>5. ASSUME NEW x \in Entries PROVE EntryOK(T, X, x)
  BY <1>1, KeysAssumption DEF Good, EntryOK
<1> QED
  BY <1>2, <1>3, <1>4, <1>5 DEF Step, Good

LEMMA storeSetPrivateKeyStep ==
    ASSUME NEW S, NEW X, Good(S, X), NEW e \in Entries
    PROVE  Step(S, storeSetPrivateKey(S, e), X)
<1>1. S \in Store
  BY DEF Good
<1> QED
  BY <1>1, storeSetPrivateKeyShape, PrivateStep

LEMMA FlagShape ==
    ASSUME NEW S \in Store, NEW e \in Entries, NEW f \in Flags
    PROVE  /\ LET T == SetFlag(S, e, f)
              IN  /\ T \in Store
                  /\ T.key = S.key /\ T.filen = S.filen /\ T.map = S.map
                  /\ T.status = S.status /\ T.lock = S.lock
                  /\ T.flags = [S.flags EXCEPT ![e] = @ \cup {f}]
           /\ LET T == ClrFlag(S, e, f)
              IN  /\ T \in Store
                  /\ T.key = S.key /\ T.filen = S.filen /\ T.map = S.map
                  /\ T.status = S.status /\ T.lock = S.lock
                  /\ T.flags = [S.flags EXCEPT ![e] = @ \ {f}]
<1>1. /\ [S.flags EXCEPT ![e] = @ \cup {f}] \in [Entries -> SUBSET Flags]
      /\ [S.flags EXCEPT ![e] = @ \ {f}] \in [Entries -> SUBSET Flags]
  BY DEF Store
<1>2. ASSUME NEW g \in [Entries -> SUBSET Flags]
      PROVE  LET T == [S EXCEPT !.flags = g]
             IN  /\ T \in Store
                 /\ T.key = S.key /\ T.filen = S.filen /\ T.map = S.map
                 /\ T.status = S.status /\ T.lock = S.lock
                 /\ T.flags = g
  BY DEF Store
<1>3. /\ SetFlag(S, e, f) = [S EXCEPT !.flags = [S.flags EXCEPT ![e] = @ \cup {f}]]
      /\ ClrFlag(S, e, f) = [S EXCEPT !.flags = [S.flags EXCEPT ![e] = @ \ {f}]]
  BY DEF Store, SetFlag, ClrFlag
<1> QED
  BY <1>1, <1>2, <1>3

LEMMA storeReleaseRequestStep ==
    ASSUME NEW S, NEW X, Good(S, X), NEW e \in Entries
    PROVE  /\ Step(S, storeReleaseRequest(S, e), X)
           /\ Hidden(S, storeReleaseRequest(S, e), e)
<1>0. S \in Store /\ S.flags \in [Entries -> SUBSET Flags]
      /\ S.key \in [Entries -> Keys \cup {Private, NoKey}]
  BY DEF Good, Store
<1>1. CASE Has(S, e, "RELEASE_REQUEST")
  <2>1. S.key[e] \notin Keys
    BY <1>1 DEF Has, Good, EntryOK
  <2> QED
    BY <1>1, <2>1, StepRefl DEF storeReleaseRequest, Hidden
<1>2. CASE ~Has(S, e, "RELEASE_REQUEST")
  <2> DEFINE A == ClrFlag(S, e, "ENTRY_CACHABLE")
             B == SetFlag(A, e, "RELEASE_REQUEST")
             T == storeSetPrivateKey(B, e)
  <2>1. /\ A \in Store
        /\ A.key = S.key /\ A.filen = S.filen /\ A.map = S.map
        /\ A.status = S.status /\ A.lock = S.lock
        /\ A.flags = [S.flags EXCEPT ![e] = @ \ {"ENTRY_CACHABLE"}]
    BY <1>0, FlagShape DEF Flags
  <2> HIDE DEF A
  <2>2. /\ B \in Store
        /\ B.key = A.key /\ B.filen = A.filen /\ B.map = A.map
        /\ B.status = A.status /\ B.lock = A.lock
        /\ B.flags = [A.flags EXCEPT ![e] = @ \cup {"RELEASE_REQUEST"}]
    BY <2>1, FlagShape DEF Flags
  <2> HIDE DEF B
  <2>3. /\ T \in Store
        /\ T.key = [B.key EXCEPT ![e] = Private]
        /\ T.filen = B.filen /\ T.map = B.map
        /\ T.flags = B.flags /\ T.status = B.status /\ T.lock = B.lock
    BY <2>2, storeSetPrivateKeyShape
  <2> HIDE DEF T
  <2>4. /\ T.key = [S.key EXCEPT ![e] = Private]
        /\ T.filen = S.filen /\ T.map = S.map /\ T.status = S.status /\ T.lock = S.lock
    BY <2>1, <2>2, <2>3
  <2>5. /\ \A x \in Entries \ {e} : T.flags[x] = S.flags[x]
        /\ "ENTRY_CACHABLE" \notin T.flags[e]
    BY <1>0, <2>1, <2>2, <2>3
  <2>6. Step(S, T, X)
    BY <2>3, <2>4, <2>5, PrivateStep
  <2>7. storeReleaseRequest(S, e) = T
    BY <1>2 DEF storeReleaseRequest, T, B, A
  <2>8. T.key[e] \notin Keys
    BY <1>0, <2>4, KeysAssumption
  <2> QED
    BY <2>4, <2>5, <2>6, <2>7, <2>8 DEF Hidden
<1> QED
  BY <1>1, <1>2

LEMMA destroy_MemObjectQuiet ==
    ASSUME NEW S \in Store, NEW e \in Entries
    PROVE  Quiet(S, destroy_MemObject(S, e))
<1> DEFINE M == Must(S, ~S.sio[e])
           T == [M EXCEPT !.mem[e] = "NULL", !.sio[e] = FALSE, !.url[e] = NoKey,
                          !.clients[e] = {}, !.abort[e] = "unset"]
<1>1. Quiet(S, M)
  BY MustQuiet
<1> HIDE DEF M
<1>2. T \in Store
  BY <1>1 DEF Quiet, Store
<1>3. /\ T.key = M.key /\ T.filen = M.filen /\ T.map = M.map
      /\ T.flags = M.flags /\ T.status = M.status /\ T.lock = M.lock
  BY <1>1 DEF Quiet, Store
<1>4. T = destroy_MemObject(S, e)
  BY DEF M, destroy_MemObject
<1> QED
  BY <1>1, <1>2, <1>3, <1>4 DEF Quiet

LEMMA destroy_MemObjectStep ==
    ASSUME NEW S, NEW X, Good(S, X), NEW e \in Entries
    PROVE  Step(S, destroy_MemObject(S, e), X)
  BY destroy_MemObjectQuiet, QuietStep DEF Good

LEMMA destroy_StoreEntryShape ==
    ASSUME NEW S \in Store, NEW e \in Entries
    PROVE  LET T == destroy_StoreEntry(S, e)
           IN  /\ T \in Store
               /\ T.key = [S.key EXCEPT ![e] = NoKey]
               /\ T.filen = [S.filen EXCEPT ![e] = -1]
               /\ T.map = S.map
               /\ T.flags = [S.flags EXCEPT ![e] = {}]
               /\ T.status = [S.status EXCEPT ![e] = "STORE_OK"]
               /\ T.lock = [S.lock EXCEPT ![e] = {}]
<1> DEFINE D == destroy_MemObject(S, e)
           T == [D EXCEPT !.key[e] = NoKey, !.lock[e] = {}, !.flags[e] = {},
                          !.status[e] = "STORE_OK", !.swap[e] = "SWAPOUT_NONE", !.filen[e] = -1]
<1>1. Quiet(S, D)
  BY destroy_MemObjectQuiet
<1> HIDE DEF D
<1>2. T \in Store
  BY <1>1 DEF Quiet, Store
<1>3. /\ T.key = [D.key EXCEPT ![e] = NoKey]
      /\ T.filen = [D.filen EXCEPT ![e] = -1]
      /\ T.map = D.map
      /\ T.flags = [D.flags EXCEPT ![e] = {}]
      /\ T.status = [D.status EXCEPT ![e] = "STORE_OK"]
      /\ T.lock = [D.lock EXCEPT ![e] = {}]
  BY <1>1 DEF Quiet, Store
<1>4. T = destroy_StoreEntry(S, e)
  BY DEF D, destroy_StoreEntry
<1> QED
  BY <1>1, <1>2, <1>3, <1>4 DEF Quiet

\* An entry nobody holds goes, its swap file number with it.
LEMMA DiscardStep ==
    ASSUME NEW S, NEW X, Good(S, X), NEW e \in Entries, F \notin S.lock[e]
    PROVE  Step(S, Discard(S, e), X) /\ Hidden(S, Discard(S, e), e)
<1> DEFINE V == storeUnlink(S, e)
           U == IF S.filen[e] # -1
                  THEN [V EXCEPT !.size = IF S.swap[e] = "SWAPOUT_DONE" /\ Has(S, e, "ENTRY_VALIDATED")
                                            THEN @ - 1 ELSE @]
                  ELSE S
           L == IF S.filen[e] # -1 /\ S.key[e] # Private THEN storeDirSwapLog(U, e, "DEL") ELSE U
           T == destroy_StoreEntry(L, e)
<1>0. /\ S \in Store /\ S.size \in Int
      /\ S.key \in [Entries -> Keys \cup {Private, NoKey}]
      /\ S.filen \in [Entries -> Files \cup {-1}]
      /\ S.flags \in [Entries -> SUBSET Flags]
      /\ S.status \in [Entries -> {"STORE_OK", "STORE_PENDING"}]
      /\ S.lock \in [Entries -> SUBSET Holders]
  BY DEF Good, Store
<1>1. /\ V \in Store /\ V.size = S.size
      /\ V.map = S.map \ {S.filen[e]} /\ V.key = S.key /\ V.filen = S.filen
      /\ V.flags = S.flags /\ V.status = S.status /\ V.lock = S.lock
  BY <1>0 DEF storeUnlink, Store
<1> HIDE DEF V
<1>2. /\ U \in Store
      /\ U.map = (IF S.filen[e] # -1 THEN S.map \ {S.filen[e]} ELSE S.map)
      /\ U.key = S.key /\ U.filen = S.filen
      /\ U.flags = S.flags /\ U.status = S.status /\ U.lock = S.lock
  <2>1. ASSUME NEW n \in Int
        PROVE  LET R == [V EXCEPT !.size = n]
               IN  /\ R \in Store
                   /\ R.map = V.map /\ R.key = V.key /\ R.filen = V.filen
                   /\ R.flags = V.flags /\ R.status = V.status /\ R.lock = V.lock
    BY <1>1 DEF Store
  <2>2. CASE S.filen[e] = -1
    BY <1>0, <2>2
  <2>3. CASE S.filen[e] # -1
    <3>1. (IF S.swap[e] = "SWAPOUT_DONE" /\ Has(S, e, "ENTRY_VALIDATED")
             THEN V.size - 1 ELSE V.size) \in Int
      BY <1>0, <1>1
    <3> QED
      BY <1>1, <2>1, <2>3, <3>1
  <2> QED
    BY <2>2, <2>3
<1> HIDE DEF U
<1>3. Quiet(U, L)
  BY <1>2, storeDirSwapLogQuiet DEF Quiet
<1> HIDE DEF L
<1>4. /\ T \in Store
      /\ T.key = [S.key EXCEPT ![e] = NoKey]
      /\ T.filen = [S.filen EXCEPT ![e] = -1]
      /\ T.map = (IF S.filen[e] # -1 THEN S.map \ {S.filen[e]} ELSE S.map)
      /\ T.flags = [S.flags EXCEPT ![e] = {}]
      /\ T.status = [S.status EXCEPT ![e] = "STORE_OK"]
      /\ T.lock = [S.lock EXCEPT ![e] = {}]
  <2>1. L \in Store
    BY <1>3 DEF Quiet
  <2>2. /\ T \in Store
        /\ T.key = [L.key EXCEPT ![e] = NoKey]
        /\ T.filen = [L.filen EXCEPT ![e] = -1]
        /\ T.map = L.map
        /\ T.flags = [L.flags EXCEPT ![e] = {}]
        /\ T.status = [L.status EXCEPT ![e] = "STORE_OK"]
        /\ T.lock = [L.lock EXCEPT ![e] = {}]
    BY <2>1, destroy_StoreEntryShape
  <2> HIDE DEF T
  <2> QED
    BY <1>2, <1>3, <2>2 DEF Quiet
<1>5. T = Discard(S, e)
  BY DEF T, L, U, V, Discard
<1> HIDE DEF T
<1>6. KeysUnique(T)
  BY <1>0, <1>4, KeysAssumption DEF Good, KeysUnique
<1>7. FilesOwned(T)
  BY <1>0, <1>4 DEF Good, FilesOwned
<1>8. Loses(S, T)
  BY <1>0, <1>4, KeysAssumption DEF Loses
<1>9. ASSUME NEW x \in Entries PROVE EntryOK(T, X, x)
  BY <1>0, <1>4, KeysAssumption DEF Good, EntryOK
<1> QED
  <2>1. Hidden(S, T, e)
    BY <1>0, <1>4, KeysAssumption DEF Hidden
  <2>2. Step(S, T, X)
    BY <1>4, <1>6, <1>7, <1>8, <1>9 DEF Step, Good
  <2> QED
    BY <1>5, <2>1, <2>2

LEMMA LateReleaseStep ==
    ASSUME NEW S, NEW X, Good(S, X), NEW e \in Entries, F \notin S.lock[e]
    PROVE  Step(S, LateRelease(S, e), X) /\ Hidden(S, LateRelease(S, e), e)
<1> DEFINE P == storeSetPrivateKey(S, e)
           D == IF P.mem[e] # "NULL" THEN destroy_MemObject(P, e) ELSE P
           R == SetFlag(D, e, "RELEASE_REQUEST")
           T == [R EXCEPT !.lock[e] = @ \cup {RoleLock("late")}, !.late = @ \cup {e}]
<1>0. /\ S \in Store
      /\ S.key \in [Entries -> Keys \cup {Private, NoKey}]
      /\ S.flags \in [Entries -> SUBSET Flags]
      /\ S.lock \in [Entries -> SUBSET Holders]
  BY DEF Good, Store
<1>1. /\ P \in Store
      /\ P.key = [S.key EXCEPT ![e] = Private]
      /\ P.filen = S.filen /\ P.map = S.map
      /\ P.flags = S.flags /\ P.status = S.status /\ P.lock = S.lock
  BY <1>0, storeSetPrivateKeyShape
<1> HIDE DEF P
<1>2. Quiet(P, D)
  BY <1>1, destroy_MemObjectQuiet DEF Quiet
<1> HIDE DEF D
<1>3. /\ R \in Store
      /\ R.key = D.key /\ R.filen = D.filen /\ R.map = D.map
      /\ R.status = D.status /\ R.lock = D.lock
      /\ R.flags = [D.flags EXCEPT ![e] = @ \cup {"RELEASE_REQUEST"}]
  BY <1>2, FlagShape DEF Quiet, Flags
<1> HIDE DEF R
<1>4. RoleLock("late") \in Holders /\ RoleLock("late") # F
  BY DEF Holders, Roles, F, RoleLock
<1>5. /\ T \in Store
      /\ T.key = R.key /\ T.filen = R.filen /\ T.map = R.map
      /\ T.status = R.status /\ T.flags = R.flags
      /\ T.lock = [R.lock EXCEPT ![e] = @ \cup {RoleLock("late")}]
  <2>1. R.lock \in [Entries -> SUBSET Holders] /\ R.late \in SUBSET Entries
    BY <1>3 DEF Store
  <2>2. R.lock[e] \cup {RoleLock("late")} \in SUBSET Holders /\ R.late \cup {e} \in SUBSET Entries
    BY <1>4, <2>1
  <2>3. ASSUME NEW H \in SUBSET Holders, NEW E \in SUBSET Entries
        PROVE  LET Q == [R EXCEPT !.lock[e] = H, !.late = E]
               IN  /\ Q \in Store
                   /\ Q.key = R.key /\ Q.filen = R.filen /\ Q.map = R.map
                   /\ Q.status = R.status /\ Q.flags = R.flags
                   /\ Q.lock = [R.lock EXCEPT ![e] = H]
    BY <1>3 DEF Store
  <2> QED
    BY <2>2, <2>3
<1>6. T = LateRelease(S, e)
  BY DEF T, R, D, P, LateRelease, FreeMem
<1> HIDE DEF T
<1>7. /\ T.key = [S.key EXCEPT ![e] = Private]
      /\ T.filen = S.filen /\ T.map = S.map /\ T.status = S.status
      /\ T.lock = [S.lock EXCEPT ![e] = @ \cup {RoleLock("late")}]
      /\ T.flags = [S.flags EXCEPT ![e] = @ \cup {"RELEASE_REQUEST"}]
  BY <1>1, <1>2, <1>3, <1>5 DEF Quiet
<1>8. KeysUnique(T)
  BY <1>0, <1>7, KeysAssumption DEF Good, KeysUnique
<1>9. FilesOwned(T)
  BY <1>7 DEF Good, FilesOwned
<1>10. Loses(S, T)
  BY <1>0, <1>7, KeysAssumption DEF Loses
<1>11. ASSUME NEW x \in Entries PROVE EntryOK(T, X, x)
  <2>1. F \in T.lock[x] <=> F \in S.lock[x]
    BY <1>0, <1>4, <1>7
  <2> QED
    BY <1>0, <1>7, <2>1, KeysAssumption DEF Good, EntryOK
<1>12. Hidden(S, T, e)
  BY <1>0, <1>7, KeysAssumption DEF Hidden
<1> QED
  BY <1>5, <1>6, <1>8, <1>9, <1>10, <1>11, <1>12 DEF Step, Good

\* storeRelease leaves nothing to be found under the entry's key.
LEMMA storeReleaseStep ==
    ASSUME NEW S, NEW X, Good(S, X), NEW e \in Entries
    PROVE  Step(S, storeRelease(S, e), X) /\ Hidden(S, storeRelease(S, e), e)
<1>1. CASE storeEntryLocked(S, e)
  BY <1>1, storeReleaseRequestStep DEF storeRelease
<1>2. CASE ~storeEntryLocked(S, e)
  <2>1. F \notin S.lock[e]
    BY <1>2 DEF storeEntryLocked
  <2> QED
    BY <1>2, <2>1, LateReleaseStep, DiscardStep DEF storeRelease
<1> QED
  BY <1>1, <1>2

LEMMA storePurgeMemStep ==
    ASSUME NEW S, NEW X, Good(S, X), NEW e \in Entries
    PROVE  Step(S, storePurgeMem(S, e), X)
<1> DEFINE D == destroy_MemObject(S, e)
<1>1. Step(S, D, X)
  BY destroy_MemObjectStep
<1>2. Good(D, X)
  BY <1>1, StepGood
<1> HIDE DEF D
<1>3. Step(S, storeRelease(D, e), X)
  BY <1>1, <1>2, storeReleaseStep, StepTrans
<1> QED
  BY <1>1, <1>3, StepRefl DEF storePurgeMem, D

(***************************************************************************)
(* Locks                                                                    *)
(***************************************************************************)
LEMMA LockShape ==
    ASSUME NEW S \in Store, NEW e \in Entries, NEW h \in Holders
    PROVE  LET T == storeLockObject(S, e, h)
           IN  /\ T \in Store
               /\ T.key = S.key /\ T.filen = S.filen /\ T.map = S.map
               /\ T.flags = S.flags /\ T.status = S.status
               /\ T.lock = [S.lock EXCEPT ![e] = @ \cup {h}]
<1> DEFINE M == Must(S, h \notin S.lock[e])
<1>1. Quiet(S, M)
  BY MustQuiet
<1> HIDE DEF M
<1>2. M.lock[e] \cup {h} \in SUBSET Holders
  BY <1>1 DEF Quiet, Store
<1>3. ASSUME NEW H \in SUBSET Holders
      PROVE  LET T == [M EXCEPT !.lock[e] = H]
             IN  /\ T \in Store
                 /\ T.key = M.key /\ T.filen = M.filen /\ T.map = M.map
                 /\ T.flags = M.flags /\ T.status = M.status
                 /\ T.lock = [M.lock EXCEPT ![e] = H]
  BY <1>1 DEF Quiet, Store
<1>4. storeLockObject(S, e, h) = [M EXCEPT !.lock[e] = @ \cup {h}]
  BY DEF storeLockObject, M
<1> QED
  BY <1>1, <1>2, <1>3, <1>4 DEF Quiet

LEMMA storeLockObjectStep ==
    ASSUME NEW S, NEW X, Good(S, X), NEW e \in Entries, NEW h \in Holders, h # F
    PROVE  Step(S, storeLockObject(S, e, h), X) /\ storeLockObject(S, e, h).flags = S.flags
<1> DEFINE T == storeLockObject(S, e, h)
<1>1. S \in Store /\ S.lock \in [Entries -> SUBSET Holders]
  BY DEF Good, Store
<1>2. /\ T \in Store
      /\ T.key = S.key /\ T.filen = S.filen /\ T.map = S.map
      /\ T.flags = S.flags /\ T.status = S.status
      /\ T.lock = [S.lock EXCEPT ![e] = @ \cup {h}]
  BY <1>1, LockShape
<1> HIDE DEF T
<1>3. \A x \in Entries : F \in T.lock[x] <=> F \in S.lock[x]
  BY <1>1, <1>2
<1>4. KeysUnique(T) /\ FilesOwned(T) /\ Loses(S, T) /\ \A x \in Entries : EntryOK(T, X, x)
  BY <1>2, <1>3 DEF Good, KeysUnique, FilesOwned, Loses, EntryOK
<1> QED
  BY <1>2, <1>4 DEF Step, Good, T

LEMMA DropLockShape ==
    ASSUME NEW S \in Store, NEW e \in Entries, NEW h
    PROVE  LET T == DropLock(S, e, h)
           IN  /\ T \in Store
               /\ T.key = S.key /\ T.filen = S.filen /\ T.map = S.map
               /\ T.flags = S.flags /\ T.status = S.status
               /\ T.lock = [S.lock EXCEPT ![e] = @ \ {h}]
<1> DEFINE M == Must(S, h \in S.lock[e])
<1>1. Quiet(S, M)
  BY MustQuiet
<1> HIDE DEF M
<1>2. M.lock[e] \ {h} \in SUBSET Holders
  BY <1>1 DEF Quiet, Store
<1>3. ASSUME NEW H \in SUBSET Holders
      PROVE  LET T == [M EXCEPT !.lock[e] = H]
             IN  /\ T \in Store
                 /\ T.key = M.key /\ T.filen = M.filen /\ T.map = M.map
                 /\ T.flags = M.flags /\ T.status = M.status
                 /\ T.lock = [M.lock EXCEPT ![e] = H]
  BY <1>1 DEF Quiet, Store
<1>4. DropLock(S, e, h) = [M EXCEPT !.lock[e] = @ \ {h}]
  BY DEF DropLock, M
<1> QED
  BY <1>1, <1>2, <1>3, <1>4 DEF Quiet

LEMMA DropLockGood ==
    ASSUME NEW S, NEW X, Good(S, X), NEW e \in Entries, NEW h,
           h # F \/ S.status[e] = "STORE_OK"
    PROVE  /\ Good(DropLock(S, e, h), X)
           /\ h # F => Step(S, DropLock(S, e, h), X)
<1> DEFINE T == DropLock(S, e, h)
<1>1. /\ S \in Store /\ S.lock \in [Entries -> SUBSET Holders]
      /\ S.status \in [Entries -> {"STORE_OK", "STORE_PENDING"}]
  BY DEF Good, Store
<1>2. /\ T \in Store
      /\ T.key = S.key /\ T.filen = S.filen /\ T.map = S.map
      /\ T.flags = S.flags /\ T.status = S.status
      /\ T.lock = [S.lock EXCEPT ![e] = @ \ {h}]
  BY <1>1, DropLockShape
<1> HIDE DEF T
<1>3. KeysUnique(T) /\ FilesOwned(T)
  BY <1>2 DEF Good, KeysUnique, FilesOwned
<1>4. \A x \in Entries : EntryOK(T, X, x)
  BY <1>1, <1>2 DEF Good, EntryOK
<1>5. h # F => Loses(S, T)
  BY <1>1, <1>2 DEF Loses
<1> QED
  BY <1>2, <1>3, <1>4, <1>5 DEF Step, Good, T

LEMMA MemQuiet ==
    ASSUME NEW S \in Store, NEW e \in Entries, NEW m \in {"NULL", "NOT_IN_MEMORY", "IN_MEMORY"}
    PROVE  Quiet(S, [S EXCEPT !.mem[e] = m])
  BY DEF Quiet, Store

LEMMA LastUnlockStep ==
    ASSUME NEW S, NEW X, Good(S, X), NEW e \in Entries, NEW keep
    PROVE  Step(S, LastUnlock(S, e, keep), X)
<1> DEFINE A == Must(S, S.clients[e] = {})
<1>1. Step(S, A, X)
  BY MustStep
<1> HIDE DEF A
<1>2. Good(A, X) /\ A \in Store
  BY <1>1, StepGood DEF Good
<1>3. Step(A, storeRelease(A, e), X) /\ Step(A, storePurgeMem(A, e), X)
  BY <1>2, storeReleaseStep, storePurgeMemStep
<1>4. Step(A, [A EXCEPT !.mem[e] = "IN_MEMORY"], X)
  BY <1>2, MemQuiet, QuietStep
<1>5. Step(A, LastUnlock(S, e, keep), X)
  BY <1>3, <1>4 DEF LastUnlock, A
<1> QED
  BY <1>1, <1>5, StepTrans

\* Once the last lock is dropped the transfer is over, so nothing is left pending.
LEMMA UnlockRest ==
    ASSUME NEW S, NEW X, Good(S, X), NEW e \in Entries, NEW h, NEW keep,
           Safe(S, X, e), h # F \/ S.status[e] = "STORE_OK"
    PROVE  Step(DropLock(S, e, h), storeUnlockObject(S, e, h, keep), X)
<1> DEFINE U == DropLock(S, e, h)
<1>0. S \in Store
  BY DEF Good
<1>1. Good(U, X)
  BY DropLockGood
<1>2. U.status = S.status
  BY <1>0, DropLockShape
<1>3. CASE U.lock[e] # {}
  <2>1. storeUnlockObject(S, e, h, keep) = U
    BY <1>3 DEF storeUnlockObject
  <2> QED
    BY <1>1, <2>1, StepRefl
<1>4. CASE U.lock[e] = {}
  <2>1. U.status[e] # "STORE_PENDING"
    BY <1>1, <1>2, <1>4 DEF Good, EntryOK, Safe
  <2>2. storeUnlockObject(S, e, h, keep) = LastUnlock(U, e, keep)
    BY <1>4, <2>1 DEF storeUnlockObject
  <2> QED
    BY <1>1, <2>2, LastUnlockStep
<1> QED
  BY <1>3, <1>4

LEMMA storeUnlockObjectStep ==
    ASSUME NEW S, NEW X, Good(S, X), NEW e \in Entries, NEW h, NEW keep,
           Safe(S, X, e), h # F
    PROVE  Step(S, storeUnlockObject(S, e, h, keep), X)
  BY UnlockRest, DropLockGood, StepTrans

(***************************************************************************)
(* Becoming public                                                          *)
(***************************************************************************)

\* The one entry under k is gone from it; what another entry's flags say stays.
LEMMA KickOutStep ==
    ASSUME NEW S, NEW X, Good(S, X), NEW k
    PROVE  LET T == KickOut(S, k)
           IN  /\ Step(S, T, X)
               /\ k \in Keys => \A x \in Entries : T.key[x] # k
               /\ \A x \in Entries : S.key[x] # k => T.flags[x] = S.flags[x]
<1>1. CASE \E e \in Entries : S.key[e] = k
  <2> DEFINE e2 == CHOOSE e \in Entries : S.key[e] = k
             R == storeSetPrivateKey(S, e2)
             T == storeRelease(R, e2)
  <2>1. e2 \in Entries /\ S.key[e2] = k
    BY <1>1
  <2>2. T = KickOut(S, k)
    BY <1>1 DEF KickOut
  <2> HIDE DEF e2
  <2>3. Step(S, R, X) /\ R.flags = S.flags /\ R.key = [S.key EXCEPT ![e2] = Private]
    <3>1. S \in Store
      BY DEF Good
    <3> QED
      BY <2>1, <3>1, storeSetPrivateKeyStep, storeSetPrivateKeyShape
  <2> HIDE DEF R
  <2>4. Good(R, X)
    BY <2>3, StepGood
  <2>5. Step(R, T, X) /\ Hidden(R, T, e2)
    BY <2>1, <2>4, storeReleaseStep
  <2> HIDE DEF T
  <2>6. Step(S, T, X)
    BY <2>3, <2>5, StepTrans
  <2>7. S.key \in [Entries -> Keys \cup {Private, NoKey}] /\ KeysUnique(S)
    BY DEF Good, Store
  <2>8. ASSUME k \in Keys, NEW x \in Entries PROVE T.key[x] # k
    <3>1. R.key[x] # k
      BY <2>1, <2>3, <2>7, <2>8, KeysAssumption DEF KeysUnique
    <3>2. T.key[x] = R.key[x] \/ T.key[x] \notin Keys
      BY <2>5 DEF Step, Loses
    <3> QED
      BY <2>8, <3>1, <3>2
  <2>9. ASSUME NEW x \in Entries, S.key[x] # k PROVE T.flags[x] = S.flags[x]
    BY <2>1, <2>3, <2>5, <2>9 DEF Hidden
  <2> QED
    BY <2>2, <2>6, <2>8, <2>9
<1>2. CASE ~\E e \in Entries : S.key[e] = k
  <2>1. KickOut(S, k) = S
    BY <1>2 DEF KickOut
  <2> QED
    BY <1>2, <2>1, StepRefl
<1> QED
  BY <1>1, <1>2

\* A key nobody has is given to an entry not asked to be released.
LEMMA GiveKey ==
    ASSUME NEW S, NEW X, Good(S, X), NEW e \in Entries, NEW k \in Keys \cup {NoKey},
           k \in Keys => /\ \A x \in Entries : S.key[x] # k
                         /\ "RELEASE_REQUEST" \notin S.flags[e]
    PROVE  LET T == [S EXCEPT !.key[e] = k]
           IN  Advance(S, T, X) /\ T.flags = S.flags
<1> DEFINE T == [S EXCEPT !.key[e] = k]
<1>1. /\ T \in Store
      /\ T.filen = S.filen /\ T.map = S.map /\ T.flags = S.flags
      /\ T.status = S.status /\ T.lock = S.lock
      /\ T.key = [S.key EXCEPT ![e] = k]
      /\ S.key \in [Entries -> Keys \cup {Private, NoKey}]
  BY DEF Good, Store
<1> HIDE DEF T
<1>2. KeysUnique(T)
  BY <1>1, KeysAssumption DEF Good, KeysUnique
<1>3. FilesOwned(T) /\ Keeps(S, T)
  BY <1>1 DEF Good, FilesOwned, Keeps
<1>4. \A x \in Entries : EntryOK(T, X, x)
  BY <1>1, KeysAssumption DEF Good, EntryOK
<1>5. Advance(S, T, X)
  BY <1>1, <1>2, <1>3, <1>4 DEF Advance, Good
<1> QED
  BY <1>1, <1>5 DEF T

LEMMA storeSetPublicKeyAdvance ==
    ASSUME NEW S, NEW X, Good(S, X), NEW e \in Entries,
           "RELEASE_REQUEST" \notin S.flags[e]
    PROVE  LET T == storeSetPublicKey(S, e)
           IN  /\ Advance(S, T, X)
               /\ S.url[e] \in Keys => "RELEASE_REQUEST" \notin T.flags[e]
<1> DEFINE early == Public(S, e) /\ Has(S, e, "KEY_EARLY_PUBLIC")
           C == ClrFlag(S, e, "KEY_EARLY_PUBLIC")
           R == IF early THEN storeSetPrivateKey(C, e) ELSE S
           A == Must(R, R.mem[e] # "NULL" /\ ~Has(R, e, "RELEASE_REQUEST"))
           k == S.url[e]
           O == KickOut(A, k)
           K == [O EXCEPT !.key[e] = k]
           T == IF K.filen[e] # -1 THEN storeDirSwapLog(K, e, "ADD") ELSE K
<1>0. /\ S \in Store /\ k \in Keys \cup {NoKey}
      /\ S.key \in [Entries -> Keys \cup {Private, NoKey}]
      /\ S.flags \in [Entries -> SUBSET Flags]
  BY DEF Good, Store
<1>1. CASE Public(S, e) /\ ~early
  <2>1. storeSetPublicKey(S, e) = S
    BY <1>1 DEF storeSetPublicKey
  <2> QED
    BY <2>1, StepRefl, StepAdvance
<1>2. CASE ~(Public(S, e) /\ ~early)
  <2>1. storeSetPublicKey(S, e) = T
    BY <1>2 DEF storeSetPublicKey, MayBePublic, LogNewKey
  <2> HIDE DEF k
  <2>2. /\ Step(S, C, X) /\ C \in Store
        /\ C.key = S.key
        /\ C.flags = [S.flags EXCEPT ![e] = @ \ {"KEY_EARLY_PUBLIC"}]
    BY <1>0, FlagStep, FlagShape DEF Flags
  <2> HIDE DEF C
  <2>3. /\ Step(S, R, X)
        /\ "RELEASE_REQUEST" \notin R.flags[e]
        /\ R.key[e] \notin Keys
    <3>1. CASE early
      <4>1. Good(C, X)
        BY <2>2, StepGood
      <4>2. Step(S, storeSetPrivateKey(C, e), X)
        BY <2>2, <4>1, storeSetPrivateKeyStep, StepTrans
      <4>3. /\ storeSetPrivateKey(C, e).flags = C.flags
            /\ storeSetPrivateKey(C, e).key = [C.key EXCEPT ![e] = Private]
        BY <2>2, storeSetPrivateKeyShape
      <4> QED
        BY <1>0, <2>2, <3>1, <4>2, <4>3, KeysAssumption
    <3>2. CASE ~early
      BY <1>2, <3>2, StepRefl DEF Public
    <3> QED
      BY <3>1, <3>2
  <2> HIDE DEF R
  <2>4. Step(S, A, X) /\ "RELEASE_REQUEST" \notin A.flags[e] /\ A.key[e] \notin Keys
    <3>1. Good(R, X) /\ R \in Store
      BY <2>3, StepGood DEF Good
    <3>2. Step(R, A, X) /\ Quiet(R, A)
      BY <3>1, MustStep, MustQuiet
    <3> QED
      BY <2>3, <3>2, StepTrans DEF Quiet
  <2> HIDE DEF A
  <2>5. /\ Step(A, O, X)
        /\ k \in Keys => /\ \A x \in Entries : O.key[x] # k
                         /\ "RELEASE_REQUEST" \notin O.flags[e]
    <3>1. Good(A, X)
      BY <2>4, StepGood
    <3>2. /\ Step(A, O, X)
          /\ k \in Keys => \A x \in Entries : O.key[x] # k
          /\ \A x \in Entries : A.key[x] # k => O.flags[x] = A.flags[x]
      BY <3>1, KickOutStep
    <3> QED
      BY <2>4, <3>2
  <2> HIDE DEF O
  <2>6. Advance(O, K, X) /\ K.flags = O.flags
    <3>1. Good(O, X) /\ k \in Keys \cup {NoKey}
      BY <1>0, <2>5, StepGood DEF k
    <3> QED
      BY <2>5, <3>1, GiveKey
  <2>7. Advance(S, K, X)
    BY <2>4, <2>5, <2>6, StepTrans, StepAdvance, AdvanceTrans
  <2> HIDE DEF K
  <2>8. Good(K, X) /\ K \in Store
    BY <2>7, AdvanceGood DEF Good
  <2>9. Step(K, T, X) /\ T.flags = K.flags
    BY <2>8, storeDirSwapLogStep, storeDirSwapLogQuiet, StepRefl DEF Quiet
  <2>10. Advance(S, T, X)
    BY <2>7, <2>9, StepAdvance, AdvanceTrans
  <2>11. k \in Keys => "RELEASE_REQUEST" \notin T.flags[e]
    BY <2>5, <2>6, <2>9
  <2> QED
    BY <2>1, <2>10, <2>11 DEF k
<1> QED
  BY <1>1, <1>2

(***************************************************************************)
(* Swapping out                                                             *)
(***************************************************************************)
LEMMA storeCheckCachableStep ==
    ASSUME NEW S, NEW X, Good(S, X), NEW e \in Entries, NEW fit
    PROVE  Step(S, storeCheckCachable(S, e, fit), X)
<1> DEFINE R == storeReleaseRequest(S, e)
<1>1. Step(S, R, X)
  BY storeReleaseRequestStep
<1> HIDE DEF R
<1>2. Good(R, X)
  BY <1>1, StepGood
<1>3. Step(R, ClrFlag(R, e, "ENTRY_CACHABLE"), X)
  BY <1>2, FlagStep DEF Flags
<1>4. Step(S, ClrFlag(R, e, "ENTRY_CACHABLE"), X)
  BY <1>1, <1>3, StepTrans
<1> QED
  BY <1>4, StepRefl DEF storeCheckCachable, R

LEMMA SioQuiet ==
    ASSUME NEW S \in Store, NEW e \in Entries, NEW b \in BOOLEAN
    PROVE  Quiet(S, [S EXCEPT !.sio[e] = b])
  BY DEF Quiet, Store

\* A file number is given up, by a failed swap-out.
LEMMA SwapFailedStep ==
    ASSUME NEW S, NEW X, Good(S, X), NEW e \in Entries
    PROVE  Step(S, SwapFailed(S, e), X)
<1> DEFINE V == storeUnlink(S, e)
           U == IF S.filen[e] > 0 THEN V ELSE S
           T == [U EXCEPT !.filen[e] = -1, !.swap[e] = "SWAPOUT_NONE"]
<1>0. /\ S \in Store
      /\ S.filen \in [Entries -> Files \cup {-1}]
  BY DEF Good, Store
<1>1. /\ V \in Store
      /\ V.map = S.map \ {S.filen[e]} /\ V.key = S.key /\ V.filen = S.filen
      /\ V.flags = S.flags /\ V.status = S.status /\ V.lock = S.lock
  BY <1>0 DEF storeUnlink, Store
<1> HIDE DEF V
<1>2. /\ U \in Store
      /\ U.map \in {S.map, S.map \ {S.filen[e]}} /\ U.key = S.key /\ U.filen = S.filen
      /\ U.flags = S.flags /\ U.status = S.status /\ U.lock = S.lock
  BY <1>0, <1>1
<1> HIDE DEF U
<1>3. /\ T \in Store
      /\ T.map = U.map /\ T.key = U.key /\ T.filen = [U.filen EXCEPT ![e] = -1]
      /\ T.flags = U.flags /\ T.status = U.status /\ T.lock = U.lock
  BY <1>2 DEF Store
<1> HIDE DEF T
<1>4. FilesOwned(T)
  BY <1>0, <1>2, <1>3 DEF Good, FilesOwned
<1>5. KeysUnique(T) /\ Loses(S, T) /\ \A x \in Entries : EntryOK(T, X, x)
  BY <1>2, <1>3 DEF Good, KeysUnique, Loses, EntryOK
<1>6. Step(S, T, X)
  BY <1>3, <1>4, <1>5 DEF Step, Good
<1>7. Step(S, storeReleaseRequest(T, e), X)
  BY <1>6, StepGood, storeReleaseRequestStep, StepTrans
<1> QED
  BY <1>7 DEF SwapFailed, T, U, V

LEMMA SwapDoneStep ==
    ASSUME NEW S, NEW X, Good(S, X), NEW e \in Entries, NEW fit
    PROVE  Step(S, SwapDone(S, e, fit), X)
<1> DEFINE D == [S EXCEPT !.swap[e] = "SWAPOUT_DONE", !.size = @ + 1]
<1>1. S \in Store /\ S.size + 1 \in Int
  BY DEF Good, Store
<1>2. Quiet(S, D)
  BY <1>1 DEF Quiet, Store
<1>3. Step(S, D, X)
  BY <1>2, QuietStep
<1> HIDE DEF D
<1>4. Good(D, X)
  BY <1>3, StepGood
<1>5. Step(D, storeDirSwapLog(D, e, "ADD"), X) /\ Step(D, storeCheckCachable(D, e, fit), X)
  BY <1>4, storeDirSwapLogStep, storeCheckCachableStep
<1>6. Step(D, SwapDone(S, e, fit), X)
  BY <1>5 DEF SwapDone, D
<1> QED
  BY <1>3, <1>6, StepTrans

LEMMA RolesNotF ==
    /\ \A r \in Roles \ {"fwd"} : RoleLock(r) \in Holders /\ RoleLock(r) # F
    /\ \A c \in Clients : /\ HttpLock(c) \in Holders /\ HttpLock(c) # F
                          /\ ScLock(c) \in Holders /\ ScLock(c) # F
    /\ F \in Holders
  BY DEF Holders, Roles, F, RoleLock, HttpLock, ScLock

LEMMA storeSwapOutFileClosedStep ==
    ASSUME NEW S, NEW X, Good(S, X), NEW e \in Entries, Safe(S, X, e),
           NEW err, NEW fit, NEW keep
    PROVE  Step(S, storeSwapOutFileClosed(S, e, err, fit, keep), X)
<1> DEFINE A == Must(S, S.swap[e] = "SWAPOUT_WRITING")
           G == IF err THEN SwapFailed(A, e) ELSE SwapDone(A, e, fit)
           B == [G EXCEPT !.sio[e] = FALSE]
           M == IF SwapOutAble(B, e, fit) THEN B ELSE storeReleaseRequest(B, e)
<1>1. Step(S, A, X)
  BY MustStep
<1> HIDE DEF A
<1>2. Step(S, G, X)
  BY <1>1, StepGood, SwapFailedStep, SwapDoneStep, StepTrans
<1> HIDE DEF G
<1>3. Step(S, B, X)
  <2>1. Good(G, X) /\ G \in Store
    BY <1>2, StepGood DEF Good
  <2>2. Quiet(G, B)
    BY <2>1, SioQuiet
  <2> HIDE DEF B
  <2> QED
    BY <1>2, <2>1, <2>2, QuietStep, StepTrans
<1> HIDE DEF B
<1>4. Step(S, M, X)
  BY <1>3, StepGood, storeReleaseRequestStep, StepTrans
<1> HIDE DEF M
<1>5. Good(M, X) /\ Safe(M, X, e)
  BY <1>4, StepGood, StepSafe
<1>6. Step(M, storeUnlockObject(M, e, RoleLock("swapout"), keep), X)
  BY <1>5, storeUnlockObjectStep, RolesNotF DEF Roles
<1>7. storeSwapOutFileClosed(S, e, err, fit, keep) = storeUnlockObject(M, e, RoleLock("swapout"), keep)
  BY DEF storeSwapOutFileClosed, KeepOrRelease, M, B, G, A
<1> QED
  BY <1>4, <1>6, <1>7, StepTrans

LEMMA storeSwapOutFileCloseStep ==
    ASSUME NEW S, NEW X, Good(S, X), NEW e \in Entries, Safe(S, X, e), NEW fit, NEW keep
    PROVE  Step(S, storeSwapOutFileClose(S, e, fit, keep), X)
<1> DEFINE C == [S EXCEPT !.sio[e] = FALSE]
<1>1. Step(S, C, X)
  BY SioQuiet, QuietStep DEF Good
<1> HIDE DEF C
<1>2. Good(C, X) /\ Safe(C, X, e)
  BY <1>1, StepGood, StepSafe
<1>3. Step(S, storeSwapOutFileClosed(C, e, FALSE, fit, keep), X)
  BY <1>1, <1>2, storeSwapOutFileClosedStep, StepTrans
<1> QED
  BY <1>1, <1>3, StepRefl DEF storeSwapOutFileClose, C

LEMMA storeSwapOutMaintainMemObjectStep ==
    ASSUME NEW S, NEW X, Good(S, X), NEW e \in Entries, Safe(S, X, e), NEW fit, NEW keep
    PROVE  Step(S, storeSwapOutMaintainMemObject(S, e, fit, keep), X)
<1> DEFINE R == storeReleaseRequest(S, e)
<1>1. Step(S, R, X)
  BY storeReleaseRequestStep
<1> HIDE DEF R
<1>2. Step(S, storeSwapOutFileClose(R, e, fit, keep), X)
  BY <1>1, StepGood, StepSafe, storeSwapOutFileCloseStep, StepTrans
<1> QED
  BY <1>2, StepRefl DEF storeSwapOutMaintainMemObject, R

\* A free file number is taken.
LEMMA storeSwapOutStartStep ==
    ASSUME NEW S, NEW X, Good(S, X), NEW e \in Entries, NEW f \in Files \ S.map
    PROVE  Step(S, storeSwapOutStart(S, e, f), X)
<1> DEFINE L == storeLockObject(S, e, RoleLock("swapout"))
           T == [L EXCEPT !.swap[e] = "SWAPOUT_WRITING", !.filen[e] = f, !.sio[e] = TRUE,
                          !.map = @ \cup {f}]
<1>0. S \in Store /\ S.filen \in [Entries -> Files \cup {-1}] /\ S.map \in SUBSET Files
  BY DEF Good, Store
<1>1. Step(S, L, X) /\ L \in Store /\ L.filen = S.filen /\ L.map = S.map
  <2>1. RoleLock("swapout") \in Holders /\ RoleLock("swapout") # F
    BY RolesNotF DEF Roles
  <2> QED
    BY <1>0, <2>1, storeLockObjectStep, LockShape
<1> HIDE DEF L
<1>2. /\ T \in Store
      /\ T.key = L.key /\ T.flags = L.flags /\ T.status = L.status /\ T.lock = L.lock
      /\ T.filen = [L.filen EXCEPT ![e] = f] /\ T.map = L.map \cup {f}
  <2>1. L.map \cup {f} \in SUBSET Files
    BY <1>0, <1>1
  <2>2. ASSUME NEW m \in SUBSET Files
        PROVE  LET Q == [L EXCEPT !.swap[e] = "SWAPOUT_WRITING", !.filen[e] = f, !.sio[e] = TRUE,
                                  !.map = m]
               IN  /\ Q \in Store
                   /\ Q.key = L.key /\ Q.flags = L.flags /\ Q.status = L.status
                   /\ Q.lock = L.lock
                   /\ Q.filen = [L.filen EXCEPT ![e] = f] /\ Q.map = m
    BY <1>1 DEF Store
  <2> QED
    BY <2>1, <2>2
<1> HIDE DEF T
<1>3. FilesOwned(T)
  BY <1>0, <1>1, <1>2 DEF Good, FilesOwned
<1>4. KeysUnique(T) /\ Loses(L, T) /\ \A x \in Entries : EntryOK(T, X, x)
  BY <1>1, <1>2 DEF Step, Good, KeysUnique, Loses, EntryOK
<1>5. Step(L, T, X)
  BY <1>2, <1>3, <1>4 DEF Step, Good
<1>6. T = storeSwapOutStart(S, e, f)
  BY DEF T, L, storeSwapOutStart
<1> QED
  BY <1>1, <1>5, <1>6, StepTrans

LEMMA WriteBlocksStep ==
    ASSUME NEW S, NEW X, Good(S, X), NEW e \in Entries, Safe(S, X, e), NEW o, NEW keep
    PROVE  Step(S, WriteBlocks(S, e, o, keep), X)
  BY storeSwapOutFileClosedStep, storeSwapOutFileCloseStep, StepRefl DEF WriteBlocks

\* A file that could not be created keeps its number out of use.
LEMMA MapStep ==
    ASSUME NEW S, NEW X, Good(S, X), NEW f \in Files
    PROVE  Step(S, [S EXCEPT !.map = @ \cup {f}], X)
<1> DEFINE T == [S EXCEPT !.map = @ \cup {f}]
<1>0. S \in Store /\ S.map \cup {f} \in SUBSET Files
  BY DEF Good, Store
<1>1. /\ T \in Store
      /\ T.key = S.key /\ T.filen = S.filen /\ T.map = S.map \cup {f}
      /\ T.flags = S.flags /\ T.status = S.status /\ T.lock = S.lock
  BY <1>0 DEF Store
<1> HIDE DEF T
<1>2. KeysUnique(T) /\ FilesOwned(T) /\ Loses(S, T) /\ \A x \in Entries : EntryOK(T, X, x)
  BY <1>1 DEF Good, KeysUnique, FilesOwned, Loses, EntryOK
<1> QED
  BY <1>1, <1>2 DEF Step, Good, T

LEMMA BeginSwapOutStep ==
    ASSUME NEW S, NEW X, Good(S, X), NEW e \in Entries, Safe(S, X, e), NEW o, NEW keep
    PROVE  Step(S, BeginSwapOut(S, e, o, keep), X)
<1> DEFINE fit == o[1] # "unfit"
           A == Must(S, ~S.sio[e])
           C == storeCheckCachable(A, e, fit)
           M == storeSwapOutMaintainMemObject(C, e, TRUE, keep)
           T == storeSwapOutStart(A, e, o[2])
           W == WriteBlocks(T, e, o, keep)
<1>1. Step(S, A, X)
  BY MustStep
<1> HIDE DEF A
<1>2. Good(A, X) /\ Safe(A, X, e)
  BY <1>1, StepGood, StepSafe
<1>3. Step(A, C, X)
  BY <1>2, storeCheckCachableStep
<1> HIDE DEF C
<1>4. Step(A, M, X)
  BY <1>2, <1>3, StepGood, StepSafe, storeSwapOutMaintainMemObjectStep, StepTrans
<1> HIDE DEF M
<1>5. o[2] \in Files \ A.map => Step(A, W, X)
  <2> SUFFICES ASSUME o[2] \in Files \ A.map PROVE Step(A, W, X)
    OBVIOUS
  <2>1. Step(A, T, X)
    BY <1>2, storeSwapOutStartStep
  <2> HIDE DEF T
  <2> QED
    BY <1>2, <2>1, StepGood, StepSafe, WriteBlocksStep, StepTrans
<1> HIDE DEF W
<1>6. o[2] \in Files \ A.map => Step(A, [A EXCEPT !.map = @ \cup {o[2]}], X)
  BY <1>2, MapStep
<1>7. Step(A, A, X)
  BY <1>2, StepRefl
<1>8. BeginSwapOut(S, e, o, keep) =
        IF ~Cachable(A, e, fit) THEN M
        ELSE IF o[2] \notin Files \ A.map THEN A
        ELSE IF o[1] = "openfail" THEN [A EXCEPT !.map = @ \cup {o[2]}]
        ELSE W
  BY DEF BeginSwapOut, A, C, M, T, W
<1> HIDE DEF fit
<1>9. Step(A, BeginSwapOut(S, e, o, keep), X)
  BY <1>4, <1>5, <1>6, <1>7, <1>8
<1> QED
  BY <1>1, <1>9, StepTrans

LEMMA storeSwapOutStep ==
    ASSUME NEW S, NEW X, Good(S, X), NEW e \in Entries, Safe(S, X, e), NEW o, NEW keep
    PROVE  Step(S, storeSwapOut(S, e, o, keep), X)
<1> DEFINE fit == o[1] # "big"
           M == storeSwapOutMaintainMemObject(S, e, fit, keep)
           A == Must(S, Has(S, e, "RELEASE_REQUEST"))
<1>1. Step(S, M, X)
  BY storeSwapOutMaintainMemObjectStep
<1>2. Step(S, A, X)
  BY MustStep
<1> HIDE DEF M, A
<1>3. Good(M, X) /\ Safe(M, X, e) /\ Good(A, X) /\ Safe(A, X, e)
  BY <1>1, <1>2, StepGood, StepSafe
<1>4. Step(S, storeSwapOutFileClose(A, e, FALSE, keep), X)
  BY <1>2, <1>3, storeSwapOutFileCloseStep, StepTrans
<1>5. /\ Step(S, storeSwapOutFileClose(M, e, TRUE, keep), X)
      /\ Step(S, BeginSwapOut(M, e, o, keep), X)
      /\ Step(S, WriteBlocks(M, e, o, keep), X)
  BY <1>1, <1>3, storeSwapOutFileCloseStep, BeginSwapOutStep, WriteBlocksStep, StepTrans
<1>6. Step(S, S, X)
  BY StepRefl
<1> QED
  BY <1>1, <1>4, <1>5, <1>6 DEF storeSwapOut, SwapOutBlocks, M, A

(***************************************************************************)
(* Store clients, abort and completion                                      *)
(***************************************************************************)
LEMMA ClientsQuiet ==
    ASSUME NEW S \in Store, NEW e \in Entries, NEW C \in SUBSET Clients
    PROVE  Quiet(S, [S EXCEPT !.clients[e] = C])
  BY DEF Quiet, Store

LEMMA storeClientRegisterStep ==
    ASSUME NEW S, NEW X, Good(S, X), NEW e \in Entries, NEW c \in Clients
    PROVE  /\ Step(S, storeClientRegister(S, e, c), X)
           /\ storeClientRegister(S, e, c).flags = S.flags
<1> DEFINE M == Must(S, S.mem[e] # "NULL")
           L == storeLockObject(M, e, ScLock(c))
           T == [L EXCEPT !.clients[e] = @ \cup {c}]
<1>1. Step(S, M, X) /\ M.flags = S.flags
  BY MustStep, MustQuiet DEF Quiet, Good
<1> HIDE DEF M
<1>2. Step(M, L, X) /\ L.flags = M.flags
  BY <1>1, StepGood, storeLockObjectStep, RolesNotF
<1> HIDE DEF L
<1>3. L \in Store /\ Good(L, X) /\ L.clients[e] \cup {c} \in SUBSET Clients
  BY <1>2 DEF Step, Good, Store
<1>4. Quiet(L, T)
  BY <1>3, ClientsQuiet
<1>5. Step(L, T, X) /\ T.flags = L.flags
  BY <1>3, <1>4, QuietStep DEF Quiet
<1>6. storeClientRegister(S, e, c) = T
  BY DEF storeClientRegister, T, L, M
<1> QED
  BY <1>1, <1>2, <1>5, <1>6, StepTrans

\* The transfer ends.
LEMMA EndStep ==
    ASSUME NEW S, NEW X, Good(S, X), NEW e \in Entries, NEW T \in Store,
           T.key = S.key, T.filen = S.filen, T.map = S.map, T.flags = S.flags, T.lock = S.lock,
           T.status[e] = "STORE_OK", \A x \in Entries \ {e} : T.status[x] = S.status[x]
    PROVE  Step(S, T, X)
<1>1. S.status \in [Entries -> {"STORE_OK", "STORE_PENDING"}]
  BY DEF Good, Store
<1>2. KeysUnique(T) /\ FilesOwned(T) /\ Loses(S, T) /\ \A x \in Entries : EntryOK(T, X, x)
  BY <1>1 DEF Good, KeysUnique, FilesOwned, Loses, EntryOK
<1> QED
  BY <1>1, <1>2 DEF Step, Good

LEMMA StatusStep ==
    ASSUME NEW S, NEW X, Good(S, X), NEW e \in Entries
    PROVE  LET T == [S EXCEPT !.status[e] = "STORE_OK"]
           IN  Step(S, T, X) /\ T.status[e] = "STORE_OK"
<1> DEFINE T == [S EXCEPT !.status[e] = "STORE_OK"]
<1>1. /\ T \in Store
      /\ T.key = S.key /\ T.filen = S.filen /\ T.map = S.map
      /\ T.flags = S.flags /\ T.lock = S.lock
      /\ T.status[e] = "STORE_OK" /\ \A x \in Entries \ {e} : T.status[x] = S.status[x]
  BY DEF Good, Store
<1> HIDE DEF T
<1>2. Step(S, T, X) /\ T.status[e] = "STORE_OK"
  BY <1>1, EndStep
<1> QED
  BY <1>2 DEF T

LEMMA AbortQuiet ==
    ASSUME NEW S \in Store, NEW e \in Entries, NEW a \in {"unset", "set", "queued"}
    PROVE  Quiet(S, [S EXCEPT !.abort[e] = a])
  BY DEF Quiet, Store

\* Once over, a transfer stays over.
LEMMA OverStays ==
    ASSUME NEW S, NEW T, NEW X, NEW e \in Entries, Step(S, T, X), S.status[e] = "STORE_OK"
    PROVE  T.status[e] = "STORE_OK" /\ Safe(T, X, e)
  BY DEF Step, Loses, Safe

LEMMA storeAbortStep ==
    ASSUME NEW S, NEW X, Good(S, X), NEW e \in Entries, NEW keep
    PROVE  Step(S, storeAbort(S, e, keep), X)
<1> DEFINE A == Must(S, S.status[e] = "STORE_PENDING" /\ S.mem[e] # "NULL")
           L == storeLockObject(A, e, RoleLock("abort"))
           R == storeReleaseRequest(L, e)
           G == SetFlag(R, e, "ENTRY_ABORTED")
           T == [G EXCEPT !.status[e] = "STORE_OK",
                          !.abort[e] = IF @ = "set" THEN "queued" ELSE @]
           C == storeSwapOutFileClose(T, e, FALSE, keep)
<1>1. Step(S, A, X)
  BY MustStep
<1> HIDE DEF A
<1>2. Step(S, L, X)
  BY <1>1, StepGood, storeLockObjectStep, RolesNotF, StepTrans DEF Roles
<1> HIDE DEF L
<1>3. Step(S, R, X)
  BY <1>2, StepGood, storeReleaseRequestStep, StepTrans
<1> HIDE DEF R
<1>4. Step(S, G, X)
  <2>1. Step(R, G, X)
    BY <1>3, StepGood, FlagStep DEF Flags
  <2> QED
    BY <1>3, <2>1, StepTrans
<1> HIDE DEF G
<1>5. G \in Store /\ Good(G, X) /\ G.abort \in [Entries -> {"unset", "set", "queued"}]
  BY <1>4, StepGood DEF Good, Store
<1>6. Step(G, T, X) /\ T.status[e] = "STORE_OK"
  <2>1. ASSUME NEW a \in {"unset", "set", "queued"}
        PROVE  LET Q == [G EXCEPT !.status[e] = "STORE_OK", !.abort[e] = a]
               IN  /\ Q \in Store
                   /\ Q.key = G.key /\ Q.filen = G.filen /\ Q.map = G.map
                   /\ Q.flags = G.flags /\ Q.lock = G.lock
                   /\ Q.status[e] = "STORE_OK"
                   /\ \A x \in Entries \ {e} : Q.status[x] = G.status[x]
    BY <1>5 DEF Store
  <2>2. (IF G.abort[e] = "set" THEN "queued" ELSE G.abort[e]) \in {"unset", "set", "queued"}
    BY <1>5
  <2>3. /\ T \in Store
        /\ T.key = G.key /\ T.filen = G.filen /\ T.map = G.map
        /\ T.flags = G.flags /\ T.lock = G.lock
        /\ T.status[e] = "STORE_OK" /\ \A x \in Entries \ {e} : T.status[x] = G.status[x]
    BY <2>1, <2>2
  <2> HIDE DEF T
  <2> QED
    BY <1>5, <2>3, EndStep
<1> HIDE DEF T
<1>7. Step(S, T, X) /\ Good(T, X) /\ Safe(T, X, e)
  BY <1>4, <1>6, StepTrans, StepGood DEF Safe
<1>8. Step(T, C, X)
  BY <1>7, storeSwapOutFileCloseStep
<1> HIDE DEF C
<1>9. Step(S, C, X) /\ Good(C, X) /\ Safe(C, X, e)
  BY <1>7, <1>8, StepTrans, StepGood, StepSafe
<1>10. Step(C, storeUnlockObject(C, e, RoleLock("abort"), keep), X)
  BY <1>9, storeUnlockObjectStep, RolesNotF DEF Roles
<1>11. storeAbort(S, e, keep) = storeUnlockObject(C, e, RoleLock("abort"), keep)
  BY DEF storeAbort, GiveUp, C, T, G, R, L, A
<1> QED
  BY <1>9, <1>10, <1>11, StepTrans

LEMMA storeClientUnregisterStep ==
    ASSUME NEW S, NEW X, Good(S, X), NEW e \in Entries, Safe(S, X, e), NEW c \in Clients,
           NEW o, NEW quick, NEW keep
    PROVE  Step(S, storeClientUnregister(S, e, c, o, quick, keep), X)
<1> DEFINE R == [S EXCEPT !.clients[e] = @ \ {c}]
           W == IF R.status[e] = "STORE_OK" /\ R.swap[e] # "SWAPOUT_DONE"
                  THEN storeSwapOut(R, e, o, keep) ELSE R
           M == storeSwapOutMaintainMemObject(W, e, o[1] # "big", keep)
           Q == CheckQuickAbort(M, e, quick, keep)
<1>1. Step(S, R, X)
  <2>1. S \in Store /\ S.clients[e] \ {c} \in SUBSET Clients
    BY DEF Good, Store
  <2>2. Quiet(S, R)
    BY <2>1, ClientsQuiet
  <2> HIDE DEF R
  <2> QED
    BY <2>2, QuietStep
<1> HIDE DEF R
<1>2. Step(S, W, X)
  BY <1>1, StepGood, StepSafe, storeSwapOutStep, StepTrans
<1> HIDE DEF W
<1>3. Step(S, M, X)
  BY <1>2, StepGood, StepSafe, storeSwapOutMaintainMemObjectStep, StepTrans
<1> HIDE DEF M
<1>4. Step(S, Q, X)
  <2>1. Step(M, Q, X)
    BY <1>3, StepGood, storeAbortStep, StepRefl DEF CheckQuickAbort
  <2> QED
    BY <1>3, <2>1, StepTrans
<1> HIDE DEF Q
<1>5. Step(Q, storeUnlockObject(Q, e, ScLock(c), keep), X)
  BY <1>4, StepGood, StepSafe, storeUnlockObjectStep, RolesNotF
<1>6. storeClientUnregister(S, e, c, o, quick, keep) = storeUnlockObject(Q, e, ScLock(c), keep)
  BY DEF storeClientUnregister, Q, M, W, R
<1> QED
  BY <1>4, <1>5, <1>6, StepTrans

LEMMA ClientLeaveStep ==
    ASSUME NEW S, NEW X, Good(S, X), NEW e \in Entries, Safe(S, X, e), NEW c \in Clients,
           NEW o, NEW quick, NEW keep
    PROVE  Step(S, ClientLeave(S, e, c, o, quick, keep), X)
<1> DEFINE U == storeClientUnregister(S, e, c, o, quick, keep)
<1>1. Step(S, U, X)
  BY storeClientUnregisterStep
<1> HIDE DEF U
<1>2. Step(U, storeUnlockObject(U, e, HttpLock(c), keep), X)
  BY <1>1, StepGood, StepSafe, storeUnlockObjectStep, RolesNotF
<1> QED
  BY <1>1, <1>2, StepTrans DEF ClientLeave, U

LEMMA InvokeHandlersStep ==
    ASSUME NEW S, NEW X, Good(S, X), NEW e \in Entries, Safe(S, X, e), NEW gone,
           NEW o, NEW quick, NEW keep
    PROVE  Step(S, InvokeHandlers(S, e, gone, o, quick, keep), X)
<1>1. gone \in S.clients[e] => gone \in Clients
  BY DEF Good, Store
<1> QED
  BY <1>1, ClientLeaveStep, StepRefl DEF InvokeHandlers

LEMMA storeCompleteStep ==
    ASSUME NEW S, NEW X, Good(S, X), NEW e \in Entries, NEW valid, NEW gone,
           NEW o, NEW quick, NEW keep
    PROVE  LET T == storeComplete(S, e, valid, gone, o, quick, keep)
           IN  Step(S, T, X) /\ T.status[e] = "STORE_OK"
<1>0. S.status \in [Entries -> {"STORE_OK", "STORE_PENDING"}]
  BY DEF Good, Store
<1>1. CASE S.status[e] # "STORE_PENDING"
  <2> DEFINE T == Must(S, Has(S, e, "ENTRY_ABORTED") /\ S.clients[e] = {})
  <2>1. storeComplete(S, e, valid, gone, o, quick, keep) = T
    BY <1>1 DEF storeComplete
  <2>2. Step(S, T, X)
    BY MustStep
  <2> HIDE DEF T
  <2> QED
    BY <1>0, <1>1, <2>1, <2>2, OverStays
<1>2. CASE S.status[e] = "STORE_PENDING"
  <2> DEFINE A == Must(S, S.mem[e] = "NOT_IN_MEMORY")
             T == [A EXCEPT !.status[e] = "STORE_OK"]
             V == IF valid THEN T ELSE storeReleaseRequest(T, e)
             W == storeSwapOut(V, e, o, keep)
             H == InvokeHandlers(W, e, gone, o, quick, keep)
  <2>1. storeComplete(S, e, valid, gone, o, quick, keep) = H
    BY <1>2 DEF storeComplete
  <2>2. Step(S, A, X)
    BY MustStep
  <2> HIDE DEF A
  <2>3. Step(S, T, X) /\ T.status[e] = "STORE_OK"
    BY <2>2, StepGood, StatusStep, StepTrans
  <2> HIDE DEF T
  <2>4. Step(T, V, X)
    BY <2>3, StepGood, storeReleaseRequestStep, StepRefl
  <2> HIDE DEF V
  <2>5. Step(T, W, X)
    BY <2>3, <2>4, StepGood, OverStays, storeSwapOutStep, StepTrans
  <2> HIDE DEF W
  <2>6. Step(T, H, X)
    BY <2>3, <2>5, StepGood, OverStays, InvokeHandlersStep, StepTrans
  <2> HIDE DEF H
  <2> QED
    BY <2>1, <2>3, <2>6, OverStays, StepTrans
<1> QED
  BY <1>1, <1>2

LEMMA errorAppendEntryStep ==
    ASSUME NEW S, NEW X, Good(S, X), NEW e \in Entries, NEW gone, NEW quick, NEW keep
    PROVE  LET T == errorAppendEntry(S, e, gone, quick, keep)
           IN  Step(S, T, X) /\ T.status[e] = "STORE_OK"
<1>0. S.status \in [Entries -> {"STORE_OK", "STORE_PENDING"}]
  BY DEF Good, Store
<1>1. CASE S.status[e] # "STORE_PENDING"
  <2> DEFINE T == Must(S, Has(S, e, "ENTRY_ABORTED") /\ S.clients[e] = {})
  <2>1. errorAppendEntry(S, e, gone, quick, keep) = T
    BY <1>1 DEF errorAppendEntry
  <2>2. Step(S, T, X)
    BY MustStep
  <2> HIDE DEF T
  <2> QED
    BY <1>0, <1>1, <2>1, <2>2, OverStays
<1>2. CASE S.status[e] = "STORE_PENDING"
  <2> DEFINE h == RoleLock("error")
             L == storeLockObject(S, e, h)
             W == ClrFlag(L, e, "ENTRY_FWD_HDR_WAIT")
             R == storeReleaseRequest(W, e)
             wait == <<"wait", -1>>
             C == storeComplete(R, e, TRUE, gone, wait, quick, keep)
             T == storeUnlockObject(C, e, h, keep)
  <2>1. errorAppendEntry(S, e, gone, quick, keep) = T
    BY <1>2 DEF errorAppendEntry
  <2>2. h \in Holders /\ h # F
    BY RolesNotF DEF Roles
  <2> HIDE DEF h
  <2>3. Step(S, L, X)
    BY <2>2, storeLockObjectStep
  <2> HIDE DEF L
  <2>4. Step(S, W, X)
    <3>1. Step(L, W, X)
      BY <2>3, StepGood, FlagStep DEF Flags
    <3> QED
      BY <2>3, <3>1, StepTrans
  <2> HIDE DEF W
  <2>5. Step(S, R, X)
    BY <2>4, StepGood, storeReleaseRequestStep, StepTrans
  <2> HIDE DEF R
  <2> HIDE DEF wait
  <2>6. Step(S, C, X) /\ C.status[e] = "STORE_OK"
    <3>1. Good(R, X)
      BY <2>5, StepGood
    <3>2. Step(R, C, X) /\ C.status[e] = "STORE_OK"
      BY <3>1, storeCompleteStep
    <3> QED
      BY <2>5, <3>2, StepTrans
  <2> HIDE DEF C
  <2>7. Step(C, T, X)
    BY <2>2, <2>6, StepGood, storeUnlockObjectStep DEF Safe
  <2> HIDE DEF T
  <2> QED
    BY <2>1, <2>6, <2>7, OverStays, StepTrans
<1> QED
  BY <1>1, <1>2

LEMMA storeRequestFailedStep ==
    ASSUME NEW S, NEW X, Good(S, X), NEW e \in Entries, NEW data, NEW gone, NEW quick, NEW keep
    PROVE  LET T == storeRequestFailed(S, e, data, gone, quick, keep)
           IN  Step(S, T, X) /\ T.status[e] = "STORE_OK"
<1> DEFINE h == RoleLock("abort")
           A == Must(S, S.status[e] = "STORE_PENDING" /\ S.mem[e] # "NULL")
           L == storeLockObject(A, e, h)
           R == storeReleaseRequest(L, e)
           G == SetFlag(R, e, "ENTRY_ABORTED")
           B == IF data THEN ClrFlag(G, e, "ENTRY_FWD_HDR_WAIT")
                ELSE errorAppendEntry(R, e, Null, quick, keep)
           O == [B EXCEPT !.status[e] = "STORE_OK"]
           I == InvokeHandlers(O, e, gone, <<"wait", -1>>, quick, keep)
           C == storeSwapOutFileClose(I, e, FALSE, keep)
           T == storeUnlockObject(C, e, h, keep)
<1>1. storeRequestFailed(S, e, data, gone, quick, keep) = T
  BY DEF storeRequestFailed, GiveUp, CutOrReplace
<1>2. h \in Holders /\ h # F
  BY RolesNotF DEF Roles
<1> HIDE DEF h
<1>3. Step(S, A, X)
  BY MustStep
<1> HIDE DEF A
<1>4. Step(S, L, X)
  BY <1>2, <1>3, StepGood, storeLockObjectStep, StepTrans
<1> HIDE DEF L
<1>5. Step(S, R, X)
  BY <1>4, StepGood, storeReleaseRequestStep, StepTrans
<1> HIDE DEF R
<1>6. Step(R, G, X)
  BY <1>5, StepGood, FlagStep DEF Flags
<1> HIDE DEF G
<1>7. Step(R, ClrFlag(G, e, "ENTRY_FWD_HDR_WAIT"), X)
  <2>1. Step(G, ClrFlag(G, e, "ENTRY_FWD_HDR_WAIT"), X)
    BY <1>6, StepGood, FlagStep DEF Flags
  <2> QED
    BY <1>6, <2>1, StepTrans
<1>8. Step(S, B, X)
  BY <1>5, <1>7, StepGood, errorAppendEntryStep, StepTrans
<1> HIDE DEF B
<1>9. Step(S, O, X) /\ O.status[e] = "STORE_OK"
  BY <1>8, StepGood, StatusStep, StepTrans
<1> HIDE DEF O
<1>10. Step(O, I, X)
  BY <1>9, StepGood, InvokeHandlersStep DEF Safe
<1> HIDE DEF I
<1>11. Step(O, C, X)
  BY <1>9, <1>10, StepGood, OverStays, storeSwapOutFileCloseStep, StepTrans
<1> HIDE DEF C
<1>12. Step(O, T, X)
  BY <1>2, <1>9, <1>11, StepGood, OverStays, storeUnlockObjectStep, StepTrans
<1> HIDE DEF T
<1> QED
  BY <1>1, <1>9, <1>12, OverStays, StepTrans

(***************************************************************************)
(* The server side                                                          *)
(***************************************************************************)

\* The FwdState takes its lock on an entry that is not both cachable and to be
\* released: the entry is no longer one of those just created.
LEMMA fwdStartGood ==
    ASSUME NEW S, NEW e \in Entries, Good(S, {e}),
           ~("RELEASE_REQUEST" \in S.flags[e] /\ "ENTRY_CACHABLE" \in S.flags[e])
    PROVE  LET T == fwdStart(S, e)
           IN  Good(T, {}) /\ Keeps(S, T) /\ F \in T.lock[e]
<1> DEFINE L == storeLockObject(S, e, RoleLock("fwd"))
           G == SetFlag(L, e, "ENTRY_FWD_HDR_WAIT")
           T == [G EXCEPT !.abort[e] = "set"]
<1>0. /\ S \in Store /\ S.lock \in [Entries -> SUBSET Holders]
      /\ S.flags \in [Entries -> SUBSET Flags]
  BY DEF Good, Store
<1>1. /\ L \in Store
      /\ L.key = S.key /\ L.filen = S.filen /\ L.map = S.map
      /\ L.flags = S.flags /\ L.status = S.status
      /\ L.lock = [S.lock EXCEPT ![e] = @ \cup {F}]
  <2>1. F \in Holders
    BY RolesNotF
  <2> QED
    BY <1>0, <2>1, LockShape DEF F
<1> HIDE DEF L
<1>2. /\ G \in Store
      /\ G.key = L.key /\ G.filen = L.filen /\ G.map = L.map
      /\ G.status = L.status /\ G.lock = L.lock
      /\ G.flags = [L.flags EXCEPT ![e] = @ \cup {"ENTRY_FWD_HDR_WAIT"}]
  BY <1>1, FlagShape DEF Flags
<1> HIDE DEF G
<1>3. Quiet(G, T)
  BY <1>2, AbortQuiet
<1> HIDE DEF T
<1>4. /\ T \in Store
      /\ T.key = S.key /\ T.filen = S.filen /\ T.map = S.map /\ T.status = S.status
      /\ T.flags = [S.flags EXCEPT ![e] = @ \cup {"ENTRY_FWD_HDR_WAIT"}]
      /\ T.lock = [S.lock EXCEPT ![e] = @ \cup {F}]
  BY <1>1, <1>2, <1>3 DEF Quiet
<1>5. F \in T.lock[e] /\ \A x \in Entries \ {e} : T.lock[x] = S.lock[x] /\ T.flags[x] = S.flags[x]
  BY <1>0, <1>4
<1>6. /\ "RELEASE_REQUEST" \in T.flags[e] <=> "RELEASE_REQUEST" \in S.flags[e]
      /\ "ENTRY_CACHABLE" \in T.flags[e] <=> "ENTRY_CACHABLE" \in S.flags[e]
  BY <1>0, <1>4
<1>7. KeysUnique(T) /\ FilesOwned(T)
  BY <1>4 DEF Good, KeysUnique, FilesOwned
<1>8. Keeps(S, T)
  BY <1>4, <1>5 DEF Keeps
<1>9. ASSUME NEW x \in Entries PROVE EntryOK(T, {}, x)
  BY <1>4, <1>5, <1>6 DEF Good, EntryOK
<1>10. Good(T, {})
  BY <1>4, <1>7, <1>9 DEF Good
<1>11. T = fwdStart(S, e)
  BY DEF fwdStart, T, G, L
<1> QED
  BY <1>5, <1>8, <1>10, <1>11

\* The FwdState gives up its lock when the transfer is over; other entries'
\* server sides keep theirs.
LEMMA fwdStateFreeGood ==
    ASSUME NEW S, Good(S, {}), NEW e \in Entries, NEW server, NEW data, NEW gone,
           NEW quick, NEW keep
    PROVE  LET T == fwdStateFree(S, e, server, data, gone, quick, keep)
           IN  /\ Good(T, {})
               /\ \A x \in Entries \ {e} : F \in S.lock[x] => F \in T.lock[x]
<1> DEFINE M == Must(S, S.mem[e] # "NULL")
           R == IF S.status[e] = "STORE_PENDING"
                  THEN storeRequestFailed(M, e, data, gone, quick, keep) ELSE M
           A == Must(R, R.clients[e] # {} => ~Has(R, e, "ENTRY_FWD_HDR_WAIT"))
           B == [A EXCEPT !.abort[e] = "unset"]
           D == DropLock(B, e, F)
           U == storeUnlockObject(B, e, F, keep)
           T == IF server THEN storeUnlockObject(U, e, RoleLock("server"), keep) ELSE U
<1>1. fwdStateFree(S, e, server, data, gone, quick, keep) = T
  BY DEF fwdStateFree, httpStateFree, Unregister, F
<1>2. Step(S, M, {}) /\ M.status = S.status
  BY MustStep, MustQuiet DEF Quiet, Good
<1> HIDE DEF M
<1>3. Step(S, R, {}) /\ R.status[e] = "STORE_OK"
  <2>1. S.status[e] \in {"STORE_OK", "STORE_PENDING"}
    BY DEF Good, Store
  <2>2. Step(S, storeRequestFailed(M, e, data, gone, quick, keep), {})
        /\ storeRequestFailed(M, e, data, gone, quick, keep).status[e] = "STORE_OK"
    BY <1>2, StepGood, storeRequestFailedStep, StepTrans
  <2> QED
    BY <1>2, <2>1, <2>2
<1> HIDE DEF R
<1>4. Step(S, A, {}) /\ A.status[e] = "STORE_OK"
  <2>1. Step(R, A, {})
    BY <1>3, StepGood, MustStep
  <2> HIDE DEF A
  <2> QED
    BY <1>3, <2>1, OverStays, StepTrans
<1> HIDE DEF A
<1>5. Step(S, B, {}) /\ B.status[e] = "STORE_OK"
  <2>1. Good(A, {}) /\ A \in Store
    BY <1>4, StepGood DEF Good
  <2>2. Quiet(A, B)
    BY <2>1, AbortQuiet
  <2> HIDE DEF B
  <2>3. Step(A, B, {})
    BY <2>1, <2>2, QuietStep
  <2> QED
    BY <1>4, <2>3, OverStays, StepTrans
<1> HIDE DEF B
<1>6. Good(B, {}) /\ Safe(B, {}, e)
  BY <1>5, StepGood DEF Safe
<1>7. Step(D, U, {})
  BY <1>5, <1>6, UnlockRest
<1>8. \A x \in Entries \ {e} : F \in B.lock[x] => F \in D.lock[x]
  <2>1. B \in Store /\ B.lock \in [Entries -> SUBSET Holders]
    BY <1>6 DEF Good, Store
  <2>2. D.lock = [B.lock EXCEPT ![e] = @ \ {F}]
    BY <2>1, DropLockShape
  <2> QED
    BY <2>1, <2>2
<1> HIDE DEF D, U
<1>9. Step(U, T, {})
  <2>1. Good(U, {}) /\ Safe(U, {}, e)
    BY <1>7, StepGood DEF Safe
  <2>2. RoleLock("server") # F
    BY RolesNotF DEF Roles
  <2> QED
    BY <2>1, <2>2, storeUnlockObjectStep, StepRefl
<1> HIDE DEF T
<1> QED
  BY <1>1, <1>5, <1>7, <1>8, <1>9 DEF Step, Loses

\* An entry not asked to be released may be made cachable.
LEMMA CachableStep ==
    ASSUME NEW S, NEW X, Good(S, X), NEW e \in Entries, "RELEASE_REQUEST" \notin S.flags[e]
    PROVE  LET T == SetFlag(S, e, "ENTRY_CACHABLE")
           IN  Step(S, T, X) /\ "RELEASE_REQUEST" \notin T.flags[e]
<1> DEFINE T == SetFlag(S, e, "ENTRY_CACHABLE")
<1>1. S \in Store /\ S.flags \in [Entries -> SUBSET Flags]
  BY DEF Good, Store
<1>2. /\ T \in Store
      /\ T.key = S.key /\ T.filen = S.filen /\ T.map = S.map
      /\ T.status = S.status /\ T.lock = S.lock
      /\ T.flags = [S.flags EXCEPT ![e] = @ \cup {"ENTRY_CACHABLE"}]
  BY <1>1, FlagShape DEF Flags
<1> HIDE DEF T
<1>3. \A x \in Entries : "RELEASE_REQUEST" \in T.flags[x] => T.flags[x] = S.flags[x]
  BY <1>1, <1>2
<1>4. KeysUnique(T) /\ FilesOwned(T) /\ Loses(S, T)
  BY <1>2 DEF Good, KeysUnique, FilesOwned, Loses
<1>5. ASSUME NEW x \in Entries PROVE EntryOK(T, X, x)
  BY <1>2, <1>3 DEF Good, EntryOK
<1>6. "RELEASE_REQUEST" \notin T.flags[e]
  BY <1>1, <1>2
<1>7. Step(S, T, X)
  BY <1>2, <1>4, <1>5 DEF Step, Good
<1> QED
  BY <1>6, <1>7 DEF T

\* A cachable entry its FwdState holds is not asked to be released, so it may
\* become public.
LEMMA httpMakePublicAdvance ==
    ASSUME NEW S, NEW X, Good(S, X), NEW e \in Entries, F \in S.lock[e]
    PROVE  Advance(S, httpMakePublic(S, e), X)
<1>1. CASE Has(S, e, "ENTRY_CACHABLE")
  <2>1. "RELEASE_REQUEST" \notin S.flags[e]
    BY <1>1 DEF Has, Good, EntryOK
  <2> QED
    BY <1>1, <2>1, storeSetPublicKeyAdvance DEF httpMakePublic
<1>2. CASE ~Has(S, e, "ENTRY_CACHABLE")
  BY <1>2, StepRefl, StepAdvance DEF httpMakePublic
<1> QED
  BY <1>1, <1>2

LEMMA httpMakePrivateStep ==
    ASSUME NEW S, NEW X, Good(S, X), NEW e \in Entries
    PROVE  Step(S, httpMakePrivate(S, e), X)
  BY storeReleaseRequestStep DEF httpMakePrivate

LEMMA httpCacheNegativelyAdvance ==
    ASSUME NEW S, NEW X, Good(S, X), NEW e \in Entries, F \in S.lock[e], NEW expired
    PROVE  Advance(S, httpCacheNegatively(S, e, expired), X)
<1> DEFINE N == SetFlag(S, e, "ENTRY_NEGCACHED")
           P == httpMakePublic(N, e)
<1>1. Step(S, N, X)
  BY FlagStep DEF Flags
<1> HIDE DEF N
<1>2. Good(N, X) /\ F \in N.lock[e]
  BY <1>1 DEF Step, Loses
<1>3. Advance(S, P, X)
  BY <1>1, <1>2, httpMakePublicAdvance, StepAdvance, AdvanceTrans
<1> HIDE DEF P
<1>4. Advance(P, storeRelease(P, e), X)
  BY <1>3, AdvanceGood, storeReleaseStep, StepAdvance
<1> QED
  BY <1>3, <1>4, AdvanceTrans DEF httpCacheNegatively, ReleaseExpired, P, N

LEMMA httpMaybeRemovePublicStep ==
    ASSUME NEW S, NEW X, Good(S, X), NEW e \in Entries, NEW remove
    PROVE  Step(S, httpMaybeRemovePublic(S, e, remove), X)
<1> DEFINE old == CHOOSE pe \in Entries : S.key[pe] = S.url[e]
<1>1. CASE remove /\ S.key[e] = Private /\ \E pe \in Entries : S.key[pe] = S.url[e]
  <2>1. old \in Entries
    BY <1>1
  <2>2. httpMaybeRemovePublic(S, e, remove) = storeRelease(S, old)
    BY <1>1 DEF httpMaybeRemovePublic
  <2> HIDE DEF old
  <2> QED
    BY <2>1, <2>2, storeReleaseStep
<1>2. CASE ~(remove /\ S.key[e] = Private /\ \E pe \in Entries : S.key[pe] = S.url[e])
  <2>1. httpMaybeRemovePublic(S, e, remove) = S
    BY <1>2 DEF httpMaybeRemovePublic
  <2> QED
    BY <2>1, StepRefl
<1> QED
  BY <1>1, <1>2

LEMMA httpProcessReplyHeaderAdvance ==
    ASSUME NEW S, NEW X, Good(S, X), NEW e \in Entries, F \in S.lock[e],
           NEW verdict \in {"public", "private", "negative", "expired"}, NEW remove
    PROVE  Advance(S, httpProcessReplyHeader(S, e, verdict, remove), X)
<1> DEFINE A == Must(S, S.status[e] = "STORE_PENDING")
           V == CASE verdict = "public"  -> httpMakePublic(A, e)
                  [] verdict = "private" -> httpMakePrivate(A, e)
                  [] verdict = "negative" -> httpCacheNegatively(A, e, FALSE)
                  [] verdict = "expired" -> httpCacheNegatively(A, e, TRUE)
<1>1. Step(S, A, X)
  BY MustStep
<1> HIDE DEF A
<1>2. Good(A, X) /\ F \in A.lock[e]
  BY <1>1 DEF Step, Loses
<1>3. /\ Advance(A, httpMakePublic(A, e), X)
      /\ Advance(A, httpMakePrivate(A, e), X)
      /\ Advance(A, httpCacheNegatively(A, e, FALSE), X)
      /\ Advance(A, httpCacheNegatively(A, e, TRUE), X)
  BY <1>2, httpMakePublicAdvance, httpMakePrivateStep, httpCacheNegativelyAdvance, StepAdvance
<1>4. Advance(A, V, X)
  BY <1>3
<1> HIDE DEF V
<1>5. Advance(S, V, X)
  BY <1>1, <1>4, StepAdvance, AdvanceTrans
<1>6. Advance(V, RemoveOutdated(V, e, remove), X)
  BY <1>5, AdvanceGood, httpMaybeRemovePublicStep, StepRefl, StepAdvance DEF RemoveOutdated
<1>7. httpProcessReplyHeader(S, e, verdict, remove) = RemoveOutdated(V, e, remove)
  BY DEF httpProcessReplyHeader, ApplyVerdict, V, A
<1> QED
  BY <1>5, <1>6, <1>7, AdvanceTrans

LEMMA storeBufferFlushStep ==
    ASSUME NEW S, NEW X, Good(S, X), NEW e \in Entries, Safe(S, X, e),
           NEW gone, NEW o, NEW quick, NEW keep
    PROVE  Step(S, storeBufferFlush(S, e, gone, o, quick, keep), X)
<1> DEFINE wait == <<"wait", -1>>
           I == InvokeHandlers(S, e, gone, wait, quick, keep)
<1> HIDE DEF wait
<1>1. Step(S, I, X)
  BY InvokeHandlersStep
<1> HIDE DEF I
<1>2. Step(I, storeSwapOut(I, e, o, keep), X)
  BY <1>1, StepGood, StepSafe, storeSwapOutStep
<1> QED
  BY <1>1, <1>2, StepTrans DEF storeBufferFlush, I, wait

\* Before it is cachable again the entry has lost its request to be released.
LEMMA ReforwardStep ==
    ASSUME NEW S, NEW X, Good(S, X), NEW e \in Entries
    PROVE  Step(S, Reforward(S, e), X)
<1> DEFINE R == Must(S, S.status[e] = "STORE_PENDING" /\ ~S.sio[e])
           P == storeSetPrivateKey(R, e)
           G == ClrFlag(P, e, "ENTRY_NEGCACHED")
           N == IF Has(R, e, "ENTRY_NEGCACHED") THEN ClrFlag(G, e, "KEY_EARLY_PUBLIC") ELSE R
           H == ClrFlag(N, e, "RELEASE_REQUEST")
           Q == IF Has(N, e, "RELEASE_REQUEST") THEN ClrFlag(H, e, "KEY_EARLY_PUBLIC") ELSE N
<1>1. Step(S, R, X)
  BY MustStep
<1> HIDE DEF R
<1>2. Step(S, P, X)
  BY <1>1, StepGood, storeSetPrivateKeyStep, StepTrans
<1> HIDE DEF P
<1>3. Step(S, G, X)
  BY <1>2, StepGood, FlagStep, StepTrans DEF Flags
<1> HIDE DEF G
<1>4. Step(S, ClrFlag(G, e, "KEY_EARLY_PUBLIC"), X)
  BY <1>3, StepGood, FlagStep, StepTrans DEF Flags
<1>5. Step(S, N, X) /\ N \in Store /\ N.flags \in [Entries -> SUBSET Flags]
  <2>1. Step(S, N, X)
    BY <1>1, <1>4
  <2> QED
    BY <2>1 DEF Step, Good, Store
<1> HIDE DEF N
<1>6. Step(S, H, X) /\ H \in Store /\ H.flags = [N.flags EXCEPT ![e] = @ \ {"RELEASE_REQUEST"}]
  <2>1. Step(N, H, X)
    BY <1>5, StepGood, FlagStep DEF Flags
  <2>2. H \in Store /\ H.flags = [N.flags EXCEPT ![e] = @ \ {"RELEASE_REQUEST"}]
    BY <1>5, FlagShape DEF Flags
  <2> QED
    BY <1>5, <2>1, <2>2, StepTrans
<1> HIDE DEF H
<1>7. /\ Step(S, ClrFlag(H, e, "KEY_EARLY_PUBLIC"), X)
      /\ "RELEASE_REQUEST" \notin ClrFlag(H, e, "KEY_EARLY_PUBLIC").flags[e]
  <2>1. Step(H, ClrFlag(H, e, "KEY_EARLY_PUBLIC"), X)
    BY <1>6, StepGood, FlagStep DEF Flags
  <2>2. ClrFlag(H, e, "KEY_EARLY_PUBLIC").flags = [H.flags EXCEPT ![e] = @ \ {"KEY_EARLY_PUBLIC"}]
    BY <1>6, FlagShape DEF Flags
  <2> QED
    BY <1>5, <1>6, <2>1, <2>2, StepTrans
<1>8. Step(S, Q, X) /\ "RELEASE_REQUEST" \notin Q.flags[e]
  BY <1>5, <1>7 DEF Has
<1> HIDE DEF Q
<1>9. Step(Q, SetFlag(Q, e, "ENTRY_CACHABLE"), X)
  BY <1>8, StepGood, CachableStep
<1>10. Step(S, SetFlag(Q, e, "ENTRY_CACHABLE"), X)
  BY <1>8, <1>9, StepTrans
<1> QED
  BY <1>8, <1>10 DEF Reforward, Q, H, N, G, P, R

(***************************************************************************)
(* Creating an entry                                                        *)
(***************************************************************************)

\* storeSetPublicKey needs the URL of the new entry: what happens to other
\* entries on the way does not touch it.
LEMMA KeyUrl ==
    ASSUME NEW S \in Store, NEW e \in Entries
    PROVE  /\ \A p : Must(S, p).url = S.url
           /\ \A op : storeDirSwapLog(S, e, op).url = S.url
           /\ storeSetPrivateKey(S, e).url = S.url
<1>1. ASSUME NEW R \in Store, NEW p, NEW L
      PROVE  /\ Must(R, p).url = R.url
             /\ [Must(R, p) EXCEPT !.log = L].url = R.url
  BY DEF Must, Store
<1>2. ASSUME NEW op PROVE storeDirSwapLog(S, e, op).url = S.url
  BY <1>1 DEF storeDirSwapLog
<1>3. ASSUME NEW R \in Store PROVE [R EXCEPT !.key[e] = Private].url = R.url
  BY DEF Store
<1>4. storeDirSwapLog(S, e, "DEL") \in Store
  BY storeDirSwapLogQuiet DEF Quiet
<1>5. storeSetPrivateKey(S, e).url = S.url
  BY <1>2, <1>3, <1>4 DEF storeSetPrivateKey
<1> QED
  BY <1>1, <1>2, <1>5

LEMMA FlagUrl ==
    ASSUME NEW S \in Store, NEW e \in Entries, NEW f \in Flags
    PROVE  /\ SetFlag(S, e, f) \in Store /\ SetFlag(S, e, f).url = S.url
           /\ ClrFlag(S, e, f) \in Store /\ ClrFlag(S, e, f).url = S.url
  BY DEF SetFlag, ClrFlag, Store

LEMMA storeReleaseRequestUrl ==
    ASSUME NEW S \in Store, NEW e \in Entries
    PROVE  storeReleaseRequest(S, e).url = S.url
<1> DEFINE A == ClrFlag(S, e, "ENTRY_CACHABLE")
           B == SetFlag(A, e, "RELEASE_REQUEST")
<1>1. A \in Store /\ A.url = S.url
  BY FlagUrl DEF Flags
<1> HIDE DEF A
<1>2. B \in Store /\ B.url = S.url
  BY <1>1, FlagUrl DEF Flags
<1> HIDE DEF B
<1>3. storeSetPrivateKey(B, e).url = S.url
  BY <1>2, KeyUrl
<1> QED
  BY <1>3 DEF storeReleaseRequest, A, B

LEMMA destroyUrl ==
    ASSUME NEW S \in Store, NEW e \in Entries
    PROVE  /\ destroy_MemObject(S, e).url = [S.url EXCEPT ![e] = NoKey]
           /\ destroy_StoreEntry(S, e).url = [S.url EXCEPT ![e] = NoKey]
<1>1. ASSUME NEW R \in Store
      PROVE  [R EXCEPT !.mem[e] = "NULL", !.sio[e] = FALSE, !.url[e] = NoKey,
                       !.clients[e] = {}, !.abort[e] = "unset"].url = [R.url EXCEPT ![e] = NoKey]
  BY DEF Store
<1>2. ASSUME NEW R \in Store
      PROVE  [R EXCEPT !.key[e] = NoKey, !.lock[e] = {}, !.flags[e] = {},
                       !.status[e] = "STORE_OK", !.swap[e] = "SWAPOUT_NONE",
                       !.filen[e] = -1].url = R.url
  BY DEF Store
<1>3. Must(S, ~S.sio[e]) \in Store /\ Must(S, ~S.sio[e]).url = S.url
  BY MustQuiet, KeyUrl DEF Quiet
<1>4. destroy_MemObject(S, e).url = [S.url EXCEPT ![e] = NoKey]
  BY <1>1, <1>3 DEF destroy_MemObject
<1>5. destroy_MemObject(S, e) \in Store
  BY destroy_MemObjectQuiet DEF Quiet
<1> QED
  BY <1>2, <1>4, <1>5 DEF destroy_StoreEntry

LEMMA storeReleaseUrl ==
    ASSUME NEW S \in Store, NEW e \in Entries
    PROVE  \A x \in Entries \ {e} : storeRelease(S, e).url[x] = S.url[x]
<1>0. S.url \in [Entries -> Keys \cup {NoKey}]
  BY DEF Store
<1>1. \A x \in Entries \ {e} : LateRelease(S, e).url[x] = S.url[x]
  <2> DEFINE P == storeSetPrivateKey(S, e)
             D == IF P.mem[e] # "NULL" THEN destroy_MemObject(P, e) ELSE P
             R == SetFlag(D, e, "RELEASE_REQUEST")
  <2>1. P \in Store /\ P.url = S.url
    BY storeSetPrivateKeyShape, KeyUrl
  <2> HIDE DEF P
  <2>2. D \in Store /\ \A x \in Entries \ {e} : D.url[x] = S.url[x]
    <3>1. destroy_MemObject(P, e) \in Store
      BY <2>1, destroy_MemObjectQuiet DEF Quiet
    <3>2. destroy_MemObject(P, e).url = [P.url EXCEPT ![e] = NoKey]
      BY <2>1, destroyUrl
    <3> QED
      BY <1>0, <2>1, <3>1, <3>2
  <2> HIDE DEF D
  <2>3. R \in Store /\ R.url = D.url
    BY <2>2, FlagUrl DEF Flags
  <2> HIDE DEF R
  <2>4. [R EXCEPT !.lock[e] = @ \cup {RoleLock("late")}, !.late = @ \cup {e}].url = R.url
    BY <2>3 DEF Store
  <2> QED
    BY <2>2, <2>3, <2>4 DEF LateRelease, FreeMem, R, D, P
<1>2. \A x \in Entries \ {e} : Discard(S, e).url[x] = S.url[x]
  <2> DEFINE V == storeUnlink(S, e)
             U == IF S.filen[e] # -1
                    THEN [V EXCEPT !.size = IF S.swap[e] = "SWAPOUT_DONE" /\ Has(S, e, "ENTRY_VALIDATED")
                                              THEN @ - 1 ELSE @]
                    ELSE S
             L == IF S.filen[e] # -1 /\ S.key[e] # Private THEN storeDirSwapLog(U, e, "DEL") ELSE U
  <2>1. V \in Store /\ V.url = S.url /\ V.size \in Int
    BY DEF storeUnlink, Store
  <2> HIDE DEF V
  <2>2. ASSUME NEW n \in Int
        PROVE  [V EXCEPT !.size = n] \in Store /\ [V EXCEPT !.size = n].url = V.url
    BY <2>1 DEF Store
  <2>3. U \in Store /\ U.url = S.url
    <3>1. (IF S.swap[e] = "SWAPOUT_DONE" /\ Has(S, e, "ENTRY_VALIDATED")
             THEN V.size - 1 ELSE V.size) \in Int
      BY <2>1
    <3> QED
      BY <2>1, <2>2, <3>1
  <2> HIDE DEF U
  <2>4. L \in Store /\ L.url = S.url
    BY <2>3, storeDirSwapLogQuiet, KeyUrl DEF Quiet
  <2> HIDE DEF L
  <2>5. destroy_StoreEntry(L, e).url = [S.url EXCEPT ![e] = NoKey]
    BY <2>4, destroyUrl
  <2>6. Discard(S, e) = destroy_StoreEntry(L, e)
    BY DEF Discard, L, U, V
  <2> QED
    BY <1>0, <2>5, <2>6
<1> QED
  BY <1>1, <1>2, storeReleaseRequestUrl DEF storeRelease

LEMMA KickOutUrl ==
    ASSUME NEW S \in Store, NEW e \in Entries, NEW k, S.key[e] # k
    PROVE  KickOut(S, k).url[e] = S.url[e]
<1>1. CASE \E x \in Entries : S.key[x] = k
  <2> DEFINE e2 == CHOOSE x \in Entries : S.key[x] = k
             R == storeSetPrivateKey(S, e2)
  <2>1. e2 \in Entries /\ e2 # e
    BY <1>1
  <2>2. KickOut(S, k) = storeRelease(R, e2)
    BY <1>1 DEF KickOut
  <2> HIDE DEF e2
  <2>3. R \in Store /\ R.url = S.url
    BY <2>1, storeSetPrivateKeyShape, KeyUrl
  <2> HIDE DEF R
  <2> QED
    BY <2>1, <2>2, <2>3, storeReleaseUrl
<1>2. CASE ~\E x \in Entries : S.key[x] = k
  BY <1>2 DEF KickOut
<1> QED
  BY <1>1, <1>2

LEMMA storeSetPublicKeyUrl ==
    ASSUME NEW S, NEW X, Good(S, X), NEW e \in Entries, S.url[e] \in Keys
    PROVE  storeSetPublicKey(S, e).url[e] = S.url[e]
<1> DEFINE early == Public(S, e) /\ Has(S, e, "KEY_EARLY_PUBLIC")
           C == ClrFlag(S, e, "KEY_EARLY_PUBLIC")
           R == IF early THEN storeSetPrivateKey(C, e) ELSE S
           A == Must(R, R.mem[e] # "NULL" /\ ~Has(R, e, "RELEASE_REQUEST"))
           k == S.url[e]
           O == KickOut(A, k)
           K == [O EXCEPT !.key[e] = k]
           T == IF K.filen[e] # -1 THEN storeDirSwapLog(K, e, "ADD") ELSE K
<1>0. /\ S \in Store /\ k \in Keys
      /\ S.key \in [Entries -> Keys \cup {Private, NoKey}]
  BY DEF Good, Store
<1>1. CASE Public(S, e) /\ ~early
  BY <1>1 DEF storeSetPublicKey
<1>2. CASE ~(Public(S, e) /\ ~early)
  <2>1. storeSetPublicKey(S, e) = T
    BY <1>2 DEF storeSetPublicKey, MayBePublic, LogNewKey
  <2>2. k = S.url[e]
    OBVIOUS
  <2> HIDE DEF k
  <2>3. C \in Store /\ C.url = S.url /\ C.key = S.key
    BY <1>0, FlagUrl, FlagShape DEF Flags
  <2>4. Step(S, C, X)
    BY FlagStep DEF Flags
  <2> HIDE DEF C
  <2>5. Step(S, R, X) /\ R.url = S.url /\ R.key[e] \notin Keys
    <3>1. CASE early
      <4>1. Good(C, X)
        BY <2>4, StepGood
      <4>2. Step(S, storeSetPrivateKey(C, e), X)
        BY <2>4, <4>1, storeSetPrivateKeyStep, StepTrans
      <4>3. storeSetPrivateKey(C, e).key = [C.key EXCEPT ![e] = Private]
        BY <2>3, storeSetPrivateKeyShape
      <4>4. storeSetPrivateKey(C, e).url = S.url
        BY <2>3, KeyUrl
      <4> QED
        BY <1>0, <2>3, <3>1, <4>2, <4>3, <4>4, KeysAssumption
    <3>2. CASE ~early
      BY <1>2, <3>2, StepRefl DEF Public
    <3> QED
      BY <3>1, <3>2
  <2> HIDE DEF R
  <2>6. Good(A, X) /\ A.url = S.url /\ A.key[e] \notin Keys
    <3>1. Good(R, X) /\ R \in Store
      BY <2>5, StepGood DEF Good
    <3>2. Step(R, A, X) /\ Quiet(R, A)
      BY <3>1, MustStep, MustQuiet
    <3>3. A.url = R.url
      BY <3>1, KeyUrl
    <3> QED
      BY <2>5, <3>2, <3>3, StepGood DEF Quiet
  <2> HIDE DEF A
  <2>7. O.url[e] = k
    <3>1. A \in Store /\ A.key[e] # k
      BY <1>0, <2>6 DEF Good
    <3> QED
      BY <2>2, <2>6, <3>1, KickOutUrl
  <2>8. O \in Store
    BY <2>6, KickOutStep DEF Step, Good
  <2> HIDE DEF O
  <2>9. K \in Store /\ K.url = O.url
    BY <1>0, <2>8 DEF Store
  <2> HIDE DEF K
  <2>10. storeDirSwapLog(K, e, "ADD").url = O.url
    BY <2>9, KeyUrl
  <2> QED
    BY <2>1, <2>2, <2>7, <2>9, <2>10
<1> QED
  BY <1>1, <1>2

\* A structure taken from the pool
LEMMA new_StoreEntryGood ==
    ASSUME NEW S, Good(S, {}), NEW e \in Entries, S.key[e] = NoKey,
           NEW k \in Keys, NEW c \in Clients
    PROVE  LET T == new_StoreEntry(S, e, k, c)
           IN  /\ Good(T, {})
               /\ T.flags[e] = {} /\ T.url[e] = k
               /\ \A x \in Entries \ {e} : F \in S.lock[x] => F \in T.lock[x]
<1> DEFINE T == new_StoreEntry(S, e, k, c)
<1>0. /\ S \in Store /\ S.key \in [Entries -> Keys \cup {Private, NoKey}]
      /\ S.filen \in [Entries -> Files \cup {-1}]
      /\ S.flags \in [Entries -> SUBSET Flags]
      /\ S.status \in [Entries -> {"STORE_OK", "STORE_PENDING"}]
      /\ S.lock \in [Entries -> SUBSET Holders]
      /\ S.url \in [Entries -> Keys \cup {NoKey}]
  BY DEF Good, Store
<1>1. HttpLock(c) \in Holders /\ HttpLock(c) # F
  BY RolesNotF
<1>2. ASSUME NEW H \in SUBSET Holders
      PROVE  LET Q == [S EXCEPT !.flags[e] = {}, !.status[e] = "STORE_OK",
                         !.swap[e] = "SWAPOUT_NONE", !.filen[e] = -1,
                         !.mem[e] = "NOT_IN_MEMORY", !.url[e] = k, !.lock[e] = H]
             IN  /\ Q \in Store
                 /\ Q.key = S.key /\ Q.map = S.map
                 /\ Q.filen = [S.filen EXCEPT ![e] = -1]
                 /\ Q.flags = [S.flags EXCEPT ![e] = {}]
                 /\ Q.status = [S.status EXCEPT ![e] = "STORE_OK"]
                 /\ Q.url = [S.url EXCEPT ![e] = k]
                 /\ Q.lock = [S.lock EXCEPT ![e] = H]
  <2> DEFINE Q == [S EXCEPT !.flags[e] = {}, !.status[e] = "STORE_OK",
                         !.swap[e] = "SWAPOUT_NONE", !.filen[e] = -1,
                         !.mem[e] = "NOT_IN_MEMORY", !.url[e] = k, !.lock[e] = H]
  <2>1. Q \in Store
    BY <1>0 DEF Store
  <2>2. /\ Q.key = S.key /\ Q.map = S.map
        /\ Q.filen = [S.filen EXCEPT ![e] = -1]
        /\ Q.flags = [S.flags EXCEPT ![e] = {}]
        /\ Q.status = [S.status EXCEPT ![e] = "STORE_OK"]
        /\ Q.url = [S.url EXCEPT ![e] = k]
        /\ Q.lock = [S.lock EXCEPT ![e] = H]
    BY <1>0 DEF Store
  <2> QED
    BY <2>1, <2>2
<1>3. /\ T \in Store
      /\ T.key = S.key /\ T.map = S.map
      /\ T.filen = [S.filen EXCEPT ![e] = -1]
      /\ T.flags = [S.flags EXCEPT ![e] = {}]
      /\ T.status = [S.status EXCEPT ![e] = "STORE_OK"]
      /\ T.url = [S.url EXCEPT ![e] = k]
      /\ T.lock = [S.lock EXCEPT ![e] = {HttpLock(c)}]
  BY <1>1, <1>2 DEF new_StoreEntry
<1> HIDE DEF T
<1>4. T.flags[e] = {} /\ T.url[e] = k /\ T.status[e] = "STORE_OK"
  BY <1>0, <1>3
<1>5. \A x \in Entries \ {e} : /\ T.flags[x] = S.flags[x] /\ T.status[x] = S.status[x]
                               /\ T.lock[x] = S.lock[x]
  BY <1>0, <1>3
<1>6. KeysUnique(T)
  BY <1>3 DEF Good, KeysUnique
<1>7. FilesOwned(T)
  BY <1>0, <1>3 DEF Good, FilesOwned
<1>8. ASSUME NEW x \in Entries PROVE EntryOK(T, {}, x)
  BY <1>3, <1>4, <1>5 DEF Good, EntryOK
<1>9. Good(T, {})
  BY <1>3, <1>6, <1>7, <1>8 DEF Good
<1> QED
  BY <1>4, <1>5, <1>9 DEF T

LEMMA storeReleaseRequestFlags ==
    ASSUME NEW S \in Store, NEW e \in Entries, "RELEASE_REQUEST" \notin S.flags[e]
    PROVE  "ENTRY_CACHABLE" \notin storeReleaseRequest(S, e).flags[e]
<1> DEFINE A == ClrFlag(S, e, "ENTRY_CACHABLE")
           B == SetFlag(A, e, "RELEASE_REQUEST")
<1>0. S.flags \in [Entries -> SUBSET Flags]
  BY DEF Store
<1>1. A \in Store /\ A.flags = [S.flags EXCEPT ![e] = @ \ {"ENTRY_CACHABLE"}]
  BY FlagShape DEF Flags
<1> HIDE DEF A
<1>2. B \in Store /\ B.flags = [A.flags EXCEPT ![e] = @ \cup {"RELEASE_REQUEST"}]
  BY <1>1, FlagShape DEF Flags
<1>3. "ENTRY_CACHABLE" \notin B.flags[e]
  BY <1>0, <1>1, <1>2
<1> HIDE DEF B
<1>4. storeSetPrivateKey(B, e).flags = B.flags
  BY <1>2, storeSetPrivateKeyShape
<1>5. storeReleaseRequest(S, e) = storeSetPrivateKey(B, e)
  BY DEF storeReleaseRequest, Has, A, B
<1> QED
  BY <1>3, <1>4, <1>5

\* The transfer of a new entry begins: nobody but its creator knows of it yet.
LEMMA PendingGood ==
    ASSUME NEW S, NEW e \in Entries, Good(S, {})
    PROVE  LET T == [S EXCEPT !.status[e] = "STORE_PENDING"]
           IN  Good(T, {e}) /\ T.flags = S.flags /\ T.lock = S.lock /\ T.url = S.url
<1> DEFINE T == [S EXCEPT !.status[e] = "STORE_PENDING"]
<1>0. S \in Store /\ S.status \in [Entries -> {"STORE_OK", "STORE_PENDING"}]
  BY DEF Good, Store
<1>1. /\ T \in Store
      /\ T.key = S.key /\ T.filen = S.filen /\ T.map = S.map
      /\ T.flags = S.flags /\ T.lock = S.lock /\ T.url = S.url
      /\ T.status = [S.status EXCEPT ![e] = "STORE_PENDING"]
  BY <1>0 DEF Store
<1> HIDE DEF T
<1>2. KeysUnique(T) /\ FilesOwned(T)
  BY <1>1 DEF Good, KeysUnique, FilesOwned
<1>3. ASSUME NEW x \in Entries PROVE EntryOK(T, {e}, x)
  BY <1>0, <1>1 DEF Good, EntryOK
<1>4. Good(T, {e})
  BY <1>1, <1>2, <1>3 DEF Good
<1> QED
  BY <1>1, <1>4 DEF T

LEMMA storeCreateEntryGood ==
    ASSUME NEW S, Good(S, {}), NEW e \in Entries, S.key[e] = NoKey,
           NEW k \in Keys, NEW c \in Clients,
           NEW cachable \in BOOLEAN, NEW hierarchical \in BOOLEAN
    PROVE  LET T == storeCreateEntry(S, e, k, cachable, hierarchical, c)
           IN  /\ Good(T, {e})
               /\ T.url[e] \in Keys
               /\ cachable => "RELEASE_REQUEST" \notin T.flags[e]
               /\ ~("RELEASE_REQUEST" \in T.flags[e] /\ "ENTRY_CACHABLE" \in T.flags[e])
               /\ \A x \in Entries \ {e} : F \in S.lock[x] => F \in T.lock[x]
<1> DEFINE N == new_StoreEntry(S, e, k, c)
           K == IF k \in VideoKeys THEN storeSetPublicKey(N, e)
                ELSE IF NeighborsDoPrivateKeys \/ ~hierarchical THEN storeSetPrivateKey(N, e)
                ELSE storeSetPublicKey(N, e)
           C == IF cachable THEN SetFlag(K, e, "ENTRY_CACHABLE") ELSE storeReleaseRequest(K, e)
           V == SetFlag(C, e, "ENTRY_VALIDATED")
           T == [V EXCEPT !.status[e] = "STORE_PENDING"]
<1>0. T = storeCreateEntry(S, e, k, cachable, hierarchical, c)
  BY DEF storeCreateEntry, StartCachable
<1>1. /\ Good(N, {}) /\ N \in Store
      /\ "RELEASE_REQUEST" \notin N.flags[e] /\ N.url[e] = k
      /\ \A x \in Entries \ {e} : F \in S.lock[x] => F \in N.lock[x]
  BY new_StoreEntryGood DEF Good
<1> HIDE DEF N
<1>2. /\ Advance(N, storeSetPublicKey(N, e), {})
      /\ "RELEASE_REQUEST" \notin storeSetPublicKey(N, e).flags[e]
      /\ storeSetPublicKey(N, e).url[e] = k
  BY <1>1, storeSetPublicKeyAdvance, storeSetPublicKeyUrl
<1>3. /\ Advance(N, storeSetPrivateKey(N, e), {})
      /\ "RELEASE_REQUEST" \notin storeSetPrivateKey(N, e).flags[e]
      /\ storeSetPrivateKey(N, e).url[e] = k
  <2>1. Step(N, storeSetPrivateKey(N, e), {})
    BY <1>1, storeSetPrivateKeyStep
  <2>2. storeSetPrivateKey(N, e).flags = N.flags
    BY <1>1, storeSetPrivateKeyShape
  <2>3. storeSetPrivateKey(N, e).url = N.url
    BY <1>1, KeyUrl
  <2> QED
    BY <1>1, <2>1, <2>2, <2>3, StepAdvance
<1>4. Advance(N, K, {}) /\ "RELEASE_REQUEST" \notin K.flags[e] /\ K.url[e] = k
  BY <1>2, <1>3
<1> HIDE DEF K
<1>5. Good(K, {}) /\ K \in Store
  BY <1>4, AdvanceGood DEF Good
<1>6. /\ Step(K, C, {}) /\ C.url[e] = k
      /\ cachable => "RELEASE_REQUEST" \notin C.flags[e]
      /\ ~("RELEASE_REQUEST" \in C.flags[e] /\ "ENTRY_CACHABLE" \in C.flags[e])
  <2>1. CASE cachable
    <3>1. Step(K, SetFlag(K, e, "ENTRY_CACHABLE"), {})
          /\ "RELEASE_REQUEST" \notin SetFlag(K, e, "ENTRY_CACHABLE").flags[e]
      BY <1>4, <1>5, CachableStep
    <3>2. SetFlag(K, e, "ENTRY_CACHABLE").url = K.url
      BY <1>5, FlagUrl DEF Flags
    <3> QED
      BY <1>4, <2>1, <3>1, <3>2
  <2>2. CASE ~cachable
    <3>1. Step(K, storeReleaseRequest(K, e), {})
      BY <1>5, storeReleaseRequestStep
    <3>2. storeReleaseRequest(K, e).url = K.url
      BY <1>5, storeReleaseRequestUrl
    <3>3. "ENTRY_CACHABLE" \notin storeReleaseRequest(K, e).flags[e]
      BY <1>4, <1>5, storeReleaseRequestFlags
    <3> QED
      BY <1>4, <2>2, <3>1, <3>2, <3>3
  <2> QED
    BY <2>1, <2>2
<1> HIDE DEF C
<1>7. Good(C, {}) /\ C \in Store /\ C.flags \in [Entries -> SUBSET Flags]
  BY <1>6, StepGood DEF Good, Store
<1>8. Step(C, V, {}) /\ V.url[e] = k /\ V.flags = [C.flags EXCEPT ![e] = @ \cup {"ENTRY_VALIDATED"}]
  <2>1. Step(C, V, {})
    BY <1>7, FlagStep DEF Flags
  <2>2. V.url = C.url
    BY <1>7, FlagUrl DEF Flags
  <2>3. V.flags = [C.flags EXCEPT ![e] = @ \cup {"ENTRY_VALIDATED"}]
    BY <1>7, FlagShape DEF Flags
  <2> QED
    BY <1>6, <2>1, <2>2, <2>3
<1>9. /\ cachable => "RELEASE_REQUEST" \notin V.flags[e]
      /\ ~("RELEASE_REQUEST" \in V.flags[e] /\ "ENTRY_CACHABLE" \in V.flags[e])
  BY <1>6, <1>7, <1>8
<1>10. \A x \in Entries \ {e} : F \in S.lock[x] => F \in V.lock[x]
  BY <1>1, <1>4, <1>6, <1>8 DEF Advance, Keeps, Step, Loses
<1> HIDE DEF V
<1>11. Good(T, {e}) /\ T.flags = V.flags /\ T.lock = V.lock /\ T.url = V.url
  BY <1>8, StepGood, PendingGood
<1> HIDE DEF T
<1> QED
  BY <1>0, <1>8, <1>9, <1>10, <1>11

LEMMA storeClientRegisterUrl ==
    ASSUME NEW S \in Store, NEW e \in Entries, NEW c \in Clients
    PROVE  storeClientRegister(S, e, c).url = S.url
<1> DEFINE M == Must(S, S.mem[e] # "NULL")
           N == Must(M, ScLock(c) \notin M.lock[e])
           L == storeLockObject(M, e, ScLock(c))
<1>1. M \in Store /\ M.url = S.url
  BY MustQuiet, KeyUrl DEF Quiet
<1> HIDE DEF M
<1>2. N \in Store /\ N.url = M.url
  BY <1>1, MustQuiet, KeyUrl DEF Quiet
<1> HIDE DEF N
<1>3. L \in Store /\ L.url = N.url
  <2>1. L \in Store
    BY <1>1, RolesNotF, LockShape
  <2>2. L = [N EXCEPT !.lock[e] = @ \cup {ScLock(c)}]
    BY DEF storeLockObject, N
  <2> QED
    BY <1>2, <2>1, <2>2 DEF Store
<1> HIDE DEF L
<1>4. [L EXCEPT !.clients[e] = @ \cup {c}].url = L.url
  BY <1>3 DEF Store
<1> QED
  BY <1>1, <1>2, <1>3, <1>4 DEF storeClientRegister, L, M

(***************************************************************************)
(* Rebuilding the index                                                     *)
(***************************************************************************)

\* A file no entry owns becomes an entry under a key no entry has.
LEMMA AddDiskRestoreGood ==
    ASSUME NEW S, Good(S, {}), NEW e \in Entries, NEW k \in Keys, NEW f \in Files,
           f \notin S.map, \A x \in Entries : S.key[x] # k
    PROVE  LET T == storeUfsDirAddDiskRestore(S, e, k, f)
           IN  Good(T, {}) /\ T.lock = S.lock
<1> DEFINE T == [S EXCEPT !.key[e] = k, !.filen[e] = f, !.swap[e] = "SWAPOUT_DONE",
                          !.flags[e] = {"ENTRY_CACHABLE"}, !.map = @ \cup {f}]
<1>0. /\ S \in Store /\ S.key \in [Entries -> Keys \cup {Private, NoKey}]
      /\ S.filen \in [Entries -> Files \cup {-1}]
      /\ S.flags \in [Entries -> SUBSET Flags] /\ S.map \in SUBSET Files
      /\ f # -1
  BY FilesAssumption DEF Good, Store
<1>1. T \in Store
  <2>1. {"ENTRY_CACHABLE"} \in SUBSET Flags /\ S.map \cup {f} \in SUBSET Files
    BY <1>0 DEF Flags
  <2>2. ASSUME NEW H \in SUBSET Flags, NEW M \in SUBSET Files
        PROVE  [S EXCEPT !.key[e] = k, !.filen[e] = f, !.swap[e] = "SWAPOUT_DONE",
                         !.flags[e] = H, !.map = M] \in Store
    BY <1>0 DEF Store
  <2> QED
    BY <2>1, <2>2
<1>2. /\ T.key = [S.key EXCEPT ![e] = k] /\ T.filen = [S.filen EXCEPT ![e] = f]
      /\ T.flags = [S.flags EXCEPT ![e] = {"ENTRY_CACHABLE"}]
      /\ T.map = S.map \cup {f}
      /\ T.status = S.status /\ T.lock = S.lock
  BY <1>0 DEF Store
<1> HIDE DEF T
<1>3. KeysUnique(T)
  BY <1>0, <1>2, KeysAssumption DEF Good, KeysUnique
<1>4. FilesOwned(T)
  BY <1>0, <1>2 DEF Good, FilesOwned
<1>5. ASSUME NEW x \in Entries PROVE EntryOK(T, {}, x)
  <2>1. x # e => T.flags[x] = S.flags[x] /\ T.key[x] = S.key[x]
    BY <1>0, <1>2
  <2>2. "RELEASE_REQUEST" \notin T.flags[e]
    BY <1>0, <1>2
  <2> QED
    BY <1>2, <2>1, <2>2 DEF Good, EntryOK
<1>6. Good(T, {})
  BY <1>1, <1>3, <1>4, <1>5 DEF Good
<1>7. Step(T, storeDirSwapLog(T, e, "ADD"), {}) /\ storeDirSwapLog(T, e, "ADD").lock = T.lock
  BY <1>1, <1>6, storeDirSwapLogStep, storeDirSwapLogQuiet DEF Quiet
<1> QED
  BY <1>2, <1>7, StepGood DEF storeUfsDirAddDiskRestore, T

(***************************************************************************)
(* The inductive invariant                                                  *)
(***************************************************************************)
FwdHolds == \A e \in Entries : fwd[e] # "none" => F \in st.lock[e]

OthersTyped ==
    /\ http \in [Clients -> Entries \cup {Null}]
    /\ hit \in [Clients -> BOOLEAN]
    /\ fwd \in [Entries -> {"none", "connect", "sent", "body"}]
    /\ orig \in [Entries -> BOOLEAN]

IndInv == Good(st, {}) /\ OthersTyped /\ FwdHolds

LEMMA InitInd == Init => IndInv
<1> SUFFICES ASSUME Init PROVE IndInv
  OBVIOUS
<1>1. st \in Store
  BY DEF Init, Store
<1>2. /\ \A e \in Entries : /\ st.key[e] = NoKey /\ st.filen[e] = -1 /\ st.flags[e] = {}
                            /\ st.status[e] = "STORE_OK"
      /\ \A e \in Entries : fwd[e] = "none"
  BY DEF Init
<1>3. Good(st, {})
  BY <1>1, <1>2, KeysAssumption DEF Good, KeysUnique, FilesOwned, EntryOK
<1>4. OthersTyped
  BY DEF Init, OthersTyped
<1> QED
  BY <1>2, <1>3, <1>4 DEF IndInv, FwdHolds

\* The two ways a step changes the rest of the state
LEMMA DropClientTyped ==
    ASSUME IndInv, NEW e \in Entries, NEW gone \in Gone(e), DropClient(gone)
    PROVE  /\ http' \in [Clients -> Entries \cup {Null}]
           /\ hit' \in [Clients -> BOOLEAN]
<1>1. gone \in Clients \cup {Null}
  BY DEF Gone, IndInv, Good, Store
<1> QED
  BY <1>1 DEF DropClient, IndInv, OthersTyped

LEMMA FwdBecomesTyped ==
    ASSUME IndInv, NEW e \in Entries, NEW s \in {"none", "connect", "sent", "body"},
           FwdBecomes(e, s)
    PROVE  /\ fwd' \in [Entries -> {"none", "connect", "sent", "body"}]
           /\ orig' \in [Entries -> BOOLEAN]
           /\ fwd'[e] = s /\ \A x \in Entries \ {e} : fwd'[x] = fwd[x]
  BY DEF FwdBecomes, IndInv, OthersTyped

LEMMA StepKeepsInd ==
    ASSUME IndInv, Step(st, st', {}), UNCHANGED <<http, hit, fwd, orig>>
    PROVE  IndInv'
  BY DEF IndInv, OthersTyped, FwdHolds, Step, Loses

LEMMA ClientHitInd ==
    ASSUME IndInv, NEW c \in Clients, NEW k \in Keys, ClientHit(c, k)
    PROVE  IndInv'
<1>1. PICK e \in Entries : ClientHit(c, k)!(e)
  BY DEF ClientHit
<1> DEFINE L == storeLockObject(st, e, HttpLock(c))
           N == [L EXCEPT !.mem[e] = "NOT_IN_MEMORY", !.url[e] = k]
           M == IF L.mem[e] = "NULL" THEN N ELSE L
<1>2. st' = storeClientRegister(M, e, c)
  BY <1>1
<1>3. Step(st, L, {})
  BY storeLockObjectStep, RolesNotF DEF IndInv
<1> HIDE DEF L
<1>4. Step(L, N, {})
  <2>1. L \in Store /\ Good(L, {})
    BY <1>3 DEF Step, Good
  <2>2. Quiet(L, N)
    BY <2>1 DEF Quiet, Store
  <2> HIDE DEF N
  <2> QED
    BY <2>1, <2>2, QuietStep
<1> HIDE DEF N
<1>5. Step(st, M, {})
  BY <1>3, <1>4, StepTrans
<1> HIDE DEF M
<1>6. Step(st, st', {})
  BY <1>2, <1>5, StepGood, storeClientRegisterStep, StepTrans
<1>7. OthersTyped'
  BY <1>1 DEF IndInv, OthersTyped
<1> QED
  BY <1>1, <1>6, <1>7 DEF IndInv, FwdHolds, Step, Loses

LEMMA ClientMissInd ==
    ASSUME IndInv, NEW c \in Clients, NEW k \in Keys, ClientMiss(c, k)
    PROVE  IndInv'
<1>a. PICK e \in Entries, cachable \in BOOLEAN, hierarchical \in BOOLEAN, collapse \in BOOLEAN,
           denied \in BOOLEAN :
             \E quick, keep :
               /\ collapse => cachable
               /\ OnFreeEntry(LeaveHit(c, quick, keep), c, k, e, cachable, hierarchical, collapse,
                              denied, keep)
  BY DEF ClientMiss
<1>0. PICK quick, keep :
             /\ collapse => cachable
             /\ OnFreeEntry(LeaveHit(c, quick, keep), c, k, e, cachable, hierarchical, collapse,
                            denied, keep)
  BY <1>a
<1> DEFINE wait == <<"wait", -1>>
           S0 == IF http[c] = Null THEN st ELSE ClientLeave(st, http[c], c, wait, quick, keep)
           N == storeCreateEntry(S0, e, k, cachable, hierarchical, c)
           S1 == storeClientRegister(N, e, c)
           G == SetFlag(S1, e, "KEY_EARLY_PUBLIC")
           S2 == IF collapse THEN storeSetPublicKey(G, e) ELSE S1
<1>1. ~Live(S0, e) /\ AnswerMiss(S2, c, e, denied, keep)
  BY <1>0 DEF OnFreeEntry, LeaveHit, MissEntry, CollapsedKey
<1> HIDE DEF S2
<1>2. /\ st' = IF denied THEN errorAppendEntry(S2, e, Null, FALSE, keep) ELSE fwdStart(S2, e)
      /\ fwd' = [fwd EXCEPT ![e] = IF denied THEN "none" ELSE "connect"]
      /\ orig' = [orig EXCEPT ![e] = ~denied /\ Has(S2, e, "ENTRY_CACHABLE")]
      /\ http' = [http EXCEPT ![c] = e]
      /\ hit' = [hit EXCEPT ![c] = FALSE]
  BY <1>1 DEF AnswerMiss
<1> USE DEF S2
<1>3. Step(st, S0, {})
  <2>1. http[c] # Null => http[c] \in Entries
    BY DEF IndInv, OthersTyped
  <2>2. Good(st, {}) /\ \A x \in Entries : Safe(st, {}, x)
    BY DEF IndInv, Safe
  <2> HIDE DEF wait
  <2>3. http[c] # Null => Step(st, ClientLeave(st, http[c], c, wait, quick, keep), {})
    BY <2>1, <2>2, ClientLeaveStep
  <2> QED
    BY <2>2, <2>3, StepRefl
<1>4. S0.key[e] = NoKey /\ Good(S0, {})
  BY <1>1, <1>3, StepGood DEF Live
<1> HIDE DEF S0
<1>5. /\ Good(N, {e}) /\ N \in Store /\ N.url[e] \in Keys
      /\ cachable => "RELEASE_REQUEST" \notin N.flags[e]
      /\ ~("RELEASE_REQUEST" \in N.flags[e] /\ "ENTRY_CACHABLE" \in N.flags[e])
      /\ \A x \in Entries \ {e} : F \in S0.lock[x] => F \in N.lock[x]
  <2>1. /\ Good(N, {e}) /\ N.url[e] \in Keys
        /\ cachable => "RELEASE_REQUEST" \notin N.flags[e]
        /\ ~("RELEASE_REQUEST" \in N.flags[e] /\ "ENTRY_CACHABLE" \in N.flags[e])
        /\ \A x \in Entries \ {e} : F \in S0.lock[x] => F \in N.lock[x]
    <3>1. Good(N, {e})
      BY <1>4, storeCreateEntryGood
    <3>2. N.url[e] \in Keys
      BY <1>4, storeCreateEntryGood
    <3>3. cachable => "RELEASE_REQUEST" \notin N.flags[e]
      BY <1>4, storeCreateEntryGood
    <3>4. ~("RELEASE_REQUEST" \in N.flags[e] /\ "ENTRY_CACHABLE" \in N.flags[e])
      BY <1>4, storeCreateEntryGood
    <3>5. \A x \in Entries \ {e} : F \in S0.lock[x] => F \in N.lock[x]
      BY <1>4, storeCreateEntryGood
    <3> QED
      BY <3>1, <3>2, <3>3, <3>4, <3>5
  <2> HIDE DEF N
  <2>2. N \in Store
    BY <2>1 DEF Good
  <2> QED
    BY <2>1, <2>2
<1> HIDE DEF N
<1>6. Step(N, S1, {e}) /\ S1.flags = N.flags /\ S1.url = N.url
  BY <1>5, storeClientRegisterStep, storeClientRegisterUrl
<1> HIDE DEF S1
<1>7. S1 \in Store /\ Good(S1, {e}) /\ S1.flags \in [Entries -> SUBSET Flags]
  BY <1>6 DEF Step, Good, Store
<1>8. /\ Step(S1, G, {e}) /\ G.url = S1.url
      /\ G.flags = [S1.flags EXCEPT ![e] = @ \cup {"KEY_EARLY_PUBLIC"}]
  <2>1. Step(S1, G, {e})
    BY <1>7, FlagStep DEF Flags
  <2>2. G.url = S1.url
    BY <1>7, FlagUrl DEF Flags
  <2>3. G.flags = [S1.flags EXCEPT ![e] = @ \cup {"KEY_EARLY_PUBLIC"}]
    BY <1>7, FlagShape DEF Flags
  <2> QED
    BY <2>1, <2>2, <2>3
<1> HIDE DEF G
<1>9. /\ Advance(S1, S2, {e})
      /\ ~("RELEASE_REQUEST" \in S2.flags[e] /\ "ENTRY_CACHABLE" \in S2.flags[e])
  <2>1. CASE collapse
    <3>1. "RELEASE_REQUEST" \notin G.flags[e] /\ G.url[e] \in Keys
      BY <1>0, <1>5, <1>6, <1>7, <1>8, <2>1
    <3>2. /\ Advance(G, storeSetPublicKey(G, e), {e})
          /\ "RELEASE_REQUEST" \notin storeSetPublicKey(G, e).flags[e]
      BY <1>8, <3>1, StepGood, storeSetPublicKeyAdvance
    <3> QED
      BY <1>8, <2>1, <3>2, StepAdvance, AdvanceTrans
  <2>2. CASE ~collapse
    BY <1>5, <1>6, <1>7, <2>2, StepRefl, StepAdvance
  <2> QED
    BY <2>1, <2>2
<1> HIDE DEF S2
<1>10. Good(S2, {e})
  BY <1>9, AdvanceGood
<1>11. \A x \in Entries \ {e} : F \in st.lock[x] => F \in S2.lock[x]
  BY <1>3, <1>5, <1>6, <1>9 DEF Step, Loses, Advance, Keeps
<1>12. OthersTyped'
  <2>1. (~denied /\ Has(S2, e, "ENTRY_CACHABLE")) \in BOOLEAN
    OBVIOUS
  <2>2. orig' \in [Entries -> BOOLEAN]
    BY <1>2, <2>1 DEF IndInv, OthersTyped
  <2> QED
    BY <1>2, <2>2 DEF IndInv, OthersTyped
<1>13. \A x \in Entries \ {e} : fwd'[x] = fwd[x]
  BY <1>2 DEF IndInv, OthersTyped
<1>14. CASE denied
  <2> DEFINE T == errorAppendEntry(S2, e, Null, FALSE, keep)
  <2>1. Step(S2, T, {e}) /\ T.status[e] = "STORE_OK"
    BY <1>10, errorAppendEntryStep
  <2>2. st' = T /\ fwd'[e] = "none"
    BY <1>2, <1>14 DEF IndInv, OthersTyped
  <2> HIDE DEF T
  <2>3. Good(T, {})
    BY <2>1 DEF Step, Good, EntryOK
  <2>4. FwdHolds'
    BY <1>11, <1>13, <2>1, <2>2 DEF FwdHolds, IndInv, Step, Loses
  <2> QED
    BY <1>12, <2>2, <2>3, <2>4 DEF IndInv
<1>15. CASE ~denied
  <2> DEFINE T == fwdStart(S2, e)
  <2>1. Good(T, {}) /\ Keeps(S2, T) /\ F \in T.lock[e]
    BY <1>9, <1>10, fwdStartGood
  <2>2. st' = T
    BY <1>2, <1>15
  <2> HIDE DEF T
  <2>3. FwdHolds'
    BY <1>11, <1>13, <2>1, <2>2 DEF FwdHolds, IndInv, Keeps
  <2> QED
    BY <1>12, <2>1, <2>2, <2>3 DEF IndInv
<1> QED
  BY <1>14, <1>15

LEMMA ClientCloseInd ==
    ASSUME IndInv, NEW c \in Clients, ClientClose(c)
    PROVE  IndInv'
<1>1. PICK e, quick, keep, o :
             /\ e \in Entries
             /\ st' = ClientLeave(st, e, c, o, quick, keep)
             /\ DropClient(c)
             /\ UNCHANGED <<fwd, orig>>
  BY DEF ClientClose
<1>2. Good(st, {}) /\ Safe(st, {}, e)
  BY DEF IndInv, Safe
<1>3. Step(st, st', {})
  BY <1>1, <1>2, ClientLeaveStep
<1>4. OthersTyped'
  BY <1>1 DEF DropClient, IndInv, OthersTyped
<1> QED
  BY <1>1, <1>3, <1>4 DEF IndInv, FwdHolds, Step, Loses

LEMMA PurgeInd ==
    ASSUME IndInv, NEW k \in Keys, Purge(k)
    PROVE  IndInv'
<1>1. Step(st, st', {}) /\ UNCHANGED <<http, hit, fwd, orig>>
  BY storeReleaseStep DEF Purge, IndInv
<1> QED
  BY <1>1, StepKeepsInd

LEMMA ServerConnectedInd ==
    ASSUME IndInv, NEW e \in Entries, ServerConnected(e)
    PROVE  IndInv'
<1> DEFINE L == storeLockObject(st, e, RoleLock("server"))
<1>1. PICK proxyOnly \in BOOLEAN :
             /\ fwd[e] = "connect"
             /\ st' = IF proxyOnly THEN storeReleaseRequest(L, e) ELSE L
             /\ FwdBecomes(e, "sent")
             /\ UNCHANGED <<http, hit>>
  BY DEF ServerConnected
<1>2. Step(st, L, {})
  <2>1. RoleLock("server") \in Holders /\ RoleLock("server") # F
    BY RolesNotF DEF Roles
  <2> QED
    BY <2>1, storeLockObjectStep DEF IndInv
<1> HIDE DEF L
<1>3. Step(L, storeReleaseRequest(L, e), {})
  BY <1>2, StepGood, storeReleaseRequestStep
<1>4. Step(st, st', {})
  BY <1>1, <1>2, <1>3, StepTrans
<1>5. OthersTyped' /\ \A x \in Entries : fwd'[x] # "none" => fwd[x] # "none"
  BY <1>1, FwdBecomesTyped DEF IndInv, OthersTyped
<1> QED
  BY <1>4, <1>5 DEF IndInv, FwdHolds, Step, Loses

\* The end of a server side, in any of the ways it comes about
LEMMA FreeInd ==
    ASSUME IndInv, NEW e \in Entries, NEW S, Step(st, S, {}),
           NEW server, NEW data, NEW gone, NEW quick, NEW keep,
           st' = fwdStateFree(S, e, server, data, gone, quick, keep),
           FwdBecomes(e, "none"), NEW c \in Gone(e), DropClient(c)
    PROVE  IndInv'
<1>1. Good(st', {}) /\ \A x \in Entries \ {e} : F \in S.lock[x] => F \in st'.lock[x]
  BY StepGood, fwdStateFreeGood
<1>2. OthersTyped'
  BY DropClientTyped, FwdBecomesTyped DEF OthersTyped
<1>3. FwdHolds'
  BY <1>1, FwdBecomesTyped DEF FwdHolds, IndInv, Step, Loses
<1> QED
  BY <1>1, <1>2, <1>3 DEF IndInv

LEMMA GoneNull == ASSUME NEW e \in Entries PROVE Null \in Gone(e)
  BY DEF Gone

LEMMA StayDropClient ==
    ASSUME UNCHANGED <<http, hit>> PROVE DropClient(Null)
  BY DEF DropClient

LEMMA ServerUnreachableInd ==
    ASSUME IndInv, NEW e \in Entries, ServerUnreachable(e)
    PROVE  IndInv'
<1>2. PICK gone, quick, keep :
             /\ gone \in Gone(e)
             /\ st' = fwdStateFree(st, e, FALSE, FALSE, gone, quick, keep)
             /\ FwdBecomes(e, "none")
             /\ DropClient(gone)
  BY DEF ServerUnreachable
<1>3. Step(st, st, {})
  BY StepRefl DEF IndInv
<1> QED
  BY <1>2, <1>3, FreeInd

LEMMA ServerHeaderInd ==
    ASSUME IndInv, NEW e \in Entries, ServerHeader(e)
    PROVE  IndInv'
<1>1. PICK verdict \in {"public", "private", "negative", "expired"},
           remove \in BOOLEAN, again \in BOOLEAN, gone \in Gone(e), o \in Outcomes(st, e) :
             ServerHeader(e)!(verdict, remove, again, gone, o)
  BY DEF ServerHeader
<1> DEFINE H == httpProcessReplyHeader(st, e, verdict, remove)
           C == ClrFlag(H, e, "ENTRY_FWD_HDR_WAIT")
           W == IF again THEN H ELSE C
<1>2. PICK quick : /\ fwd[e] = "sent"
                   /\ st' = storeBufferFlush(W, e, gone, o, quick, TRUE)
                   /\ FwdBecomes(e, "body")
                   /\ DropClient(gone)
  BY <1>1 DEF HeaderSeen
<1>3. Good(st, {}) /\ F \in st.lock[e]
  BY <1>2 DEF IndInv, FwdHolds
<1>4. Advance(st, H, {})
  BY <1>3, httpProcessReplyHeaderAdvance
<1> HIDE DEF H
<1>5. Advance(H, C, {})
  BY <1>4, AdvanceGood, FlagStep, StepAdvance DEF Flags
<1> HIDE DEF C
<1>6. Advance(st, W, {})
  BY <1>4, <1>5, AdvanceTrans
<1> HIDE DEF W
<1>7. Good(W, {}) /\ Safe(W, {}, e)
  BY <1>6, AdvanceGood DEF Safe
<1>8. Step(W, st', {})
  BY <1>2, <1>7, storeBufferFlushStep
<1>9. Advance(st, st', {})
  BY <1>6, <1>8, StepAdvance, AdvanceTrans
<1>10. OthersTyped' /\ \A x \in Entries : fwd'[x] # "none" => fwd[x] # "none"
  BY <1>2, FwdBecomesTyped, DropClientTyped DEF OthersTyped
<1> QED
  BY <1>9, <1>10 DEF IndInv, FwdHolds, Advance, Keeps

LEMMA ServerBodyInd ==
    ASSUME IndInv, NEW e \in Entries, ServerBody(e)
    PROVE  IndInv'
<1>1. PICK gone \in Gone(e), o \in Outcomes(st, e) : ServerBody(e)!(gone, o)
  BY DEF ServerBody
<1> DEFINE A == Must(st, st.status[e] = "STORE_PENDING")
<1>2. PICK quick : /\ st' = storeBufferFlush(A, e, gone, o, quick, TRUE)
                   /\ DropClient(gone)
                   /\ UNCHANGED <<fwd, orig>>
  BY <1>1
<1>3. Step(st, A, {})
  BY MustStep DEF IndInv
<1> HIDE DEF A
<1>4. Good(A, {}) /\ Safe(A, {}, e)
  BY <1>3, StepGood DEF Safe
<1>5. Step(st, st', {})
  BY <1>2, <1>3, <1>4, storeBufferFlushStep, StepTrans
<1>6. OthersTyped'
  BY <1>2, DropClientTyped DEF OthersTyped, IndInv
<1> QED
  BY <1>2, <1>5, <1>6 DEF IndInv, FwdHolds, Step, Loses

LEMMA ServerCompleteInd ==
    ASSUME IndInv, NEW e \in Entries, ServerComplete(e)
    PROVE  IndInv'
<1>1. PICK gone \in Gone(e), o \in Outcomes(st, e), valid \in BOOLEAN :
             ServerComplete(e)!(gone, o, valid)
  BY DEF ServerComplete
<1> DEFINE A == Must(st, st.status[e] = "STORE_PENDING")
           B == ClrFlag(A, e, "ENTRY_FWD_HDR_WAIT")
<1>2. PICK quick, keep :
             LET C == storeComplete(B, e, valid, gone, o, quick, keep)
             IN  /\ st' = fwdStateFree(C, e, TRUE, TRUE, Null, quick, keep)
                 /\ FwdBecomes(e, "none")
                 /\ DropClient(gone)
  BY <1>1
<1> DEFINE C == storeComplete(B, e, valid, gone, o, quick, keep)
<1>3. Step(st, A, {})
  BY MustStep DEF IndInv
<1> HIDE DEF A
<1>4. Step(A, B, {})
  BY <1>3, StepGood, FlagStep DEF Flags
<1> HIDE DEF B
<1>5. Good(B, {})
  BY <1>4, StepGood
<1>6. Step(B, C, {})
  BY <1>5, storeCompleteStep
<1>7. /\ st' = fwdStateFree(C, e, TRUE, TRUE, Null, quick, keep)
      /\ FwdBecomes(e, "none")
      /\ DropClient(gone)
  BY <1>2
<1> HIDE DEF C
<1>8. Step(st, C, {})
  BY <1>3, <1>4, <1>6, StepTrans
<1> QED
  BY <1>7, <1>8, FreeInd

LEMMA ServerReforwardInd ==
    ASSUME IndInv, NEW e \in Entries, ServerReforward(e)
    PROVE  IndInv'
<1> DEFINE R == Reforward(st, e)
           h == RoleLock("server")
<1>1. PICK keep : /\ fwd[e] = "body"
                  /\ st' = storeUnlockObject(R, e, h, keep)
                  /\ FwdBecomes(e, "connect")
                  /\ UNCHANGED <<http, hit>>
  BY DEF ServerReforward
<1>2. Step(st, R, {})
  BY ReforwardStep DEF IndInv
<1> HIDE DEF R
<1>3. h # F
  BY RolesNotF DEF Roles
<1> HIDE DEF h
<1>4. Good(R, {}) /\ Safe(R, {}, e)
  BY <1>2, StepGood DEF Safe
<1>5. Step(st, st', {})
  BY <1>1, <1>2, <1>3, <1>4, storeUnlockObjectStep, StepTrans
<1>6. OthersTyped' /\ \A x \in Entries : fwd'[x] # "none" => fwd[x] # "none"
  BY <1>1, FwdBecomesTyped DEF IndInv, OthersTyped
<1> QED
  BY <1>5, <1>6 DEF IndInv, FwdHolds, Step, Loses

LEMMA ServerClosedInd ==
    ASSUME IndInv, NEW e \in Entries, ServerClosed(e)
    PROVE  IndInv'
<1> DEFINE h == RoleLock("server")
<1>1. PICK retry \in BOOLEAN, gone \in Gone(e) : ServerClosed(e)!(retry, gone)
  BY DEF ServerClosed
<1>2. PICK quick \in Quick(e, gone), keep \in Keep(e, gone) :
             ServerClosed(e)!(retry, gone)!(quick, keep)
  BY <1>1
<1>3. Good(st, {}) /\ Safe(st, {}, e)
  BY DEF IndInv, Safe
<1>4. CASE retry
  <2>1. h # F
    BY RolesNotF DEF Roles
  <2>2. /\ st' = storeUnlockObject(st, e, h, keep)
        /\ FwdBecomes(e, "connect") /\ DropClient(gone)
    BY <1>2, <1>4
  <2> HIDE DEF h
  <2>3. Step(st, st', {})
    BY <1>3, <2>1, <2>2, storeUnlockObjectStep
  <2>4. OthersTyped' /\ \A x \in Entries : fwd'[x] # "none" => fwd[x] # "none"
    <3>1. fwd[e] # "none"
      BY <1>2
    <3> QED
      BY <2>2, <3>1, FwdBecomesTyped, DropClientTyped DEF OthersTyped
  <2> QED
    BY <2>3, <2>4 DEF IndInv, FwdHolds, Step, Loses
<1>5. CASE ~retry
  <2> DEFINE data == fwd[e] = "body"
  <2>1. FwdBecomes(e, "none") /\ DropClient(gone)
    BY <1>2, <1>5
  <2>2. st' = fwdStateFree(st, e, TRUE, data, gone, quick, keep)
    BY <1>2, <1>5
  <2> HIDE DEF data
  <2>3. Step(st, st, {})
    BY <1>3, StepRefl
  <2> QED
    BY <2>1, <2>2, <2>3, FreeInd
<1> QED
  BY <1>4, <1>5

LEMMA FwdAbortInd ==
    ASSUME IndInv, NEW e \in Entries, FwdAbort(e)
    PROVE  IndInv'
<1> DEFINE server == fwd[e] # "connect"
<1>1. PICK keep :
             /\ st' = fwdStateFree(st, e, server, TRUE, Null, FALSE, keep)
             /\ FwdBecomes(e, "none")
             /\ UNCHANGED <<http, hit>>
  BY DEF FwdAbort
<1> HIDE DEF server
<1>2. Step(st, st, {}) /\ Null \in Gone(e) /\ DropClient(Null)
  BY <1>1, StepRefl, GoneNull, StayDropClient DEF IndInv
<1> QED
  BY <1>1, <1>2, FreeInd

LEMMA StoreStepInd ==
    ASSUME IndInv, NEW e \in Entries, StoreStep(e)
    PROVE  IndInv'
<1>0. Good(st, {}) /\ Safe(st, {}, e) /\ st \in Store
  BY DEF IndInv, Safe, Good
<1>1. CASE SwapFileClosed(e)
  <2>1. Step(st, st', {}) /\ UNCHANGED <<http, hit, fwd, orig>>
    BY <1>0, <1>1, storeSwapOutFileClosedStep DEF SwapFileClosed
  <2> QED
    BY <2>1, StepKeepsInd
<1>2. CASE PurgeMem(e)
  <2>1. Step(st, st', {}) /\ UNCHANGED <<http, hit, fwd, orig>>
    BY <1>0, <1>2, storePurgeMemStep DEF PurgeMem
  <2> QED
    BY <2>1, StepKeepsInd
<1>3. CASE MaintainSwapSpace(e)
  <2>1. Step(st, st', {}) /\ UNCHANGED <<http, hit, fwd, orig>>
    BY <1>0, <1>3, storeReleaseStep DEF MaintainSwapSpace
  <2> QED
    BY <2>1, StepKeepsInd
<1>4. CASE storeLateRelease(e)
  <2> DEFINE L == [st EXCEPT !.late = @ \ {e}]
             h == RoleLock("late")
  <2>1. st' = storeUnlockObject(L, e, h, FALSE) /\ UNCHANGED <<http, hit, fwd, orig>>
    BY <1>4 DEF storeLateRelease
  <2>2. Quiet(st, L)
    BY <1>0 DEF Quiet, Store
  <2>3. h # F
    BY RolesNotF DEF Roles
  <2> HIDE DEF L, h
  <2>4. Step(st, L, {})
    BY <1>0, <2>2, QuietStep
  <2>5. Good(L, {}) /\ Safe(L, {}, e)
    BY <2>4, StepGood DEF Safe
  <2>6. Step(st, st', {})
    BY <2>1, <2>3, <2>4, <2>5, storeUnlockObjectStep, StepTrans
  <2> QED
    BY <2>1, <2>6, StepKeepsInd
<1> QED
  BY <1>1, <1>2, <1>3, <1>4 DEF StoreStep

LEMMA RebuildEntryInd ==
    ASSUME IndInv, NEW k \in Keys, NEW f \in Files, RebuildEntry(k, f)
    PROVE  IndInv'
<1> DEFINE e2 == CHOOSE x \in Entries : st.key[x] = k
           S0 == IF \E x \in Entries : st.key[x] = k THEN storeRelease(st, e2) ELSE st
<1>1. PICK e \in Entries : /\ f \notin st.map
                           /\ st' = storeUfsDirAddDiskRestore(S0, e, k, f)
                           /\ UNCHANGED <<http, hit, fwd, orig>>
  BY DEF RebuildEntry
<1>2. Good(st, {})
  BY DEF IndInv
<1>3. /\ Step(st, S0, {}) /\ S0.map \subseteq st.map
      /\ \A x \in Entries : S0.key[x] # k
  <2>1. CASE \E x \in Entries : st.key[x] = k
    <3>1. e2 \in Entries /\ st.key[e2] = k
      BY <2>1
    <3>2. S0 = storeRelease(st, e2)
      BY <2>1
    <3> HIDE DEF e2, S0
    <3>3. Step(st, S0, {}) /\ Hidden(st, S0, e2)
      BY <1>2, <3>1, <3>2, storeReleaseStep
    <3>4. ASSUME NEW x \in Entries PROVE S0.key[x] # k
      BY <1>2, <3>1, <3>3 DEF Step, Loses, Hidden, Good, KeysUnique
    <3> QED
      BY <3>3, <3>4 DEF Hidden
  <2>2. CASE ~\E x \in Entries : st.key[x] = k
    BY <1>2, <2>2, StepRefl
  <2> QED
    BY <2>1, <2>2
<1> HIDE DEF S0
<1>4. f \notin S0.map /\ Good(S0, {})
  BY <1>1, <1>3, StepGood
<1>5. Good(st', {}) /\ st'.lock = S0.lock
  BY <1>1, <1>3, <1>4, AddDiskRestoreGood
<1> QED
  BY <1>1, <1>3, <1>5 DEF IndInv, OthersTyped, FwdHolds, Step, Loses

LEMMA RebuildInd ==
    ASSUME IndInv, RebuildStep
    PROVE  IndInv'
<1>0. Good(st, {}) /\ st \in Store
  BY DEF IndInv, Good
<1>1. CASE RebuildComplete \/ ValidationComplete
  <2>1. Quiet(st, st') /\ UNCHANGED <<http, hit, fwd, orig>>
    BY <1>0, <1>1 DEF RebuildComplete, ValidationComplete, Quiet, Store
  <2> QED
    BY <1>0, <2>1, QuietStep, StepKeepsInd
<1>2. ASSUME NEW e \in Entries, ValidateEntry(e) PROVE IndInv'
  <2> DEFINE G == SetFlag(st, e, "ENTRY_VALIDATED")
             V == [G EXCEPT !.size = @ + 1]
  <2>1. /\ st' = IF V.key[e] = Private THEN storeRelease(V, e) ELSE V
        /\ UNCHANGED <<http, hit, fwd, orig>>
    BY <1>2 DEF ValidateEntry
  <2>2. Step(st, G, {})
    BY <1>0, FlagStep DEF Flags
  <2> HIDE DEF G
  <2>3. Good(G, {}) /\ G \in Store
    BY <2>2, StepGood DEF Good
  <2>4. Quiet(G, V)
    BY <2>3 DEF Quiet, Store
  <2> HIDE DEF V
  <2>5. Step(st, V, {})
    BY <2>2, <2>3, <2>4, QuietStep, StepTrans
  <2>6. Step(V, storeRelease(V, e), {})
    BY <2>5, StepGood, storeReleaseStep
  <2>7. Step(st, st', {})
    BY <2>1, <2>5, <2>6, StepTrans
  <2> QED
    BY <2>1, <2>7, StepKeepsInd
<1> QED
  BY <1>1, <1>2, RebuildEntryInd DEF RebuildStep

LEMMA NextInd == IndInv /\ [Next]_vars => IndInv'
<1> SUFFICES ASSUME IndInv, [Next]_vars PROVE IndInv'
  OBVIOUS
<1>1. CASE ClientStep
  BY <1>1, ClientHitInd, ClientMissInd, ClientCloseInd DEF ClientStep
<1>2. ASSUME NEW k \in Keys, Purge(k) PROVE IndInv'
  BY <1>2, PurgeInd
<1>3. ASSUME NEW e \in Entries, ServerStep(e) PROVE IndInv'
  BY <1>3, ServerConnectedInd, ServerUnreachableInd, ServerHeaderInd, ServerBodyInd,
     ServerCompleteInd, ServerReforwardInd, ServerClosedInd, FwdAbortInd DEF ServerStep
<1>4. ASSUME NEW e \in Entries, StoreStep(e) PROVE IndInv'
  BY <1>4, StoreStepInd
<1>5. CASE RebuildStep
  BY <1>5, RebuildInd
<1>6. CASE UNCHANGED vars
  BY <1>6 DEF vars, IndInv, OthersTyped, FwdHolds
<1> QED
  BY <1>1, <1>2, <1>3, <1>4, <1>5, <1>6 DEF Next

\* The index, the locks of the server side and the file map are as described in
\* every state the event loop reaches.
THEOREM Inductive == Spec => []IndInv
  BY InitInd, NextInd, PTL DEF Spec

\* Every field of the store and of the requests keeps its type.
THEOREM TypeCorrect == Spec => []TypeOK
<1>1. IndInv => TypeOK
  BY DEF IndInv, Good, OthersTyped, TypeOK
<1> QED
  BY <1>1, Inductive, PTL

\* storeSetPublicKey and the rebuild never leave two entries under one public
\* key, whatever the configuration and however many entries are being fetched.
THEOREM KeyUnique == Spec => []PublicKeyUnique
<1>1. IndInv => PublicKeyUnique
  BY DEF IndInv, Good, KeysUnique, PublicKeyUnique, Public
<1> QED
  BY <1>1, Inductive, PTL

\* No path sets RELEASE_REQUEST on an entry and leaves it in the hash table, and
\* none makes an entry public that has it: the direct assignments of the flag in
\* storeUnlockObject and storeRelease included.
THEOREM ReleasedHidden == Spec => []ReleasedNotFindable
<1>1. IndInv => ReleasedNotFindable
  BY DEF IndInv, Good, EntryOK, ReleasedNotFindable, Has, Public
<1> QED
  BY <1>1, Inductive, PTL

\* A swap file number is never given to an entry while another still has it,
\* through failed writes, late releases and the rebuild.
THEOREM FilesHaveOneOwner == Spec => []FileOwnership
<1>1. IndInv => FileOwnership
  BY DEF IndInv, Good, FilesOwned, FileOwnership
<1> QED
  BY <1>1, Inductive, PTL

=============================================================================
