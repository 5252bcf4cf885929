-------------------------- MODULE StoreEntryProofs --------------------------
(***************************************************************************)
(* Proofs about StoreTable, for every number of entries, keys, clients and  *)
(* files and every configuration: the locks of an entry are exactly its     *)
(* references, nothing is left behind, the swap log and the size account    *)
(* say what is stored, no assertion fails, and a request takes no complete  *)
(* object away from the others.                                             *)
(*                                                                          *)
(* StoreTableProofs shows that the store functions keep Good.  Here one     *)
(* lemma for each adds that it keeps Fine, which says what the fields of an *)
(* entry have to do with each other (Entry), and says which references it   *)
(* drops (Acts; Goes, where the server side ends; Kept, of the entries it   *)
(* is not called for).  The actions then keep Linked: what requests and     *)
(* server sides refer to is what is locked for them.                        *)
(***************************************************************************)
EXTENDS StoreTableProofs, FiniteSetTheorems

Swapout == RoleLock("swapout")
Late == RoleLock("late")

(* The locks for references outside the store.                               *)
Out(S, e) == S.lock[e] \ {Swapout, Late}

(* A structure that is not allocated is empty.                               *)
FreeOK(S, e) ==
    S.key[e] = NoKey =>
        /\ S.lock[e] = {} /\ S.flags[e] = {} /\ S.status[e] = "STORE_OK"
        /\ S.filen[e] = -1 /\ S.mem[e] = "NULL" /\ e \notin S.late

(* A memory object goes with every lock, the late release's excepted; it     *)
(* knows its URL; an entry being fetched is not in the hands of the memory   *)
(* replacement policy.                                                       *)
MemOK(S, e) ==
    /\ S.mem[e] = "NULL" => S.lock[e] \subseteq {Late}
    /\ S.mem[e] # "NULL" => S.url[e] \in Keys
    /\ F \in S.lock[e] \/ S.status[e] = "STORE_PENDING" => S.mem[e] = "NOT_IN_MEMORY"

(* Locks and the references the store knows of agree, except for the locks   *)
(* in H, whose reference is gone and which are about to be dropped.          *)
HoldOK(S, e, H) ==
    /\ H \subseteq S.lock[e]
    /\ Swapout \in S.lock[e] \ H <=> S.swap[e] = "SWAPOUT_WRITING"
    /\ Late \in S.lock[e] \ H <=> e \in S.late
    /\ \A c \in Clients : ScLock(c) \in S.lock[e] \ H <=> c \in S.clients[e]
    /\ \A c \in Clients : c \in S.clients[e] => HttpLock(c) \in S.lock[e] \ H
    /\ S.abort[e] # "unset" => F \in S.lock[e] \ H
    /\ S.sio[e] => Swapout \in S.lock[e] \ H
    /\ Late \in S.lock[e] => S.lock[e] = {Late} /\ "RELEASE_REQUEST" \in S.flags[e]

(* The swap file and what the flags have to do with it.                      *)
SwapOK(S, e) ==
    /\ S.swap[e] = "SWAPOUT_NONE" <=> S.filen[e] = -1
    /\ "ENTRY_FWD_HDR_WAIT" \in S.flags[e] => S.swap[e] = "SWAPOUT_NONE"
    /\ S.swap[e] = "SWAPOUT_WRITING" => "ENTRY_NEGCACHED" \notin S.flags[e]
    /\ S.key[e] # NoKey /\ S.swap[e] # "SWAPOUT_DONE" => "ENTRY_VALIDATED" \in S.flags[e]

(* An aborted entry is released; one that is over but for its header was     *)
(* aborted when nobody was left.                                             *)
AbortOK(S, e) ==
    /\ "ENTRY_ABORTED" \in S.flags[e] => "RELEASE_REQUEST" \in S.flags[e]
    /\ "ENTRY_FWD_HDR_WAIT" \in S.flags[e] /\ S.status[e] = "STORE_OK" =>
           S.clients[e] = {} /\ "ENTRY_ABORTED" \in S.flags[e]

(* What nobody holds is complete, and in memory or on disk.                  *)
LeakOK(S, e) ==
    S.key[e] # NoKey /\ S.lock[e] = {} =>
        /\ "RELEASE_REQUEST" \notin S.flags[e] /\ S.status[e] = "STORE_OK"
        /\ S.swap[e] = "SWAPOUT_DONE" \/ S.mem[e] = "IN_MEMORY"

Shaped(S, e, H) ==
    FreeOK(S, e) /\ MemOK(S, e) /\ HoldOK(S, e, H) /\ SwapOK(S, e) /\ AbortOK(S, e)
Entry(S, e, H) == Shaped(S, e, H) /\ LeakOK(S, e)

(* The swap log and the size account, entry by entry.                        *)
Logged(S, e) == S.key[e] \in Keys /\ S.swap[e] = "SWAPOUT_DONE"
LogExact(S) ==
    \A r : r \in S.log <=> \E e \in Entries : Logged(S, e) /\ r = <<S.key[e], S.filen[e]>>

Stored(S, e) == S.swap[e] = "SWAPOUT_DONE" /\ "ENTRY_VALIDATED" \in S.flags[e]
SizeIs(S) == S.size = Cardinality({e \in Entries : Stored(S, e)})

(* An entry in the making has no file yet.                                   *)
Raw(S, X, e) == e \in X /\ S.swap[e] = "SWAPOUT_NONE"

(* The whole store, while locks H of entry e are about to be dropped; Loose: *)
(* e itself may be left with no lock at all.                                 *)
Loose(S, X, e, H) ==
    /\ Good(S, X) /\ S.ok /\ LogExact(S) /\ SizeIs(S)
    /\ Shaped(S, e, H) /\ \A x \in Entries \ {e} : Entry(S, x, {}) \/ Raw(S, X, x)
Fine(S, X, e, H) == Loose(S, X, e, H) /\ LeakOK(S, e)

(* The other entries stay as they are.                                       *)
SameEntry(S, T, x) ==
    /\ T.key[x] = S.key[x] /\ T.url[x] = S.url[x] /\ T.lock[x] = S.lock[x]
    /\ T.flags[x] = S.flags[x] /\ T.status[x] = S.status[x] /\ T.swap[x] = S.swap[x]
    /\ T.filen[x] = S.filen[x] /\ T.mem[x] = S.mem[x] /\ T.sio[x] = S.sio[x]
    /\ T.clients[x] = S.clients[x] /\ T.abort[x] = S.abort[x]
    /\ x \in T.late <=> x \in S.late
Elsewhere(S, T, e) ==
    /\ T \in Store /\ T.rebuild = S.rebuild
    /\ \A x \in Entries \ {e} : SameEntry(S, T, x)

(* Of e itself, of the log and of the account, only what D names changes.    *)
Touches(S, T, e, D) ==
    /\ Elsewhere(S, T, e)
    /\ "key" \in D \/ T.key[e] = S.key[e]
    /\ "url" \in D \/ T.url[e] = S.url[e]
    /\ "lock" \in D \/ T.lock[e] = S.lock[e]
    /\ "flags" \in D \/ T.flags[e] = S.flags[e]
    /\ "status" \in D \/ T.status[e] = S.status[e]
    /\ "swap" \in D \/ T.swap[e] = S.swap[e]
    /\ "filen" \in D \/ T.filen[e] = S.filen[e]
    /\ "mem" \in D \/ T.mem[e] = S.mem[e]
    /\ "sio" \in D \/ T.sio[e] = S.sio[e]
    /\ "clients" \in D \/ T.clients[e] = S.clients[e]
    /\ "abort" \in D \/ T.abort[e] = S.abort[e]
    /\ "late" \in D \/ (e \in T.late <=> e \in S.late)
    /\ "log" \in D \/ T.log = S.log
    /\ "size" \in D \/ T.size = S.size
    /\ "ok" \in D \/ T.ok = S.ok

(* What happens to the log and to the account when one entry changes.        *)
LogOne(S, T, e) ==
    \/ /\ T.log = S.log /\ (Logged(T, e) <=> Logged(S, e))
       /\ Logged(S, e) => T.key[e] = S.key[e] /\ T.filen[e] = S.filen[e]
    \/ /\ T.log = S.log \cup {<<T.key[e], T.filen[e]>>} /\ Logged(T, e) /\ ~Logged(S, e)
    \/ /\ T.log = S.log \ {<<S.key[e], S.filen[e]>>} /\ ~Logged(T, e)
       /\ S.filen[e] # -1
SizeOne(S, T, e) ==
    \/ T.size = S.size /\ (Stored(T, e) <=> Stored(S, e))
    \/ T.size = S.size + 1 /\ Stored(T, e) /\ ~Stored(S, e)
    \/ T.size = S.size - 1 /\ ~Stored(T, e) /\ Stored(S, e)
-----------------------------------------------------------------------------
(* Holders are told apart.                                                   *)
LEMMA HoldersDiffer ==
  /\ Swapout # Late /\ Swapout # F /\ Late # F
  /\ \A r \in {"server", "abort", "error"} :
        RoleLock(r) # Swapout /\ RoleLock(r) # Late /\ RoleLock(r) # F
  /\ RoleLock("abort") # RoleLock("error") /\ RoleLock("abort") # RoleLock("server")
  /\ RoleLock("error") # RoleLock("server")
  /\ \A c \in Clients : /\ ScLock(c) # Swapout /\ ScLock(c) # Late
                        /\ HttpLock(c) # Swapout /\ HttpLock(c) # Late
                        /\ \A r \in Roles : RoleLock(r) # ScLock(c) /\ RoleLock(r) # HttpLock(c)
                        /\ \A d \in Clients : /\ HttpLock(c) # ScLock(d)
                                              /\ HttpLock(c) = HttpLock(d) => c = d
                                              /\ ScLock(c) = ScLock(d) => c = d
  BY DEF Swapout, Late, F, RoleLock, ScLock, HttpLock, Roles

(* An assertion that holds changes nothing.                                  *)
LEMMA MustTrue ==
  ASSUME NEW S \in Store, S.ok, NEW p, p
  PROVE  Must(S, p) = S
  BY DEF Must, Store

(* The others' entries stay in order.                                        *)
LEMMA SameStays ==
  ASSUME NEW S, NEW T, NEW x, SameEntry(S, T, x), NEW H, Entry(S, x, H)
  PROVE  /\ Entry(T, x, H) /\ (Logged(T, x) <=> Logged(S, x))
         /\ (Stored(T, x) <=> Stored(S, x)) /\ Out(T, x) = Out(S, x)
  BY DEF SameEntry, Entry, Shaped, FreeOK, MemOK, HoldOK, SwapOK, AbortOK, LeakOK, Logged, Stored, Out

(* The log follows the one entry that changes.                               *)
LEMMA LogFollows ==
  ASSUME NEW S, NEW T, NEW e \in Entries, Elsewhere(S, T, e), LogOne(S, T, e),
         FilesOwned(S), FilesOwned(T), LogExact(S),
         \A x \in Entries : S.swap[x] = "SWAPOUT_DONE" => S.filen[x] # -1
  PROVE  LogExact(T)
  <1>1. \A x \in Entries \ {e} :
           /\ T.key[x] = S.key[x] /\ T.filen[x] = S.filen[x]
           /\ (Logged(T, x) <=> Logged(S, x))
    BY DEF Elsewhere, SameEntry, Logged
  <1>2. \A x \in Entries \ {e} :
           Logged(S, x) => S.filen[x] # S.filen[e]
    BY DEF FilesOwned, Logged
  <1>3. SUFFICES ASSUME NEW r
                 PROVE  r \in T.log <=> \E x \in Entries : Logged(T, x) /\ r = <<T.key[x], T.filen[x]>>
    BY DEF LogExact
  <1>4. r \in S.log <=> \E x \in Entries : Logged(S, x) /\ r = <<S.key[x], S.filen[x]>>
    BY DEF LogExact
  <1>5. CASE /\ T.log = S.log /\ (Logged(T, e) <=> Logged(S, e))
             /\ Logged(S, e) => T.key[e] = S.key[e] /\ T.filen[e] = S.filen[e]
    BY <1>1, <1>4, <1>5
  <1>6. CASE /\ T.log = S.log \cup {<<T.key[e], T.filen[e]>>} /\ Logged(T, e)
             /\ ~Logged(S, e)
    BY <1>1, <1>4, <1>6
  <1>7. CASE /\ T.log = S.log \ {<<S.key[e], S.filen[e]>>} /\ ~Logged(T, e)
             /\ S.filen[e] # -1
    <2>1. \A x \in Entries \ {e} : Logged(S, x) =>
             <<S.key[x], S.filen[x]>> # <<S.key[e], S.filen[e]>>
      BY <1>2
    <2>. QED
      BY <1>1, <1>4, <1>7, <2>1
  <1>. QED
    BY <1>5, <1>6, <1>7 DEF LogOne

(* The account follows the one entry that changes.                           *)
LEMMA SizeFollows ==
  ASSUME NEW S, NEW T, NEW e \in Entries, Elsewhere(S, T, e), SizeOne(S, T, e), SizeIs(S)
  PROVE  SizeIs(T)
  <1> DEFINE A == {x \in Entries : Stored(S, x)}
             B == {x \in Entries : Stored(T, x)}
  <1>1. IsFiniteSet(A) /\ IsFiniteSet(B)
    BY EntriesAssumption, FS_Subset
  <1>2. \A x \in Entries \ {e} : Stored(T, x) <=> Stored(S, x)
    BY DEF Elsewhere, SameEntry, Stored
  <1>3. S.size = Cardinality(A)
    BY DEF SizeIs
  <1>4. SUFFICES T.size = Cardinality(B)
    BY DEF SizeIs
  <1>5. CASE T.size = S.size /\ (Stored(T, e) <=> Stored(S, e))
    <2>1. A = B
      BY <1>2, <1>5
    <2>. QED
      BY <1>3, <1>5, <2>1
  <1>6. CASE T.size = S.size + 1 /\ Stored(T, e) /\ ~Stored(S, e)
    <2>1. B = A \cup {e} /\ e \notin A
      BY <1>2, <1>6
    <2> HIDE DEF A, B
    <2>. QED
      BY <1>1, <1>3, <1>6, <2>1, FS_AddElement
  <1>7. CASE T.size = S.size - 1 /\ ~Stored(T, e) /\ Stored(S, e)
    <2>1. B = A \ {e} /\ e \in A
      BY <1>2, <1>7
    <2> HIDE DEF A, B
    <2>. QED
      BY <1>1, <1>3, <1>7, <2>1, FS_RemoveElement
  <1>. QED
    BY <1>5, <1>6, <1>7 DEF SizeOne

(* One entry changes, and is in order after it.                              *)
LEMMA Change ==
  ASSUME NEW S, NEW X, NEW e \in Entries, NEW H, Loose(S, X, e, H),
         NEW T, Elsewhere(S, T, e), Good(T, X), T.ok, NEW K, Shaped(T, e, K),
         LogOne(S, T, e), SizeOne(S, T, e)
  PROVE  Loose(T, X, e, K)
  <1>1. \A x \in Entries \ {e} : Entry(T, x, {}) \/ Raw(T, X, x)
    <2>1. SUFFICES ASSUME NEW x \in Entries \ {e}
                   PROVE  Entry(T, x, {}) \/ Raw(T, X, x)
      OBVIOUS
    <2>2. SameEntry(S, T, x) /\ (Entry(S, x, {}) \/ Raw(S, X, x))
      BY DEF Loose, Elsewhere
    <2>3. Entry(S, x, {}) => Entry(T, x, {})
      BY <2>2, SameStays
    <2>4. Raw(S, X, x) => Raw(T, X, x)
      BY <2>2 DEF Raw, SameEntry
    <2>. QED
      BY <2>2, <2>3, <2>4
  <1>2. \A x \in Entries : S.swap[x] = "SWAPOUT_DONE" => S.filen[x] # -1
    BY DEF Loose, Entry, Raw, Shaped, SwapOK
  <1>3. LogExact(T)
    BY <1>2, LogFollows DEF Loose, Good
  <1>4. SizeIs(T)
    BY SizeFollows DEF Loose
  <1>. QED
    BY <1>1, <1>3, <1>4 DEF Loose

LEMMA TouchesTrans ==
  ASSUME NEW S, NEW T, NEW U, NEW e, NEW D, NEW E, Touches(S, T, e, D), Touches(T, U, e, E)
  PROVE  Touches(S, U, e, D \cup E)
  <1>1. Elsewhere(S, U, e)
    BY DEF Touches, Elsewhere, SameEntry
  <1>. QED
    BY <1>1 DEF Touches

LEMMA TouchesRefl ==
  ASSUME NEW S \in Store, NEW e, NEW D
  PROVE  Touches(S, S, e, D)
  BY DEF Touches, Elsewhere, SameEntry

(* A field of e, the log or the file map is set.                             *)
LEMMA PutKey ==
  ASSUME NEW S \in Store, NEW e \in Entries, NEW v \in Keys \cup {Private, NoKey}
  PROVE  LET T == [S EXCEPT !.key[e] = v] IN Touches(S, T, e, {"key"}) /\ T.key[e] = v
  <1> DEFINE T == [S EXCEPT !.key[e] = v]
  <1>1. T \in Store /\ S.key \in [Entries -> Keys \cup {Private, NoKey}]
    BY DEF Store
  <1>2. /\ T.url = S.url /\ T.lock = S.lock /\ T.flags = S.flags /\ T.status = S.status
        /\ T.swap = S.swap /\ T.filen = S.filen /\ T.mem = S.mem /\ T.sio = S.sio
        /\ T.clients = S.clients /\ T.abort = S.abort /\ T.map = S.map /\ T.log = S.log
        /\ T.late = S.late /\ T.size = S.size /\ T.rebuild = S.rebuild /\ T.ok = S.ok
        /\ T.key = [S.key EXCEPT ![e] = v]
    BY DEF Store
  <1> HIDE DEF T
  <1>3. T.key[e] = v /\ \A x \in Entries \ {e} : T.key[x] = S.key[x]
    BY <1>1, <1>2
  <1>4. Elsewhere(S, T, e)
    BY <1>1, <1>2, <1>3 DEF Elsewhere, SameEntry
  <1>5. Touches(S, T, e, {"key"})
    BY <1>2, <1>4 DEF Touches
  <1>. QED
    BY <1>3, <1>5 DEF T

LEMMA PutLock ==
  ASSUME NEW S \in Store, NEW e \in Entries, NEW v \in SUBSET Holders
  PROVE  LET T == [S EXCEPT !.lock[e] = v] IN Touches(S, T, e, {"lock"}) /\ T.lock[e] = v
  <1> DEFINE T == [S EXCEPT !.lock[e] = v]
  <1>1. T \in Store /\ S.lock \in [Entries -> SUBSET Holders]
    BY DEF Store
  <1>2. /\ T.key = S.key /\ T.url = S.url /\ T.flags = S.flags /\ T.status = S.status
        /\ T.swap = S.swap /\ T.filen = S.filen /\ T.mem = S.mem /\ T.sio = S.sio
        /\ T.clients = S.clients /\ T.abort = S.abort /\ T.map = S.map /\ T.log = S.log
        /\ T.late = S.late /\ T.size = S.size /\ T.rebuild = S.rebuild /\ T.ok = S.ok
        /\ T.lock = [S.lock EXCEPT ![e] = v]
    BY DEF Store
  <1> HIDE DEF T
  <1>3. T.lock[e] = v /\ \A x \in Entries \ {e} : T.lock[x] = S.lock[x]
    BY <1>1, <1>2
  <1>4. Elsewhere(S, T, e)
    BY <1>1, <1>2, <1>3 DEF Elsewhere, SameEntry
  <1>5. Touches(S, T, e, {"lock"})
    BY <1>2, <1>4 DEF Touches
  <1>. QED
    BY <1>3, <1>5 DEF T

LEMMA PutFlags ==
  ASSUME NEW S \in Store, NEW e \in Entries, NEW v \in SUBSET Flags
  PROVE  LET T == [S EXCEPT !.flags[e] = v] IN Touches(S, T, e, {"flags"}) /\ T.flags[e] = v
  <1> DEFINE T == [S EXCEPT !.flags[e] = v]
  <1>1. T \in Store /\ S.flags \in [Entries -> SUBSET Flags]
    BY DEF Store
  <1>2. /\ T.key = S.key /\ T.url = S.url /\ T.lock = S.lock /\ T.status = S.status
        /\ T.swap = S.swap /\ T.filen = S.filen /\ T.mem = S.mem /\ T.sio = S.sio
        /\ T.clients = S.clients /\ T.abort = S.abort /\ T.map = S.map /\ T.log = S.log
        /\ T.late = S.late /\ T.size = S.size /\ T.rebuild = S.rebuild /\ T.ok = S.ok
        /\ T.flags = [S.flags EXCEPT ![e] = v]
    BY DEF Store
  <1> HIDE DEF T
  <1>3. T.flags[e] = v /\ \A x \in Entries \ {e} : T.flags[x] = S.flags[x]
    BY <1>1, <1>2
  <1>4. Elsewhere(S, T, e)
    BY <1>1, <1>2, <1>3 DEF Elsewhere, SameEntry
  <1>5. Touches(S, T, e, {"flags"})
    BY <1>2, <1>4 DEF Touches
  <1>. QED
    BY <1>3, <1>5 DEF T

LEMMA PutStatus ==
  ASSUME NEW S \in Store, NEW e \in Entries, NEW v \in {"STORE_OK", "STORE_PENDING"}
  PROVE  LET T == [S EXCEPT !.status[e] = v] IN Touches(S, T, e, {"status"}) /\ T.status[e] = v
  <1> DEFINE T == [S EXCEPT !.status[e] = v]
  <1>1. T \in Store /\ S.status \in [Entries -> {"STORE_OK", "STORE_PENDING"}]
    BY DEF Store
  <1>2. /\ T.key = S.key /\ T.url = S.url /\ T.lock = S.lock /\ T.flags = S.flags
        /\ T.swap = S.swap /\ T.filen = S.filen /\ T.mem = S.mem /\ T.sio = S.sio
        /\ T.clients = S.clients /\ T.abort = S.abort /\ T.map = S.map /\ T.log = S.log
        /\ T.late = S.late /\ T.size = S.size /\ T.rebuild = S.rebuild /\ T.ok = S.ok
        /\ T.status = [S.status EXCEPT ![e] = v]
    BY DEF Store
  <1> HIDE DEF T
  <1>3. T.status[e] = v /\ \A x \in Entries \ {e} : T.status[x] = S.status[x]
    BY <1>1, <1>2
  <1>4. Elsewhere(S, T, e)
    BY <1>1, <1>2, <1>3 DEF Elsewhere, SameEntry
  <1>5. Touches(S, T, e, {"status"})
    BY <1>2, <1>4 DEF Touches
  <1>. QED
    BY <1>3, <1>5 DEF T

LEMMA PutMem ==
  ASSUME NEW S \in Store, NEW e \in Entries, NEW v \in {"NULL", "NOT_IN_MEMORY", "IN_MEMORY"}
  PROVE  LET T == [S EXCEPT !.mem[e] = v] IN Touches(S, T, e, {"mem"}) /\ T.mem[e] = v
  <1> DEFINE T == [S EXCEPT !.mem[e] = v]
  <1>1. T \in Store /\ S.mem \in [Entries -> {"NULL", "NOT_IN_MEMORY", "IN_MEMORY"}]
    BY DEF Store
  <1>2. /\ T.key = S.key /\ T.url = S.url /\ T.lock = S.lock /\ T.flags = S.flags
        /\ T.status = S.status /\ T.swap = S.swap /\ T.filen = S.filen /\ T.sio = S.sio
        /\ T.clients = S.clients /\ T.abort = S.abort /\ T.map = S.map /\ T.log = S.log
        /\ T.late = S.late /\ T.size = S.size /\ T.rebuild = S.rebuild /\ T.ok = S.ok
        /\ T.mem = [S.mem EXCEPT ![e] = v]
    BY DEF Store
  <1> HIDE DEF T
  <1>3. T.mem[e] = v /\ \A x \in Entries \ {e} : T.mem[x] = S.mem[x]
    BY <1>1, <1>2
  <1>4. Elsewhere(S, T, e)
    BY <1>1, <1>2, <1>3 DEF Elsewhere, SameEntry
  <1>5. Touches(S, T, e, {"mem"})
    BY <1>2, <1>4 DEF Touches
  <1>. QED
    BY <1>3, <1>5 DEF T

LEMMA PutSio ==
  ASSUME NEW S \in Store, NEW e \in Entries, NEW v \in BOOLEAN
  PROVE  LET T == [S EXCEPT !.sio[e] = v] IN Touches(S, T, e, {"sio"}) /\ T.sio[e] = v
  <1> DEFINE T == [S EXCEPT !.sio[e] = v]
  <1>1. T \in Store /\ S.sio \in [Entries -> BOOLEAN]
    BY DEF Store
  <1>2. /\ T.key = S.key /\ T.url = S.url /\ T.lock = S.lock /\ T.flags = S.flags
        /\ T.status = S.status /\ T.swap = S.swap /\ T.filen = S.filen /\ T.mem = S.mem
        /\ T.clients = S.clients /\ T.abort = S.abort /\ T.map = S.map /\ T.log = S.log
        /\ T.late = S.late /\ T.size = S.size /\ T.rebuild = S.rebuild /\ T.ok = S.ok
        /\ T.sio = [S.sio EXCEPT ![e] = v]
    BY DEF Store
  <1> HIDE DEF T
  <1>3. T.sio[e] = v /\ \A x \in Entries \ {e} : T.sio[x] = S.sio[x]
    BY <1>1, <1>2
  <1>4. Elsewhere(S, T, e)
    BY <1>1, <1>2, <1>3 DEF Elsewhere, SameEntry
  <1>5. Touches(S, T, e, {"sio"})
    BY <1>2, <1>4 DEF Touches
  <1>. QED
    BY <1>3, <1>5 DEF T

LEMMA PutClients ==
  ASSUME NEW S \in Store, NEW e \in Entries, NEW v \in SUBSET Clients
  PROVE  LET T == [S EXCEPT !.clients[e] = v] IN Touches(S, T, e, {"clients"}) /\ T.clients[e] = v
  <1> DEFINE T == [S EXCEPT !.clients[e] = v]
  <1>1. T \in Store /\ S.clients \in [Entries -> SUBSET Clients]
    BY DEF Store
  <1>2. /\ T.key = S.key /\ T.url = S.url /\ T.lock = S.lock /\ T.flags = S.flags
        /\ T.status = S.status /\ T.swap = S.swap /\ T.filen = S.filen /\ T.mem = S.mem
        /\ T.sio = S.sio /\ T.abort = S.abort /\ T.map = S.map /\ T.log = S.log
        /\ T.late = S.late /\ T.size = S.size /\ T.rebuild = S.rebuild /\ T.ok = S.ok
        /\ T.clients = [S.clients EXCEPT ![e] = v]
    BY DEF Store
  <1> HIDE DEF T
  <1>3. T.clients[e] = v /\ \A x \in Entries \ {e} : T.clients[x] = S.clients[x]
    BY <1>1, <1>2
  <1>4. Elsewhere(S, T, e)
    BY <1>1, <1>2, <1>3 DEF Elsewhere, SameEntry
  <1>5. Touches(S, T, e, {"clients"})
    BY <1>2, <1>4 DEF Touches
  <1>. QED
    BY <1>3, <1>5 DEF T

LEMMA PutAbort ==
  ASSUME NEW S \in Store, NEW e \in Entries, NEW v \in {"unset", "set", "queued"}
  PROVE  LET T == [S EXCEPT !.abort[e] = v] IN Touches(S, T, e, {"abort"}) /\ T.abort[e] = v
  <1> DEFINE T == [S EXCEPT !.abort[e] = v]
  <1>1. T \in Store /\ S.abort \in [Entries -> {"unset", "set", "queued"}]
    BY DEF Store
  <1>2. /\ T.key = S.key /\ T.url = S.url /\ T.lock = S.lock /\ T.flags = S.flags
        /\ T.status = S.status /\ T.swap = S.swap /\ T.filen = S.filen /\ T.mem = S.mem
        /\ T.sio = S.sio /\ T.clients = S.clients /\ T.map = S.map /\ T.log = S.log
        /\ T.late = S.late /\ T.size = S.size /\ T.rebuild = S.rebuild /\ T.ok = S.ok
        /\ T.abort = [S.abort EXCEPT ![e] = v]
    BY DEF Store
  <1> HIDE DEF T
  <1>3. T.abort[e] = v /\ \A x \in Entries \ {e} : T.abort[x] = S.abort[x]
    BY <1>1, <1>2
  <1>4. Elsewhere(S, T, e)
    BY <1>1, <1>2, <1>3 DEF Elsewhere, SameEntry
  <1>5. Touches(S, T, e, {"abort"})
    BY <1>2, <1>4 DEF Touches
  <1>. QED
    BY <1>3, <1>5 DEF T

LEMMA PutLog ==
  ASSUME NEW S \in Store, NEW e \in Entries, NEW v \in SUBSET (Keys \X Files)
  PROVE  LET T == [S EXCEPT !.log = v] IN Touches(S, T, e, {"log"}) /\ T.log = v
  <1> DEFINE T == [S EXCEPT !.log = v]
  <1>1. T \in Store
    BY DEF Store
  <1>2. /\ T.key = S.key /\ T.url = S.url /\ T.lock = S.lock /\ T.flags = S.flags
        /\ T.status = S.status /\ T.swap = S.swap /\ T.filen = S.filen /\ T.mem = S.mem
        /\ T.sio = S.sio /\ T.clients = S.clients /\ T.abort = S.abort /\ T.map = S.map
        /\ T.late = S.late /\ T.size = S.size /\ T.rebuild = S.rebuild /\ T.ok = S.ok
        /\ T.log = v
    BY DEF Store
  <1> HIDE DEF T
  <1>4. Elsewhere(S, T, e)
    BY <1>1, <1>2 DEF Elsewhere, SameEntry
  <1>5. Touches(S, T, e, {"log"})
    BY <1>2, <1>4 DEF Touches
  <1>. QED
    BY <1>2, <1>5 DEF T

LEMMA PutMap ==
  ASSUME NEW S \in Store, NEW e \in Entries, NEW v \in SUBSET Files
  PROVE  LET T == [S EXCEPT !.map = v] IN Touches(S, T, e, {}) /\ T.map = v
  <1> DEFINE T == [S EXCEPT !.map = v]
  <1>1. T \in Store
    BY DEF Store
  <1>2. /\ T.key = S.key /\ T.url = S.url /\ T.lock = S.lock /\ T.flags = S.flags
        /\ T.status = S.status /\ T.swap = S.swap /\ T.filen = S.filen /\ T.mem = S.mem
        /\ T.sio = S.sio /\ T.clients = S.clients /\ T.abort = S.abort /\ T.log = S.log
        /\ T.late = S.late /\ T.size = S.size /\ T.rebuild = S.rebuild /\ T.ok = S.ok
        /\ T.map = v
    BY DEF Store
  <1> HIDE DEF T
  <1>4. Elsewhere(S, T, e)
    BY <1>1, <1>2 DEF Elsewhere, SameEntry
  <1>5. Touches(S, T, e, {})
    BY <1>2, <1>4 DEF Touches
  <1>. QED
    BY <1>2, <1>5 DEF T

-----------------------------------------------------------------------------
(* Keys, flags and release.                                                  *)

(* An assertion of storeDirSwapLog holds of a public entry with a file.      *)
LEMMA SwapLogOn ==
  ASSUME NEW S \in Store, S.ok, NEW e \in Entries, S.key[e] \in Keys, S.filen[e] # -1, NEW op
  PROVE  LET T == storeDirSwapLog(S, e, op)
         IN  /\ Touches(S, T, e, {"log"})
             /\ T.log = IF op = "ADD" THEN S.log \cup {<<S.key[e], S.filen[e]>>}
                        ELSE S.log \ {<<S.key[e], S.filen[e]>>}
  <1> DEFINE L == IF op = "ADD" THEN S.log \cup LogRecord(S, e) ELSE S.log \ LogRecord(S, e)
  <1>1. S.filen[e] \in Files /\ S.log \subseteq Keys \X Files
    BY DEF Store
  <1>2. Must(S, Public(S, e) /\ S.filen[e] \in Files) = S
    BY <1>1, MustTrue DEF Public
  <1>3. L \in SUBSET (Keys \X Files)
    BY <1>1 DEF LogRecord
  <1>4. storeDirSwapLog(S, e, op) = [S EXCEPT !.log = L]
    BY <1>1, <1>2 DEF storeDirSwapLog, Public
  <1> HIDE DEF L
  <1>5. /\ Touches(S, [S EXCEPT !.log = L], e, {"log"})
        /\ [S EXCEPT !.log = L].log = L
    BY <1>3, PutLog
  <1>. QED
    BY <1>4, <1>5 DEF L, LogRecord

LEMMA SwapLogDel ==
  ASSUME NEW S \in Store, S.ok, NEW e \in Entries, S.key[e] \in Keys, S.filen[e] # -1
  PROVE  LET T == storeDirSwapLog(S, e, "DEL")
         IN  Touches(S, T, e, {"log"}) /\ T.log = S.log \ {<<S.key[e], S.filen[e]>>}
  BY SwapLogOn

LEMMA SetPrivateTouches ==
  ASSUME NEW S \in Store, S.ok, NEW e \in Entries, S.key[e] = NoKey => S.filen[e] = -1
  PROVE  LET T == storeSetPrivateKey(S, e)
         IN  /\ Touches(S, T, e, {"key", "log"}) /\ T.key[e] = Private
             /\ \/ T.log = S.log /\ (S.key[e] \notin Keys \/ S.filen[e] = -1)
                \/ T.log = S.log \ {<<S.key[e], S.filen[e]>>} /\ S.filen[e] # -1
  <1> DEFINE T == storeSetPrivateKey(S, e)
             L == IF Live(S, e) /\ S.filen[e] # -1 THEN storeDirSwapLog(S, e, "DEL") ELSE S
  <1>0. S.key[e] \in Keys \cup {Private, NoKey} /\ Private \notin Keys /\ NoKey \notin Keys
    BY KeysAssumption DEF Store
  <1>1. CASE S.key[e] = Private
    <2>1. T = S
      BY <1>1 DEF storeSetPrivateKey
    <2>. QED
      BY <1>0, <1>1, <2>1, TouchesRefl
  <1>2. CASE S.key[e] # Private
    <2>1. T = [L EXCEPT !.key[e] = Private]
      BY <1>2 DEF storeSetPrivateKey
    <2>2. /\ Touches(S, L, e, {"log"})
          /\ \/ L.log = S.log /\ (S.key[e] \notin Keys \/ S.filen[e] = -1)
             \/ L.log = S.log \ {<<S.key[e], S.filen[e]>>} /\ S.filen[e] # -1
      <3>1. CASE Live(S, e) /\ S.filen[e] # -1
        <4>1. S.key[e] \in Keys
          BY <1>0, <1>2, <3>1 DEF Live
        <4>2. L = storeDirSwapLog(S, e, "DEL")
          BY <3>1
        <4>3. Touches(S, L, e, {"log"}) /\ L.log = S.log \ {<<S.key[e], S.filen[e]>>}
          BY <3>1, <4>1, <4>2, SwapLogOn
        <4>. QED
          BY <3>1, <4>3
      <3>2. CASE ~(Live(S, e) /\ S.filen[e] # -1)
        <4>1. L = S
          BY <3>2
        <4>. QED
          BY <3>2, <4>1, <1>0, TouchesRefl DEF Live
      <3>. QED
        BY <3>1, <3>2
    <2>3. L \in Store
      BY <2>2 DEF Touches, Elsewhere
    <2> HIDE DEF L, T
    <2>4. Touches(L, T, e, {"key"}) /\ T.key[e] = Private
      BY <2>1, <2>3, PutKey
    <2>5. Touches(S, T, e, {"log"} \cup {"key"})
      BY <2>2, <2>4, TouchesTrans
    <2>6. {"log"} \cup {"key"} = {"key", "log"}
      OBVIOUS
    <2>7. T.log = L.log
      BY <2>4 DEF Touches
    <2>8. Touches(S, T, e, {"key", "log"})
      BY <2>5, <2>6
    <2>9. \/ T.log = S.log /\ (S.key[e] \notin Keys \/ S.filen[e] = -1)
          \/ T.log = S.log \ {<<S.key[e], S.filen[e]>>} /\ S.filen[e] # -1
      BY <2>2, <2>7
    <2>. QED
      BY <2>4, <2>8, <2>9 DEF T
  <1>. QED
    BY <1>1, <1>2

LEMMA FlagTouches ==
  ASSUME NEW S \in Store, NEW e \in Entries, NEW f \in Flags
  PROVE  /\ Touches(S, SetFlag(S, e, f), e, {"flags"})
         /\ SetFlag(S, e, f).flags[e] = S.flags[e] \cup {f}
         /\ Touches(S, ClrFlag(S, e, f), e, {"flags"})
         /\ ClrFlag(S, e, f).flags[e] = S.flags[e] \ {f}
  <1>1. S.flags[e] \cup {f} \in SUBSET Flags /\ S.flags[e] \ {f} \in SUBSET Flags
    BY DEF Store
  <1>2. /\ SetFlag(S, e, f) = [S EXCEPT !.flags[e] = S.flags[e] \cup {f}]
        /\ ClrFlag(S, e, f) = [S EXCEPT !.flags[e] = S.flags[e] \ {f}]
    BY DEF SetFlag, ClrFlag, Store
  <1>3. ASSUME NEW v \in SUBSET Flags
        PROVE  /\ Touches(S, [S EXCEPT !.flags[e] = v], e, {"flags"})
               /\ [S EXCEPT !.flags[e] = v].flags[e] = v
    BY PutFlags
  <1>4. /\ Touches(S, SetFlag(S, e, f), e, {"flags"})
        /\ SetFlag(S, e, f).flags[e] = S.flags[e] \cup {f}
    BY <1>1, <1>2, <1>3, Zenon
  <1>5. /\ Touches(S, ClrFlag(S, e, f), e, {"flags"})
        /\ ClrFlag(S, e, f).flags[e] = S.flags[e] \ {f}
    BY <1>1, <1>2, <1>3, Zenon
  <1>. QED
    BY <1>4, <1>5

(* A change of flags leaves the log and, but for ENTRY_VALIDATED, the        *)
(* account alone.                                                            *)
LEMMA QuietLog ==
  ASSUME NEW S, NEW T, NEW e, NEW D, Touches(S, T, e, D),
         {"key", "swap", "filen", "log"} \cap D = {}
  PROVE  LogOne(S, T, e)
  <1>1. T.key[e] = S.key[e] /\ T.swap[e] = S.swap[e] /\ T.filen[e] = S.filen[e] /\ T.log = S.log
    BY DEF Touches
  <1>. QED
    BY <1>1 DEF LogOne, Logged

LEMMA QuietSize ==
  ASSUME NEW S, NEW T, NEW e, NEW D, Touches(S, T, e, D),
         {"swap", "size"} \cap D = {},
         "ENTRY_VALIDATED" \in T.flags[e] <=> "ENTRY_VALIDATED" \in S.flags[e]
  PROVE  SizeOne(S, T, e)
  <1>1. T.swap[e] = S.swap[e] /\ T.size = S.size
    BY DEF Touches
  <1>. QED
    BY <1>1 DEF SizeOne, Stored

(* The references that leave an entry are those in G; while its server side  *)
(* goes on the entry waits for a header or not as before, gets no client,    *)
(* and is over only if it was aborted when the last one had left.            *)
Fate(S, T, e) ==
    /\ "ENTRY_FWD_HDR_WAIT" \in T.flags[e] <=> "ENTRY_FWD_HDR_WAIT" \in S.flags[e]
    /\ T.clients[e] \subseteq S.clients[e]
    /\ \/ /\ T.status[e] = S.status[e]
          /\ "ENTRY_ABORTED" \in T.flags[e] <=> "ENTRY_ABORTED" \in S.flags[e]
       \/ T.status[e] = "STORE_OK" /\ "ENTRY_ABORTED" \in T.flags[e] /\ T.clients[e] = {}
Acts(S, T, e, G) ==
    /\ Elsewhere(S, T, e) /\ Out(T, e) = Out(S, e) \ G
    /\ F \in T.lock[e] => Fate(S, T, e)

LEMMA ActsTrans ==
  ASSUME NEW S, NEW T, NEW U, NEW e, NEW G, NEW K, Acts(S, T, e, G), Acts(T, U, e, K)
  PROVE  Acts(S, U, e, G \cup K)
  <1>1. Elsewhere(S, U, e)
    BY DEF Acts, Elsewhere, SameEntry
  <1>2. Out(U, e) = Out(S, e) \ (G \cup K)
    BY DEF Acts
  <1>3. F \in U.lock[e] => F \in T.lock[e]
    BY HoldersDiffer DEF Acts, Out
  <1>4. F \in U.lock[e] => Fate(S, U, e)
    BY <1>3 DEF Acts, Fate
  <1>. QED
    BY <1>1, <1>2, <1>4 DEF Acts

LEMMA ActsRefl ==
  ASSUME NEW S \in Store, NEW e
  PROVE  Acts(S, S, e, {})
  BY DEF Acts, Elsewhere, SameEntry, Out, Fate

LEMMA TouchesActs ==
  ASSUME NEW S, NEW T, NEW e, NEW D, Touches(S, T, e, D), {"lock", "status"} \cap D = {},
         T.clients[e] \subseteq S.clients[e],
         "ENTRY_FWD_HDR_WAIT" \in T.flags[e] <=> "ENTRY_FWD_HDR_WAIT" \in S.flags[e],
         "ENTRY_ABORTED" \in T.flags[e] <=> "ENTRY_ABORTED" \in S.flags[e]
  PROVE  Acts(S, T, e, {})
  BY DEF Touches, Acts, Out, Fate

(* A change of key and flags alone leaves an entry in shape, unless it       *)
(* loses or gains a flag that matters.                                       *)
LEMMA FlagsShaped ==
  ASSUME NEW S, NEW T, NEW e \in Entries, NEW H, Shaped(S, e, H),
         Touches(S, T, e, {"key", "log", "flags", "size", "ok"}),
         T.key[e] = NoKey => S.key[e] = NoKey /\ T.flags[e] = S.flags[e],
         Late \in S.lock[e] /\ "RELEASE_REQUEST" \in S.flags[e] => "RELEASE_REQUEST" \in T.flags[e],
         "ENTRY_ABORTED" \in T.flags[e] => "RELEASE_REQUEST" \in T.flags[e],
         "ENTRY_FWD_HDR_WAIT" \in T.flags[e] => "ENTRY_FWD_HDR_WAIT" \in S.flags[e],
         "ENTRY_ABORTED" \in S.flags[e] => "ENTRY_ABORTED" \in T.flags[e],
         S.swap[e] = "SWAPOUT_WRITING" =>
             ("ENTRY_NEGCACHED" \in T.flags[e] => "ENTRY_NEGCACHED" \in S.flags[e]),
         S.key[e] # NoKey \/ T.key[e] = NoKey,
         "ENTRY_VALIDATED" \in S.flags[e] => "ENTRY_VALIDATED" \in T.flags[e]
  PROVE  Shaped(T, e, H)
  <1>1. /\ T.url[e] = S.url[e] /\ T.lock[e] = S.lock[e] /\ T.status[e] = S.status[e]
        /\ T.swap[e] = S.swap[e] /\ T.filen[e] = S.filen[e] /\ T.mem[e] = S.mem[e]
        /\ T.sio[e] = S.sio[e] /\ T.clients[e] = S.clients[e] /\ T.abort[e] = S.abort[e]
        /\ (e \in T.late <=> e \in S.late)
    BY DEF Touches
  <1>2. FreeOK(T, e)
    BY <1>1 DEF Shaped, FreeOK
  <1>3. MemOK(T, e)
    BY <1>1 DEF Shaped, MemOK
  <1>4. HoldOK(T, e, H)
    BY <1>1 DEF Shaped, HoldOK
  <1>5. SwapOK(T, e) /\ AbortOK(T, e)
    BY <1>1 DEF Shaped, SwapOK, AbortOK
  <1>. QED
    BY <1>2, <1>3, <1>4, <1>5 DEF Shaped

(* A smaller change is a change.                                             *)
LEMMA TouchesMore ==
  ASSUME NEW S, NEW T, NEW e, NEW D, NEW E, D \subseteq E, Touches(S, T, e, D)
  PROVE  Touches(S, T, e, E)
  BY DEF Touches

LEMMA SetPrivateLoose ==
  ASSUME NEW S, NEW X, NEW e \in Entries, NEW H, Loose(S, X, e, H), S.key[e] # NoKey
  PROVE  LET T == storeSetPrivateKey(S, e)
         IN  /\ Loose(T, X, e, H) /\ Touches(S, T, e, {"key", "log"}) /\ T.key[e] = Private
             /\ Acts(S, T, e, {}) /\ (S.key[e] # NoKey /\ LeakOK(S, e) => LeakOK(T, e))
  <1> DEFINE T == storeSetPrivateKey(S, e)
  <1>1. S \in Store /\ S.ok /\ Good(S, X) /\ Shaped(S, e, H)
    BY DEF Loose, Good
  <1>2. /\ Touches(S, T, e, {"key", "log"}) /\ T.key[e] = Private
        /\ \/ T.log = S.log /\ (S.key[e] \notin Keys \/ S.filen[e] = -1)
           \/ T.log = S.log \ {<<S.key[e], S.filen[e]>>} /\ S.filen[e] # -1
    BY <1>1, SetPrivateTouches DEF Shaped, FreeOK
  <1>3. Good(T, X)
    BY <1>1, storeSetPrivateKeyStep, StepGood
  <1> HIDE DEF T
  <1>4. T.key[e] \notin Keys /\ T.key[e] # NoKey
    BY <1>2, KeysAssumption
  <1>5. Shaped(T, e, H)
    <2>1. Touches(S, T, e, {"key", "log", "flags", "size", "ok"}) /\ T.flags[e] = S.flags[e]
      BY <1>2, TouchesMore DEF Touches
    <2>. QED
      BY <1>1, <1>4, <2>1, FlagsShaped DEF Shaped, AbortOK
  <1>6. LogOne(S, T, e)
    BY <1>1, <1>2, <1>4 DEF Touches, LogOne, Logged, Shaped, SwapOK
  <1>7. T.ok /\ Elsewhere(S, T, e) /\ T.flags[e] = S.flags[e]
    BY <1>1, <1>2 DEF Touches
  <1>8. SizeOne(S, T, e)
    BY <1>2, <1>7, QuietSize
  <1>9. Loose(T, X, e, H)
    BY <1>3, <1>5, <1>6, <1>7, <1>8, Change
  <1>10. Acts(S, T, e, {})
    <2>1. T.clients[e] = S.clients[e]
      BY <1>2 DEF Touches
    <2>. QED
      BY <2>1, <1>2, <1>7, TouchesActs
  <1>11. S.key[e] # NoKey /\ LeakOK(S, e) => LeakOK(T, e)
    BY <1>2 DEF Touches, LeakOK
  <1>. QED
    BY <1>2, <1>9, <1>10, <1>11 DEF T

Released(S, T, e) ==
    \/ T.flags[e] = S.flags[e] /\ "RELEASE_REQUEST" \in S.flags[e] /\ T.key[e] = S.key[e]
    \/ /\ T.flags[e] = (S.flags[e] \ {"ENTRY_CACHABLE"}) \cup {"RELEASE_REQUEST"}
       /\ T.key[e] = Private

LEMMA ReleaseRequestTouches ==
  ASSUME NEW S \in Store, S.ok, NEW e \in Entries, S.key[e] = NoKey => S.filen[e] = -1
  PROVE  LET T == storeReleaseRequest(S, e)
         IN  /\ Touches(S, T, e, {"key", "log", "flags"}) /\ Released(S, T, e)
             /\ \/ T.log = S.log /\ (T.key[e] = S.key[e] \/ S.key[e] \notin Keys \/ S.filen[e] = -1)
                \/ T.log = S.log \ {<<S.key[e], S.filen[e]>>} /\ S.filen[e] # -1 /\ T.key[e] = Private
  <1> DEFINE T == storeReleaseRequest(S, e)
  <1>1. CASE Has(S, e, "RELEASE_REQUEST")
    <2>1. T = S
      BY <1>1 DEF storeReleaseRequest
    <2>. QED
      BY <1>1, <2>1, TouchesRefl DEF Has, Released
  <1>2. CASE ~Has(S, e, "RELEASE_REQUEST")
    <2> DEFINE A == ClrFlag(S, e, "ENTRY_CACHABLE")
               B == SetFlag(A, e, "RELEASE_REQUEST")
    <2>1. T = storeSetPrivateKey(B, e)
      BY <1>2 DEF storeReleaseRequest
    <2>2. "ENTRY_CACHABLE" \in Flags /\ "RELEASE_REQUEST" \in Flags
      BY DEF Flags
    <2>3. Touches(S, A, e, {"flags"}) /\ A.flags[e] = S.flags[e] \ {"ENTRY_CACHABLE"}
      BY <2>2, FlagTouches
    <2>4. A \in Store
      BY <2>3 DEF Touches, Elsewhere
    <2>5. Touches(A, B, e, {"flags"}) /\ B.flags[e] = A.flags[e] \cup {"RELEASE_REQUEST"}
      BY <2>2, <2>4, FlagTouches
    <2> HIDE DEF A, B, T
    <2>6. Touches(S, B, e, {"flags"} \cup {"flags"})
      BY <2>3, <2>5, TouchesTrans
    <2>7. {"flags"} \cup {"flags"} = {"flags"}
      OBVIOUS
    <2>8. Touches(S, B, e, {"flags"})
      BY <2>6, <2>7
    <2>9. /\ B \in Store /\ B.ok /\ B.key[e] = S.key[e] /\ B.filen[e] = S.filen[e]
          /\ B.log = S.log
      BY <2>8 DEF Touches, Elsewhere
    <2>10. /\ Touches(B, T, e, {"key", "log"}) /\ T.key[e] = Private
           /\ \/ T.log = B.log /\ (B.key[e] \notin Keys \/ B.filen[e] = -1)
              \/ T.log = B.log \ {<<B.key[e], B.filen[e]>>} /\ B.filen[e] # -1
      BY <2>1, <2>9, SetPrivateTouches
    <2>11. Touches(S, T, e, {"flags"} \cup {"key", "log"})
      BY <2>8, <2>10, TouchesTrans
    <2>12. {"flags"} \cup {"key", "log"} = {"key", "log", "flags"}
      OBVIOUS
    <2>13. T.flags[e] = (S.flags[e] \ {"ENTRY_CACHABLE"}) \cup {"RELEASE_REQUEST"}
      BY <2>3, <2>5, <2>10 DEF Touches
    <2>14. Touches(S, T, e, {"key", "log", "flags"})
      BY <2>11, <2>12
    <2>. QED
      BY <2>9, <2>10, <2>13, <2>14 DEF Released, T
  <1>. QED
    BY <1>1, <1>2

LEMMA ReleaseRequestLoose ==
  ASSUME NEW S, NEW X, NEW e \in Entries, NEW H, Loose(S, X, e, H), S.key[e] # NoKey
  PROVE  LET T == storeReleaseRequest(S, e)
         IN  /\ Loose(T, X, e, H) /\ Touches(S, T, e, {"key", "log", "flags"})
             /\ Released(S, T, e) /\ Acts(S, T, e, {})
             /\ S.lock[e] # {} => LeakOK(T, e)
  <1> DEFINE T == storeReleaseRequest(S, e)
  <1>1. S \in Store /\ S.ok /\ Good(S, X) /\ Shaped(S, e, H)
    BY DEF Loose, Good
  <1>2. /\ Touches(S, T, e, {"key", "log", "flags"}) /\ Released(S, T, e)
        /\ \/ T.log = S.log /\ (T.key[e] = S.key[e] \/ S.key[e] \notin Keys \/ S.filen[e] = -1)
           \/ T.log = S.log \ {<<S.key[e], S.filen[e]>>} /\ S.filen[e] # -1 /\ T.key[e] = Private
    BY <1>1, ReleaseRequestTouches DEF Shaped, FreeOK
  <1>3. Good(T, X)
    BY <1>1, storeReleaseRequestStep, StepGood
  <1> HIDE DEF T
  <1>4. /\ T.key[e] \in {S.key[e], Private} /\ Private \notin Keys /\ Private # NoKey
        /\ \A f : f \notin {"ENTRY_CACHABLE", "RELEASE_REQUEST"} =>
              (f \in T.flags[e] <=> f \in S.flags[e])
        /\ "RELEASE_REQUEST" \in T.flags[e]
    <2>1. CASE /\ T.flags[e] = S.flags[e] /\ "RELEASE_REQUEST" \in S.flags[e]
               /\ T.key[e] = S.key[e]
      BY <2>1, KeysAssumption
    <2>2. CASE /\ T.flags[e] = (S.flags[e] \ {"ENTRY_CACHABLE"}) \cup {"RELEASE_REQUEST"}
               /\ T.key[e] = Private
      BY <2>2, KeysAssumption
    <2>. QED
      BY <1>2, <2>1, <2>2 DEF Released
  <1>5. Shaped(T, e, H)
    <2>1. Touches(S, T, e, {"key", "log", "flags", "size", "ok"})
      BY <1>2, TouchesMore
    <2>2. T.key[e] = NoKey => S.key[e] = NoKey /\ T.flags[e] = S.flags[e]
      BY <1>2, KeysAssumption DEF Released
    <2>. QED
      BY <1>1, <1>4, <2>1, <2>2, FlagsShaped
  <1>6. LogOne(S, T, e)
    BY <1>1, <1>2, <1>4 DEF Touches, LogOne, Logged, Shaped, SwapOK
  <1>7. T.ok /\ Elsewhere(S, T, e)
    BY <1>1, <1>2 DEF Touches
  <1>8. SizeOne(S, T, e)
    BY <1>2, <1>4, QuietSize
  <1>9. Loose(T, X, e, H)
    BY <1>3, <1>5, <1>6, <1>7, <1>8, Change
  <1>10. Acts(S, T, e, {})
    <2>1. T.clients[e] = S.clients[e]
      BY <1>2 DEF Touches
    <2>. QED
      BY <2>1, <1>2, <1>4, TouchesActs
  <1>11. S.lock[e] # {} => LeakOK(T, e)
    BY <1>2 DEF Touches, LeakOK
  <1>. QED
    BY <1>2, <1>9, <1>10, <1>11 DEF T

(* Memory objects are freed, and whole entries.                              *)
LEMMA DestroyMemTouches ==
  ASSUME NEW S \in Store, NEW e \in Entries, S.ok, ~S.sio[e]
  PROVE  LET T == destroy_MemObject(S, e)
         IN  /\ Touches(S, T, e, {"mem", "sio", "url", "clients", "abort"})
             /\ T.mem[e] = "NULL" /\ T.sio[e] = FALSE /\ T.url[e] = NoKey
             /\ T.clients[e] = {} /\ T.abort[e] = "unset"
  <1> DEFINE T == [S EXCEPT !.mem[e] = "NULL", !.sio[e] = FALSE, !.url[e] = NoKey,
                            !.clients[e] = {}, !.abort[e] = "unset"]
  <1>1. T \in Store
    BY DEF Store
  <1>2. /\ T.key = S.key /\ T.lock = S.lock /\ T.flags = S.flags /\ T.status = S.status
        /\ T.swap = S.swap /\ T.filen = S.filen /\ T.map = S.map /\ T.log = S.log
        /\ T.late = S.late /\ T.size = S.size /\ T.rebuild = S.rebuild /\ T.ok = S.ok
    BY DEF Store
  <1>3. /\ T.mem = [S.mem EXCEPT ![e] = "NULL"] /\ T.sio = [S.sio EXCEPT ![e] = FALSE]
        /\ T.url = [S.url EXCEPT ![e] = NoKey] /\ T.clients = [S.clients EXCEPT ![e] = {}]
        /\ T.abort = [S.abort EXCEPT ![e] = "unset"]
    BY DEF Store
  <1>4. /\ S.mem \in [Entries -> {"NULL", "NOT_IN_MEMORY", "IN_MEMORY"}]
        /\ S.sio \in [Entries -> BOOLEAN] /\ S.url \in [Entries -> Keys \cup {NoKey}]
        /\ S.clients \in [Entries -> SUBSET Clients]
        /\ S.abort \in [Entries -> {"unset", "set", "queued"}]
    BY DEF Store
  <1>5. destroy_MemObject(S, e) = T
    BY MustTrue DEF destroy_MemObject
  <1> HIDE DEF T
  <1>6. /\ T.mem[e] = "NULL" /\ T.sio[e] = FALSE /\ T.url[e] = NoKey /\ T.clients[e] = {}
        /\ T.abort[e] = "unset"
    BY <1>3, <1>4
  <1>7. \A x \in Entries \ {e} :
           /\ T.mem[x] = S.mem[x] /\ T.sio[x] = S.sio[x] /\ T.url[x] = S.url[x]
           /\ T.clients[x] = S.clients[x] /\ T.abort[x] = S.abort[x]
    BY <1>3, <1>4
  <1>8. Elsewhere(S, T, e)
    BY <1>1, <1>2, <1>7 DEF Elsewhere, SameEntry
  <1>9. Touches(S, T, e, {"mem", "sio", "url", "clients", "abort"})
    BY <1>2, <1>8 DEF Touches
  <1>. QED
    BY <1>5, <1>6, <1>9

Emptied(S, T, e) ==
    T = [S EXCEPT !.key[e] = NoKey, !.lock[e] = {}, !.flags[e] = {},
                  !.status[e] = "STORE_OK", !.swap[e] = "SWAPOUT_NONE", !.filen[e] = -1]
LEMMA EmptyTouches ==
  ASSUME NEW S \in Store, NEW e \in Entries, NEW T, Emptied(S, T, e)
  PROVE  /\ Touches(S, T, e, {"key", "lock", "flags", "status", "swap", "filen"})
         /\ T.key[e] = NoKey /\ T.lock[e] = {} /\ T.flags[e] = {}
         /\ T.status[e] = "STORE_OK" /\ T.swap[e] = "SWAPOUT_NONE" /\ T.filen[e] = -1
  <1>1. T \in Store
    BY DEF Store, Emptied
  <1>2. /\ T.url = S.url /\ T.mem = S.mem /\ T.sio = S.sio /\ T.clients = S.clients
        /\ T.abort = S.abort /\ T.map = S.map /\ T.log = S.log /\ T.late = S.late
        /\ T.size = S.size /\ T.rebuild = S.rebuild /\ T.ok = S.ok
    BY DEF Store, Emptied
  <1>3. /\ T.key = [S.key EXCEPT ![e] = NoKey] /\ T.lock = [S.lock EXCEPT ![e] = {}]
        /\ T.flags = [S.flags EXCEPT ![e] = {}]
        /\ T.status = [S.status EXCEPT ![e] = "STORE_OK"]
        /\ T.swap = [S.swap EXCEPT ![e] = "SWAPOUT_NONE"]
        /\ T.filen = [S.filen EXCEPT ![e] = -1]
    BY DEF Store, Emptied
  <1>4. /\ S.key \in [Entries -> Keys \cup {Private, NoKey}]
        /\ S.lock \in [Entries -> SUBSET Holders] /\ S.flags \in [Entries -> SUBSET Flags]
        /\ S.status \in [Entries -> {"STORE_OK", "STORE_PENDING"}]
        /\ S.swap \in [Entries -> {"SWAPOUT_NONE", "SWAPOUT_WRITING", "SWAPOUT_DONE"}]
        /\ S.filen \in [Entries -> Files \cup {-1}]
    BY DEF Store, Emptied
  <1>6. /\ T.key[e] = NoKey /\ T.lock[e] = {} /\ T.flags[e] = {}
        /\ T.status[e] = "STORE_OK" /\ T.swap[e] = "SWAPOUT_NONE" /\ T.filen[e] = -1
    BY <1>3, <1>4
  <1>7. \A x \in Entries \ {e} :
           /\ T.key[x] = S.key[x] /\ T.lock[x] = S.lock[x] /\ T.flags[x] = S.flags[x]
           /\ T.status[x] = S.status[x] /\ T.swap[x] = S.swap[x] /\ T.filen[x] = S.filen[x]
    BY <1>3, <1>4
  <1>8. Elsewhere(S, T, e)
    BY <1>1, <1>2, <1>7 DEF Elsewhere, SameEntry
  <1>9. Touches(S, T, e, {"key", "lock", "flags", "status", "swap", "filen"})
    BY <1>2, <1>8 DEF Touches
  <1>. QED
    BY <1>6, <1>9

LEMMA PutSize ==
  ASSUME NEW S \in Store, NEW e \in Entries, NEW v \in Int
  PROVE  LET T == [S EXCEPT !.size = v] IN Touches(S, T, e, {"size"}) /\ T.size = v
  <1> DEFINE T == [S EXCEPT !.size = v]
  <1>1. T \in Store
    BY DEF Store
  <1>2. /\ T.key = S.key /\ T.url = S.url /\ T.lock = S.lock /\ T.flags = S.flags
        /\ T.status = S.status /\ T.swap = S.swap /\ T.filen = S.filen /\ T.mem = S.mem
        /\ T.sio = S.sio /\ T.clients = S.clients /\ T.abort = S.abort /\ T.map = S.map
        /\ T.log = S.log /\ T.late = S.late /\ T.rebuild = S.rebuild /\ T.ok = S.ok
        /\ T.size = v
    BY DEF Store
  <1> HIDE DEF T
  <1>4. Elsewhere(S, T, e)
    BY <1>1, <1>2 DEF Elsewhere, SameEntry
  <1>5. Touches(S, T, e, {"size"})
    BY <1>2, <1>4 DEF Touches
  <1>. QED
    BY <1>2, <1>5 DEF T

(* Discard leaves an empty structure.                                        *)
LEMMA DiscardTouches ==
  ASSUME NEW S \in Store, NEW e \in Entries, S.ok, ~S.sio[e],
         S.key[e] = NoKey => S.filen[e] = -1
  PROVE  LET T == Discard(S, e)
         IN  /\ Elsewhere(S, T, e) /\ T.ok /\ (e \in T.late <=> e \in S.late)
             /\ T.key[e] = NoKey /\ T.lock[e] = {} /\ T.flags[e] = {}
             /\ T.status[e] = "STORE_OK" /\ T.swap[e] = "SWAPOUT_NONE" /\ T.filen[e] = -1
             /\ T.mem[e] = "NULL" /\ T.sio[e] = FALSE /\ T.clients[e] = {}
             /\ T.abort[e] = "unset"
             /\ T.size = IF S.filen[e] # -1 /\ Stored(S, e) THEN S.size - 1 ELSE S.size
             /\ \/ T.log = S.log /\ (S.key[e] \notin Keys \/ S.filen[e] = -1)
                \/ T.log = S.log \ {<<S.key[e], S.filen[e]>>} /\ S.filen[e] # -1
  <1> DEFINE V == storeUnlink(S, e)
             W == [V EXCEPT !.size = IF S.swap[e] = "SWAPOUT_DONE" /\ Has(S, e, "ENTRY_VALIDATED")
                                     THEN @ - 1 ELSE @]
             n == IF Stored(S, e) THEN S.size - 1 ELSE S.size
             U == IF S.filen[e] # -1 THEN W ELSE S
             L == IF S.filen[e] # -1 /\ S.key[e] # Private THEN storeDirSwapLog(U, e, "DEL") ELSE U
             M == destroy_MemObject(L, e)
             T == Discard(S, e)
  <1>1. S.key[e] \in Keys \cup {Private, NoKey} /\ Private \notin Keys /\ NoKey \notin Keys
    BY KeysAssumption DEF Store
  <1>2. Touches(S, V, e, {})
    <2>1. S.map \ {S.filen[e]} \in SUBSET Files
      BY DEF Store
    <2>2. V = [S EXCEPT !.map = S.map \ {S.filen[e]}]
      BY DEF storeUnlink
    <2>. QED
      BY <2>1, <2>2, PutMap
  <1>3. V \in Store /\ V.size = S.size /\ n \in Int
    BY <1>2 DEF Touches, Elsewhere, Store
  <1>4. Touches(V, W, e, {"size"}) /\ W.size = n
    <2>1. W = [V EXCEPT !.size = n]
      BY <1>3 DEF Stored, Has
    <2> HIDE DEF V, W, n
    <2>. QED
      BY <1>3, <2>1, PutSize
  <1>5. Touches(S, U, e, {"size"})
        /\ U.size = (IF S.filen[e] # -1 /\ Stored(S, e) THEN S.size - 1 ELSE S.size)
    <2>1. CASE S.filen[e] # -1
      <3>1. U = W
        BY <2>1
      <3> HIDE DEF U, V, W
      <3>2. Touches(S, U, e, {} \cup {"size"})
        BY <1>2, <1>4, <3>1, TouchesTrans
      <3>3. {} \cup {"size"} = {"size"}
        OBVIOUS
      <3>4. Touches(S, U, e, {"size"})
        BY <3>2, <3>3
      <3>. QED
        BY <1>4, <2>1, <3>1, <3>4
    <2>2. CASE S.filen[e] = -1
      BY <2>2, TouchesRefl
    <2>. QED
      BY <2>1, <2>2
  <1> HIDE DEF U
  <1>6. /\ U \in Store /\ U.ok /\ U.key[e] = S.key[e] /\ U.filen[e] = S.filen[e]
        /\ U.log = S.log /\ ~U.sio[e]
    BY <1>5 DEF Touches, Elsewhere
  <1>7. /\ Touches(U, L, e, {"log"})
        /\ \/ L.log = S.log /\ (S.key[e] \notin Keys \/ S.filen[e] = -1)
           \/ L.log = S.log \ {<<S.key[e], S.filen[e]>>} /\ S.filen[e] # -1
    <2>1. CASE S.filen[e] # -1 /\ S.key[e] # Private
      <3>1. S.key[e] \in Keys
        BY <1>1, <2>1
      <3>2. L = storeDirSwapLog(U, e, "DEL")
        BY <2>1
      <3> HIDE DEF L
      <3>3. Touches(U, L, e, {"log"}) /\ L.log = U.log \ {<<U.key[e], U.filen[e]>>}
        <4>1. U.key[e] \in Keys /\ U.filen[e] # -1
          BY <1>6, <2>1, <3>1
        <4>. QED
          BY <1>6, <3>2, <4>1, SwapLogDel
      <3>. QED
        BY <1>6, <2>1, <3>3
    <2>2. CASE ~(S.filen[e] # -1 /\ S.key[e] # Private)
      <3>1. L = U
        BY <2>2
      <3>. QED
        BY <1>1, <1>6, <2>2, <3>1, TouchesRefl
    <2>. QED
      BY <2>1, <2>2
  <1> HIDE DEF L
  <1>8. L \in Store /\ L.ok /\ ~L.sio[e]
    BY <1>6, <1>7 DEF Touches, Elsewhere
  <1>9. /\ Touches(L, M, e, {"mem", "sio", "url", "clients", "abort"})
        /\ M.mem[e] = "NULL" /\ M.sio[e] = FALSE /\ M.clients[e] = {} /\ M.abort[e] = "unset"
    BY <1>8, DestroyMemTouches
  <1>10. Emptied(M, T, e)
    BY DEF Discard, destroy_StoreEntry, L, U, Emptied
  <1> HIDE DEF M, T
  <1>11. M \in Store
    BY <1>9 DEF Touches, Elsewhere
  <1>12. /\ Touches(M, T, e, {"key", "lock", "flags", "status", "swap", "filen"})
         /\ T.key[e] = NoKey /\ T.lock[e] = {} /\ T.flags[e] = {}
         /\ T.status[e] = "STORE_OK" /\ T.swap[e] = "SWAPOUT_NONE" /\ T.filen[e] = -1
    BY <1>10, <1>11, EmptyTouches
  <1>13. Elsewhere(S, T, e)
    BY <1>5, <1>7, <1>9, <1>12 DEF Touches, Elsewhere, SameEntry
  <1>14. /\ M.ok = L.ok /\ (e \in M.late <=> e \in L.late) /\ M.size = L.size /\ M.log = L.log
    BY <1>9 DEF Touches
  <1>15. /\ T.ok = M.ok /\ (e \in T.late <=> e \in M.late) /\ T.size = M.size /\ T.log = M.log
         /\ T.mem[e] = M.mem[e] /\ T.sio[e] = M.sio[e] /\ T.clients[e] = M.clients[e]
         /\ T.abort[e] = M.abort[e]
    BY <1>12 DEF Touches
  <1>16. /\ L.ok /\ (e \in L.late <=> e \in S.late) /\ L.size = U.size
    BY <1>5, <1>7, <1>8 DEF Touches
  <1>. QED
    BY <1>5, <1>7, <1>9, <1>12, <1>13, <1>14, <1>15, <1>16 DEF T

LEMMA DiscardFine ==
  ASSUME NEW S, NEW X, NEW e \in Entries, Loose(S, X, e, {}), S.lock[e] = {}
  PROVE  LET T == Discard(S, e)
         IN  Fine(T, X, e, {}) /\ Acts(S, T, e, {}) /\ T.key[e] = NoKey
  <1> DEFINE T == Discard(S, e)
  <1>1. S \in Store /\ S.ok /\ Good(S, X) /\ Shaped(S, e, {}) /\ ~S.sio[e] /\ S.size \in Int
    BY DEF Loose, Good, Shaped, HoldOK, Store
  <1>2. S.key[e] = NoKey => S.filen[e] = -1
    BY <1>1 DEF Shaped, FreeOK
  <1>3. /\ Elsewhere(S, T, e) /\ T.ok /\ (e \in T.late <=> e \in S.late)
        /\ T.key[e] = NoKey /\ T.lock[e] = {} /\ T.flags[e] = {}
        /\ T.status[e] = "STORE_OK" /\ T.swap[e] = "SWAPOUT_NONE" /\ T.filen[e] = -1
        /\ T.mem[e] = "NULL" /\ T.sio[e] = FALSE /\ T.clients[e] = {}
        /\ T.abort[e] = "unset"
        /\ T.size = (IF S.filen[e] # -1 /\ Stored(S, e) THEN S.size - 1 ELSE S.size)
        /\ \/ T.log = S.log /\ (S.key[e] \notin Keys \/ S.filen[e] = -1)
           \/ T.log = S.log \ {<<S.key[e], S.filen[e]>>} /\ S.filen[e] # -1
    BY <1>1, <1>2, DiscardTouches
  <1>4. Good(T, X)
    BY <1>1, DiscardStep, StepGood
  <1> HIDE DEF T
  <1>5. Shaped(T, e, {})
    <2>1. e \notin S.late
      BY <1>1 DEF Shaped, HoldOK
    <2>. QED
      BY <1>3, <2>1 DEF Shaped, FreeOK, MemOK, HoldOK, SwapOK, AbortOK
  <1>6. LogOne(S, T, e)
    BY <1>1, <1>3, KeysAssumption DEF LogOne, Logged, Shaped, SwapOK
  <1>7. SizeOne(S, T, e)
    <2>1. ~Stored(T, e) /\ (S.filen[e] = -1 => ~Stored(S, e))
      BY <1>1, <1>3 DEF Stored, Shaped, SwapOK
    <2>. QED
      BY <1>3, <2>1 DEF SizeOne
  <1>8. Loose(T, X, e, {})
    BY <1>3, <1>4, <1>5, <1>6, <1>7, Change
  <1>9. LeakOK(T, e) /\ Acts(S, T, e, {})
    BY <1>3 DEF LeakOK, Acts, Out
  <1>. QED
    BY <1>3, <1>8, <1>9 DEF Fine, T

(* Nothing refers to an entry nobody holds.                                  *)
LEMMA Unheld ==
  ASSUME NEW S \in Store, NEW e \in Entries, NEW H, Shaped(S, e, H), S.lock[e] = {}
  PROVE  /\ H = {} /\ S.clients[e] = {} /\ S.abort[e] = "unset" /\ ~S.sio[e]
         /\ S.swap[e] # "SWAPOUT_WRITING" /\ e \notin S.late
  <1>1. HoldOK(S, e, H) /\ S.clients[e] \subseteq Clients
    BY DEF Shaped, Store
  <1>2. ASSUME NEW c \in Clients PROVE c \notin S.clients[e]
    <2>1. c \in S.clients[e] => HttpLock(c) \in S.lock[e]
      BY <1>1 DEF HoldOK
    <2>. QED
      BY <2>1
  <1>3. S.clients[e] = {}
    BY <1>1, <1>2
  <1>4. S.abort[e] = "unset" /\ ~S.sio[e] /\ S.swap[e] # "SWAPOUT_WRITING" /\ e \notin S.late
    BY <1>1 DEF HoldOK
  <1>5. H = {}
    BY <1>1 DEF HoldOK
  <1>. QED
    BY <1>3, <1>4, <1>5

(* LateRelease: the structure waits on the stack, without memory and key.    *)
LEMMA LateReleaseTouches ==
  ASSUME NEW S \in Store, NEW e \in Entries, S.ok, ~S.sio[e], S.lock[e] = {},
         S.key[e] = NoKey => S.filen[e] = -1
  PROVE  LET T == LateRelease(S, e)
         IN  /\ Touches(S, T, e, {"key", "log", "flags", "mem", "sio", "url", "clients", "abort",
                                  "lock", "late"})
             /\ T.key[e] = Private /\ T.lock[e] = {Late} /\ e \in T.late /\ T.mem[e] = "NULL"
             /\ T.flags[e] = S.flags[e] \cup {"RELEASE_REQUEST"}
             /\ T.sio[e] = FALSE /\ T.clients[e] \subseteq S.clients[e]
             /\ T.abort[e] \in {"unset", S.abort[e]}
             /\ \/ T.log = S.log /\ (S.key[e] \notin Keys \/ S.filen[e] = -1)
                \/ T.log = S.log \ {<<S.key[e], S.filen[e]>>} /\ S.filen[e] # -1
  <1> DEFINE P == storeSetPrivateKey(S, e)
             Q == FreeMem(P, e)
             R == SetFlag(Q, e, "RELEASE_REQUEST")
             T == LateRelease(S, e)
  <1>1. /\ Touches(S, P, e, {"key", "log"}) /\ P.key[e] = Private
        /\ \/ P.log = S.log /\ (S.key[e] \notin Keys \/ S.filen[e] = -1)
           \/ P.log = S.log \ {<<S.key[e], S.filen[e]>>} /\ S.filen[e] # -1
    BY SetPrivateTouches
  <1> HIDE DEF P
  <1>2. /\ P \in Store /\ P.ok /\ ~P.sio[e] /\ P.clients[e] = S.clients[e]
        /\ P.abort[e] = S.abort[e] /\ P.mem[e] = S.mem[e]
    BY <1>1 DEF Touches, Elsewhere
  <1>3. /\ Touches(P, Q, e, {"mem", "sio", "url", "clients", "abort"})
        /\ Q.mem[e] = "NULL" /\ Q.sio[e] = FALSE /\ Q.clients[e] \subseteq S.clients[e]
        /\ Q.abort[e] \in {"unset", S.abort[e]}
    <2>1. CASE P.mem[e] # "NULL"
      <3>1. Q = destroy_MemObject(P, e)
        BY <2>1 DEF FreeMem
      <3> HIDE DEF Q
      <3>2. /\ Touches(P, Q, e, {"mem", "sio", "url", "clients", "abort"})
            /\ Q.mem[e] = "NULL" /\ Q.sio[e] = FALSE /\ Q.clients[e] = {} /\ Q.abort[e] = "unset"
        BY <1>2, <3>1, DestroyMemTouches
      <3>. QED
        BY <3>2
    <2>2. CASE P.mem[e] = "NULL"
      <3>1. Q = P
        BY <2>2 DEF FreeMem
      <3>2. P.sio[e] = FALSE
        BY <1>2 DEF Store
      <3>. QED
        BY <1>2, <2>2, <3>1, <3>2, TouchesRefl
    <2>. QED
      BY <2>1, <2>2
  <1> HIDE DEF Q
  <1>4. Q \in Store
    BY <1>3 DEF Touches, Elsewhere
  <1>5. /\ Touches(Q, R, e, {"flags"}) /\ R.flags[e] = Q.flags[e] \cup {"RELEASE_REQUEST"}
    BY <1>4, FlagTouches DEF Flags
  <1> HIDE DEF R
  <1>6. /\ R \in Store /\ R.key[e] = Private /\ R.lock[e] = {}
        /\ R.flags[e] = S.flags[e] \cup {"RELEASE_REQUEST"} /\ R.log = P.log
        /\ R.mem[e] = "NULL" /\ R.sio[e] = FALSE /\ R.clients[e] \subseteq S.clients[e]
        /\ R.abort[e] \in {"unset", S.abort[e]}
    <2>1. /\ R \in Store /\ R.key[e] = Q.key[e] /\ R.lock[e] = Q.lock[e] /\ R.log = Q.log
          /\ R.mem[e] = Q.mem[e] /\ R.sio[e] = Q.sio[e] /\ R.clients[e] = Q.clients[e]
          /\ R.abort[e] = Q.abort[e]
      BY <1>5 DEF Touches, Elsewhere
    <2>2. /\ Q.key[e] = P.key[e] /\ Q.lock[e] = P.lock[e] /\ Q.log = P.log
          /\ Q.flags[e] = P.flags[e]
      BY <1>3 DEF Touches
    <2>3. P.lock[e] = S.lock[e] /\ P.flags[e] = S.flags[e]
      BY <1>1 DEF Touches
    <2>. QED
      BY <1>1, <1>3, <1>5, <2>1, <2>2, <2>3
  <1>7. T = [R EXCEPT !.lock[e] = @ \cup {Late}, !.late = @ \cup {e}]
    BY DEF LateRelease, R, Q, P, Late
  <1>8. Late \in Holders
    BY DEF Late, Holders, Roles
  <1> HIDE DEF T
  <1>9. T \in Store
    <2>1. [R.lock EXCEPT ![e] = @ \cup {Late}] \in [Entries -> SUBSET Holders]
      BY <1>6, <1>8 DEF Store
    <2>2. R.late \cup {e} \in SUBSET Entries
      BY <1>6 DEF Store
    <2>3. T = [R EXCEPT !.lock = [R.lock EXCEPT ![e] = @ \cup {Late}], !.late = R.late \cup {e}]
      BY <1>6, <1>7 DEF Store
    <2>. QED
      BY <1>6, <2>1, <2>2, <2>3 DEF Store
  <1>10. /\ T.key = R.key /\ T.url = R.url /\ T.flags = R.flags /\ T.status = R.status
         /\ T.swap = R.swap /\ T.filen = R.filen /\ T.mem = R.mem /\ T.sio = R.sio
         /\ T.clients = R.clients /\ T.abort = R.abort /\ T.log = R.log /\ T.size = R.size
         /\ T.rebuild = R.rebuild /\ T.ok = R.ok /\ T.late = R.late \cup {e}
         /\ T.lock = [R.lock EXCEPT ![e] = @ \cup {Late}]
    BY <1>6, <1>7 DEF Store
  <1>11. T.lock[e] = {Late} /\ \A x \in Entries \ {e} : T.lock[x] = R.lock[x]
    BY <1>6, <1>10 DEF Store
  <1>12. Touches(R, T, e, {"lock", "late"})
    BY <1>9, <1>10, <1>11 DEF Touches, Elsewhere, SameEntry
  <1>13. Touches(S, T, e, {"key", "log", "flags", "mem", "sio", "url", "clients", "abort",
                           "lock", "late"})
    <2>1. Touches(S, Q, e, {"key", "log"} \cup {"mem", "sio", "url", "clients", "abort"})
      BY <1>1, <1>3, TouchesTrans
    <2>2. Touches(Q, T, e, {"flags"} \cup {"lock", "late"})
      BY <1>5, <1>12, TouchesTrans
    <2>3. Touches(S, T, e, ({"key", "log"} \cup {"mem", "sio", "url", "clients", "abort"})
                           \cup ({"flags"} \cup {"lock", "late"}))
      BY <2>1, <2>2, TouchesTrans
    <2>. QED
      BY <2>3, TouchesMore
  <1>. QED
    BY <1>1, <1>6, <1>10, <1>11, <1>13 DEF T

LEMMA LateReleaseFine ==
  ASSUME NEW S, NEW X, NEW e \in Entries, Loose(S, X, e, {}), S.lock[e] = {},
         S.status[e] = "STORE_OK", S.filen[e] # -1
  PROVE  LET T == LateRelease(S, e)
         IN  Fine(T, X, e, {}) /\ Acts(S, T, e, {}) /\ T.key[e] = Private
  <1> DEFINE T == LateRelease(S, e)
  <1>0. S \in Store /\ S.ok /\ Good(S, X) /\ Shaped(S, e, {})
    BY DEF Loose, Good
  <1>1. /\ S \in Store /\ S.ok /\ Good(S, X) /\ Shaped(S, e, {}) /\ ~S.sio[e]
        /\ S.clients[e] = {} /\ S.abort[e] = "unset"
    BY <1>0, Unheld
  <1>2. S.key[e] = NoKey => S.filen[e] = -1
    BY <1>1 DEF Shaped, FreeOK
  <1>3. /\ Touches(S, T, e, {"key", "log", "flags", "mem", "sio", "url", "clients", "abort",
                             "lock", "late"})
        /\ T.key[e] = Private /\ T.lock[e] = {Late} /\ e \in T.late /\ T.mem[e] = "NULL"
        /\ T.flags[e] = S.flags[e] \cup {"RELEASE_REQUEST"}
        /\ T.sio[e] = FALSE /\ T.clients[e] \subseteq S.clients[e]
        /\ T.abort[e] \in {"unset", S.abort[e]}
        /\ \/ T.log = S.log /\ (S.key[e] \notin Keys \/ S.filen[e] = -1)
           \/ T.log = S.log \ {<<S.key[e], S.filen[e]>>} /\ S.filen[e] # -1
    BY <1>1, <1>2, LateReleaseTouches
  <1>4. Good(T, X)
    BY <1>1, LateReleaseStep, StepGood
  <1> HIDE DEF T
  <1>12. T.clients[e] = {} /\ T.abort[e] = "unset"
    BY <1>1, <1>3
  <1>5. /\ T.status[e] = S.status[e] /\ T.swap[e] = S.swap[e] /\ T.filen[e] = S.filen[e]
        /\ T.size = S.size /\ T.ok /\ Elsewhere(S, T, e)
    BY <1>1, <1>3 DEF Touches
  <1>6. Shaped(T, e, {})
    <2>1. FreeOK(T, e) /\ MemOK(T, e)
      BY <1>3, <1>5, HoldersDiffer, KeysAssumption DEF FreeOK, MemOK
    <2>2. HoldOK(T, e, {})
      <3>1. S.swap[e] # "SWAPOUT_WRITING"
        BY <1>1 DEF Shaped, HoldOK
      <3>. QED
        BY <1>3, <1>5, <1>12, <3>1, HoldersDiffer DEF HoldOK
    <2>3. SwapOK(T, e) /\ AbortOK(T, e)
      BY <1>1, <1>2, <1>3, <1>5, <1>12 DEF Shaped, SwapOK, AbortOK
    <2>. QED
      BY <2>1, <2>2, <2>3 DEF Shaped
  <1>7. LogOne(S, T, e)
    BY <1>1, <1>3, <1>5, KeysAssumption DEF LogOne, Logged, Shaped, SwapOK
  <1>8. SizeOne(S, T, e)
    BY <1>3, <1>5 DEF SizeOne, Stored
  <1>9. Loose(T, X, e, {})
    BY <1>4, <1>5, <1>6, <1>7, <1>8, Change
  <1>10. LeakOK(T, e)
    BY <1>3 DEF LeakOK
  <1>11. Acts(S, T, e, {})
    BY <1>3, <1>5, HoldersDiffer DEF Acts, Out
  <1>. QED
    BY <1>3, <1>9, <1>10, <1>11 DEF Fine, T

(* storeRelease of an entry that is held, or over, leaves nothing behind.    *)
LEMMA storeReleaseFine ==
  ASSUME NEW S, NEW X, NEW e \in Entries, Loose(S, X, e, {}),
         S.lock[e] = {} => S.status[e] = "STORE_OK"
  PROVE  LET T == storeRelease(S, e)
         IN  Fine(T, X, e, {}) /\ Acts(S, T, e, {}) /\ T.key[e] \notin Keys
  <1> DEFINE T == storeRelease(S, e)
  <1>1. S.swap[e] = "SWAPOUT_WRITING" => S.lock[e] # {}
    BY DEF Loose, Shaped, HoldOK
  <1>2. storeEntryLocked(S, e) <=> S.lock[e] # {}
    BY <1>1 DEF storeEntryLocked
  <1>3. CASE S.lock[e] # {}
    <2>1. T = storeReleaseRequest(S, e)
      BY <1>2, <1>3 DEF storeRelease
    <2>2. Hidden(S, storeReleaseRequest(S, e), e)
      BY storeReleaseRequestStep DEF Loose
    <2> HIDE DEF T
    <2>4. S.key[e] # NoKey
      BY <1>3 DEF Loose, Shaped, FreeOK
    <2>3. Fine(T, X, e, {}) /\ Acts(S, T, e, {})
      BY <1>3, <2>1, <2>4, ReleaseRequestLoose DEF Fine
    <2>. QED
      BY <2>1, <2>2, <2>3 DEF Hidden, T
  <1>4. CASE S.lock[e] = {}
    <2>1. (T = LateRelease(S, e) /\ S.filen[e] # -1) \/ T = Discard(S, e)
      BY <1>2, <1>4 DEF storeRelease
    <2>. QED
      BY <1>4, <2>1, LateReleaseFine, DiscardFine, KeysAssumption
  <1>. QED
    BY <1>3, <1>4

(* What nobody holds loses its memory object, and goes if it has no file.    *)
LEMMA DestroyMemLoose ==
  ASSUME NEW S, NEW X, NEW e \in Entries, Loose(S, X, e, {}), S.lock[e] = {},
         S.status[e] = "STORE_OK"
  PROVE  LET T == destroy_MemObject(S, e)
         IN  /\ Loose(T, X, e, {}) /\ Acts(S, T, e, {})
             /\ Touches(S, T, e, {"mem", "sio", "url", "clients", "abort"})
  <1> DEFINE T == destroy_MemObject(S, e)
  <1>0. S \in Store /\ S.ok /\ Good(S, X) /\ Shaped(S, e, {})
    BY DEF Loose, Good
  <1>1. /\ S.clients[e] = {} /\ S.abort[e] = "unset" /\ ~S.sio[e]
        /\ S.swap[e] # "SWAPOUT_WRITING" /\ e \notin S.late
    BY <1>0, Unheld
  <1>2. /\ Touches(S, T, e, {"mem", "sio", "url", "clients", "abort"})
        /\ T.mem[e] = "NULL" /\ T.sio[e] = FALSE /\ T.clients[e] = {} /\ T.abort[e] = "unset"
    BY <1>0, <1>1, DestroyMemTouches
  <1>3. Good(T, X)
    BY <1>0, destroy_MemObjectStep, StepGood
  <1> HIDE DEF T
  <1>4. /\ T.key[e] = S.key[e] /\ T.lock[e] = {} /\ T.flags[e] = S.flags[e]
        /\ T.status[e] = "STORE_OK" /\ T.swap[e] = S.swap[e] /\ T.filen[e] = S.filen[e]
        /\ e \notin T.late /\ T.ok /\ Elsewhere(S, T, e)
    BY <1>0, <1>1, <1>2 DEF Touches
  <1>5. Shaped(T, e, {})
    <2>1. FreeOK(T, e) /\ MemOK(T, e)
      BY <1>0, <1>2, <1>4 DEF Shaped, FreeOK, MemOK
    <2>2. HoldOK(T, e, {})
      BY <1>1, <1>2, <1>4 DEF HoldOK
    <2>3. SwapOK(T, e) /\ AbortOK(T, e)
      BY <1>0, <1>2, <1>4 DEF Shaped, SwapOK, AbortOK
    <2>. QED
      BY <2>1, <2>2, <2>3 DEF Shaped
  <1>6. LogOne(S, T, e) /\ SizeOne(S, T, e)
    BY <1>2, <1>4, QuietLog, QuietSize
  <1>7. Loose(T, X, e, {})
    BY <1>3, <1>4, <1>5, <1>6, Change
  <1>8. Acts(S, T, e, {})
    BY <1>2, <1>4, TouchesActs
  <1>. QED
    BY <1>2, <1>7, <1>8 DEF T

LEMMA storePurgeMemFine ==
  ASSUME NEW S, NEW X, NEW e \in Entries, Loose(S, X, e, {}), S.lock[e] = {},
         S.status[e] = "STORE_OK", "RELEASE_REQUEST" \notin S.flags[e],
         S.mem[e] # "NULL" \/ LeakOK(S, e)
  PROVE  LET T == storePurgeMem(S, e) IN Fine(T, X, e, {}) /\ Acts(S, T, e, {})
  <1> DEFINE D == destroy_MemObject(S, e)
             T == storePurgeMem(S, e)
  <1>0. S \in Store
    BY DEF Loose, Good
  <1>1. CASE S.mem[e] = "NULL"
    <2>1. T = S
      BY <1>1 DEF storePurgeMem
    <2>. QED
      BY <1>0, <1>1, <2>1, ActsRefl DEF Fine
  <1>2. CASE S.mem[e] # "NULL"
    <2>1. T = IF S.swap[e] # "SWAPOUT_DONE" THEN storeRelease(D, e) ELSE D
      BY <1>2 DEF storePurgeMem
    <2>2. /\ Loose(D, X, e, {}) /\ Acts(S, D, e, {})
          /\ Touches(S, D, e, {"mem", "sio", "url", "clients", "abort"})
      BY DestroyMemLoose
    <2> HIDE DEF D, T
    <2>3. /\ D.lock[e] = {} /\ D.status[e] = "STORE_OK" /\ D.swap[e] = S.swap[e]
          /\ "RELEASE_REQUEST" \notin D.flags[e]
      BY <2>2 DEF Touches
    <2>4. CASE S.swap[e] # "SWAPOUT_DONE"
      <3>1. T = storeRelease(D, e)
        BY <2>1, <2>4
      <3>2. Fine(T, X, e, {}) /\ Acts(D, T, e, {})
        BY <2>2, <2>3, <3>1, storeReleaseFine
      <3>3. Acts(S, T, e, {} \cup {})
        BY <2>2, <3>2, ActsTrans
      <3>. QED
        BY <3>2, <3>3 DEF T
    <2>5. CASE S.swap[e] = "SWAPOUT_DONE"
      <3>1. T = D
        BY <2>1, <2>5
      <3>2. LeakOK(D, e)
        BY <2>3, <2>5 DEF LeakOK
      <3>. QED
        BY <2>2, <3>1, <3>2 DEF Fine, T
    <2>. QED
      BY <2>4, <2>5
  <1>. QED
    BY <1>1, <1>2

(* Locking and unlocking.                                                    *)
LEMMA LockTouches ==
  ASSUME NEW S \in Store, S.ok, NEW e \in Entries, NEW h \in Holders, h \notin S.lock[e]
  PROVE  LET T == storeLockObject(S, e, h)
         IN  Touches(S, T, e, {"lock"}) /\ T.lock[e] = S.lock[e] \cup {h}
  <1>1. S.lock[e] \cup {h} \in SUBSET Holders
    BY DEF Store
  <1>2. storeLockObject(S, e, h) = [S EXCEPT !.lock[e] = S.lock[e] \cup {h}]
    BY MustTrue DEF storeLockObject
  <1>. QED
    BY <1>1, <1>2, PutLock

(* The locks of references the store does not know of.                       *)
Foreign == {RoleLock(r) : r \in {"server", "abort", "error"}} \cup {HttpLock(c) : c \in Clients}

LEMMA ForeignDiffer ==
  \A h \in Foreign : /\ h \in Holders /\ h # Swapout /\ h # Late /\ h # F
                     /\ \A c \in Clients : h # ScLock(c)
  BY DEF Foreign, Holders, Roles, Swapout, Late, F, RoleLock, HttpLock, ScLock

LEMMA LockFine ==
  ASSUME NEW S, NEW X, NEW e \in Entries, NEW H, Loose(S, X, e, H), NEW h \in Foreign,
         h \notin S.lock[e], S.mem[e] # "NULL", Late \notin S.lock[e]
  PROVE  LET T == storeLockObject(S, e, h)
         IN  /\ Fine(T, X, e, H) /\ Touches(S, T, e, {"lock"})
             /\ T.lock[e] = S.lock[e] \cup {h} /\ Out(T, e) = Out(S, e) \cup {h}
  <1> DEFINE T == storeLockObject(S, e, h)
  <1>0. S \in Store /\ S.ok /\ Good(S, X) /\ Shaped(S, e, H)
    BY DEF Loose, Good
  <1>1. /\ h \in Holders /\ h # Swapout /\ h # Late /\ h # F
        /\ \A c \in Clients : h # ScLock(c)
    BY ForeignDiffer
  <1>2. Touches(S, T, e, {"lock"}) /\ T.lock[e] = S.lock[e] \cup {h}
    BY <1>0, <1>1, LockTouches
  <1>3. Good(T, X)
    BY <1>0, <1>1, storeLockObjectStep, StepGood
  <1> HIDE DEF T
  <1>4. /\ T.key[e] = S.key[e] /\ T.url[e] = S.url[e] /\ T.flags[e] = S.flags[e]
        /\ T.status[e] = S.status[e] /\ T.swap[e] = S.swap[e] /\ T.filen[e] = S.filen[e]
        /\ T.mem[e] = S.mem[e] /\ T.sio[e] = S.sio[e] /\ T.clients[e] = S.clients[e]
        /\ T.abort[e] = S.abort[e] /\ (e \in T.late <=> e \in S.late) /\ T.ok
        /\ Elsewhere(S, T, e)
    BY <1>0, <1>2 DEF Touches
  <1>5. FreeOK(T, e) /\ MemOK(T, e)
    BY <1>0, <1>1, <1>2, <1>4 DEF Shaped, FreeOK, MemOK
  <1>6. HoldOK(T, e, H)
    <2>1. \A x \in {Swapout, F} \cup {ScLock(c) : c \in Clients} :
              x \in T.lock[e] \ H <=> x \in S.lock[e] \ H
      BY <1>1, <1>2
    <2>2. \A x : x \in S.lock[e] \ H => x \in T.lock[e] \ H
      BY <1>2
    <2>3. Late \notin T.lock[e] /\ H \subseteq T.lock[e]
      BY <1>0, <1>1, <1>2 DEF Shaped, HoldOK
    <2>4. HoldOK(S, e, H)
      BY <1>0 DEF Shaped
    <2>5. \A c \in Clients : /\ ScLock(c) \in T.lock[e] \ H <=> c \in T.clients[e]
                             /\ c \in T.clients[e] => HttpLock(c) \in T.lock[e] \ H
      BY <1>4, <2>1, <2>2, <2>4 DEF HoldOK
    <2>. QED
      BY <1>4, <2>1, <2>3, <2>4, <2>5 DEF HoldOK
  <1>7. SwapOK(T, e) /\ AbortOK(T, e)
    BY <1>0, <1>4 DEF Shaped, SwapOK, AbortOK
  <1>8. LogOne(S, T, e) /\ SizeOne(S, T, e)
    BY <1>2, <1>4, QuietLog, QuietSize
  <1>9. Loose(T, X, e, H)
    BY <1>3, <1>4, <1>5, <1>6, <1>7, <1>8, Change DEF Shaped
  <1>10. LeakOK(T, e) /\ Out(T, e) = Out(S, e) \cup {h}
    BY <1>1, <1>2 DEF LeakOK, Out
  <1>. QED
    BY <1>2, <1>9, <1>10 DEF Fine, T

(* A lock is about to be dropped when what it stands for is gone.            *)
LEMMA HoldMore ==
  ASSUME NEW S, NEW X, NEW e \in Entries, NEW H, Loose(S, X, e, H), NEW h, h \in S.lock[e],
         \/ h = F /\ S.abort[e] = "unset"
         \/ h \in Foreign /\ \A c \in S.clients[e] : h # HttpLock(c)
  PROVE  Loose(S, X, e, H \cup {h})
  <1>1. HoldOK(S, e, H)
    BY DEF Loose, Shaped
  <1>2. h # Swapout /\ h # Late /\ \A c \in Clients : h # ScLock(c)
    BY ForeignDiffer, HoldersDiffer DEF F, RoleLock, ScLock
  <1>3. h = F => S.abort[e] = "unset"
    BY ForeignDiffer
  <1>4. \A c \in S.clients[e] : h # HttpLock(c)
    BY DEF F, RoleLock, HttpLock
  <1>5. HoldOK(S, e, H \cup {h})
    <2>1. \A x : x # h => (x \in S.lock[e] \ (H \cup {h}) <=> x \in S.lock[e] \ H)
      OBVIOUS
    <2>2. \A c \in Clients : ScLock(c) \in S.lock[e] \ (H \cup {h}) <=> c \in S.clients[e]
      BY <1>1, <1>2, <2>1 DEF HoldOK
    <2>3. \A c \in Clients : c \in S.clients[e] => HttpLock(c) \in S.lock[e] \ (H \cup {h})
      BY <1>1, <1>4, <2>1 DEF HoldOK
    <2>4. /\ Swapout \in S.lock[e] \ (H \cup {h}) <=> Swapout \in S.lock[e] \ H
          /\ Late \in S.lock[e] \ (H \cup {h}) <=> Late \in S.lock[e] \ H
      BY <1>2
    <2>5. S.abort[e] # "unset" => F \in S.lock[e] \ (H \cup {h})
      BY <1>1, <1>3 DEF HoldOK
    <2>. QED
      BY <1>1, <2>2, <2>3, <2>4, <2>5 DEF HoldOK
  <1>. QED
    BY <1>5 DEF Loose, Shaped

LEMMA DropLockLoose ==
  ASSUME NEW S, NEW X, NEW e \in Entries, NEW H, NEW h, h \notin H,
         Loose(S, X, e, H \cup {h}), h # F \/ S.status[e] = "STORE_OK"
  PROVE  LET U == DropLock(S, e, h)
         IN  /\ Loose(U, X, e, H) /\ Touches(S, U, e, {"lock"})
             /\ U.lock[e] = S.lock[e] \ {h} /\ Acts(S, U, e, {h})
  <1> DEFINE U == DropLock(S, e, h)
  <1>0. S \in Store /\ S.ok /\ Good(S, X) /\ Shaped(S, e, H \cup {h})
    BY DEF Loose, Good
  <1>1. h \in S.lock[e]
    BY <1>0 DEF Shaped, HoldOK
  <1>2. Touches(S, U, e, {"lock"}) /\ U.lock[e] = S.lock[e] \ {h}
    <2>1. S.lock[e] \ {h} \in SUBSET Holders
      BY <1>0 DEF Store
    <2>2. U = [S EXCEPT !.lock[e] = S.lock[e] \ {h}]
      BY <1>0, <1>1, MustTrue DEF DropLock
    <2> HIDE DEF U
    <2>3. ASSUME NEW v \in SUBSET Holders
          PROVE  /\ Touches(S, [S EXCEPT !.lock[e] = v], e, {"lock"})
                 /\ [S EXCEPT !.lock[e] = v].lock[e] = v
      BY <1>0, PutLock
    <2>. QED
      BY <2>1, <2>2, <2>3, Zenon
  <1>3. Good(U, X)
    BY <1>0, DropLockGood
  <1> HIDE DEF U
  <1>4. /\ U.key[e] = S.key[e] /\ U.url[e] = S.url[e] /\ U.flags[e] = S.flags[e]
        /\ U.status[e] = S.status[e] /\ U.swap[e] = S.swap[e] /\ U.filen[e] = S.filen[e]
        /\ U.mem[e] = S.mem[e] /\ U.sio[e] = S.sio[e] /\ U.clients[e] = S.clients[e]
        /\ U.abort[e] = S.abort[e] /\ (e \in U.late <=> e \in S.late) /\ U.ok
        /\ Elsewhere(S, U, e)
    BY <1>0, <1>2 DEF Touches
  <1>5. FreeOK(U, e) /\ MemOK(U, e)
    BY <1>0, <1>1, <1>2, <1>4 DEF Shaped, FreeOK, MemOK
  <1>6. HoldOK(U, e, H)
    <2>1. U.lock[e] \ H = S.lock[e] \ (H \cup {h})
      BY <1>2
    <2>2. HoldOK(S, e, H \cup {h})
      BY <1>0 DEF Shaped
    <2>3. H \subseteq U.lock[e]
      BY <1>2, <2>2 DEF HoldOK
    <2>4. Late \notin U.lock[e]
      BY <1>1, <1>2, <2>2 DEF HoldOK
    <2>. QED
      BY <1>4, <2>1, <2>2, <2>3, <2>4 DEF HoldOK
  <1>7. SwapOK(U, e) /\ AbortOK(U, e)
    BY <1>0, <1>4 DEF Shaped, SwapOK, AbortOK
  <1>8. LogOne(S, U, e) /\ SizeOne(S, U, e)
    BY <1>2, <1>4, QuietLog, QuietSize
  <1>9. Loose(U, X, e, H)
    BY <1>3, <1>4, <1>5, <1>6, <1>7, <1>8, Change DEF Shaped
  <1>10. Acts(S, U, e, {h})
    BY <1>2, <1>4 DEF Acts, Out, Fate
  <1>. QED
    BY <1>2, <1>9, <1>10 DEF U

(* The last lock is gone: the entry goes, or is kept.                        *)
LEMMA LastUnlockFine ==
  ASSUME NEW U, NEW X, NEW e \in Entries, Loose(U, X, e, {}), U.lock[e] = {},
         U.status[e] = "STORE_OK", NEW keep,
         "RELEASE_REQUEST" \in U.flags[e] \/ U.mem[e] # "NULL"
  PROVE  LET T == LastUnlock(U, e, keep) IN Fine(T, X, e, {}) /\ Acts(U, T, e, {})
  <1> DEFINE T == LastUnlock(U, e, keep)
  <1>0. U \in Store /\ U.ok /\ Good(U, X) /\ Shaped(U, e, {})
    BY DEF Loose, Good
  <1>1. U.clients[e] = {}
    BY <1>0, Unheld
  <1>2. T = IF Has(U, e, "RELEASE_REQUEST") THEN storeRelease(U, e)
            ELSE IF keep /\ U.mem[e] # "NULL" THEN [U EXCEPT !.mem[e] = "IN_MEMORY"]
            ELSE storePurgeMem(U, e)
    BY <1>0, <1>1, MustTrue DEF LastUnlock
  <1>3. CASE Has(U, e, "RELEASE_REQUEST")
    BY <1>2, <1>3, storeReleaseFine
  <1>4. CASE ~Has(U, e, "RELEASE_REQUEST") /\ keep /\ U.mem[e] # "NULL"
    <2>1. T = [U EXCEPT !.mem[e] = "IN_MEMORY"]
      BY <1>2, <1>4
    <2> HIDE DEF T
    <2>2. Touches(U, T, e, {"mem"}) /\ T.mem[e] = "IN_MEMORY"
      BY <1>0, <2>1, PutMem
    <2>3. Good(T, X)
      <3>1. Quiet(U, T)
        BY <1>0, <2>1, MemQuiet
      <3>. QED
        BY <1>0, <3>1, QuietStep, StepGood
    <2>4. /\ T.key[e] = U.key[e] /\ T.url[e] = U.url[e] /\ T.flags[e] = U.flags[e]
          /\ T.status[e] = U.status[e] /\ T.swap[e] = U.swap[e] /\ T.filen[e] = U.filen[e]
          /\ T.lock[e] = U.lock[e] /\ T.sio[e] = U.sio[e] /\ T.clients[e] = U.clients[e]
          /\ T.abort[e] = U.abort[e] /\ (e \in T.late <=> e \in U.late) /\ T.ok
          /\ Elsewhere(U, T, e)
      BY <1>0, <2>2 DEF Touches
    <2>5. FreeOK(T, e) /\ MemOK(T, e)
      BY <1>0, <1>4, <2>2, <2>4 DEF Shaped, FreeOK, MemOK
    <2>6. HoldOK(T, e, {})
      BY <1>0, <2>4 DEF Shaped, HoldOK
    <2>7. SwapOK(T, e) /\ AbortOK(T, e)
      BY <1>0, <2>4 DEF Shaped, SwapOK, AbortOK
    <2>8. LogOne(U, T, e) /\ SizeOne(U, T, e)
      BY <2>2, <2>4, QuietLog, QuietSize
    <2>9. Loose(T, X, e, {})
      BY <2>3, <2>4, <2>5, <2>6, <2>7, <2>8, Change DEF Shaped
    <2>10. LeakOK(T, e)
      BY <1>4, <2>2, <2>4 DEF LeakOK, Has
    <2>11. Acts(U, T, e, {})
      BY <2>2, <2>4, TouchesActs
    <2>. QED
      BY <2>9, <2>10, <2>11 DEF Fine, T
  <1>5. CASE ~Has(U, e, "RELEASE_REQUEST") /\ ~(keep /\ U.mem[e] # "NULL")
    <2>1. T = storePurgeMem(U, e)
      BY <1>2, <1>5
    <2>2. "RELEASE_REQUEST" \notin U.flags[e] /\ U.mem[e] # "NULL"
      BY <1>5 DEF Has
    <2>. QED
      BY <2>1, <2>2, storePurgeMemFine
  <1>. QED
    BY <1>3, <1>4, <1>5

LEMMA storeUnlockObjectFine ==
  ASSUME NEW S, NEW X, NEW e \in Entries, NEW H, NEW h, h \notin H,
         Loose(S, X, e, H \cup {h}), h # F \/ S.status[e] = "STORE_OK",
         Safe(S, X, e), NEW keep
  PROVE  LET T == storeUnlockObject(S, e, h, keep) IN Fine(T, X, e, H) /\ Acts(S, T, e, {h})
  <1> DEFINE U == DropLock(S, e, h)
             T == storeUnlockObject(S, e, h, keep)
  <1>1. /\ Loose(U, X, e, H) /\ Touches(S, U, e, {"lock"})
        /\ U.lock[e] = S.lock[e] \ {h} /\ Acts(S, U, e, {h})
    BY DropLockLoose
  <1>2. CASE U.lock[e] # {}
    <2>1. T = U
      BY <1>2 DEF storeUnlockObject
    <2>2. LeakOK(U, e)
      BY <1>2 DEF LeakOK
    <2>. QED
      BY <1>1, <2>1, <2>2 DEF Fine
  <1>3. CASE U.lock[e] = {}
    <2>0. S.status[e] = U.status[e] /\ U.status[e] \in {"STORE_OK", "STORE_PENDING"}
      BY <1>1 DEF Touches, Elsewhere, Store
    <2>1. U.status[e] = "STORE_OK"
      BY <1>1, <1>3, <2>0 DEF Loose, Good, EntryOK, Safe
    <2>2. T = LastUnlock(U, e, keep)
      BY <1>3, <2>1 DEF storeUnlockObject
    <2>3. H = {}
      BY <1>1, <1>3 DEF Loose, Shaped, HoldOK
    <2>4. "RELEASE_REQUEST" \in U.flags[e] \/ U.mem[e] # "NULL"
      <3>1. h \in S.lock[e] /\ HoldOK(S, e, H \cup {h}) /\ MemOK(S, e)
        BY DEF Loose, Shaped, HoldOK
      <3>2. U.flags[e] = S.flags[e] /\ U.mem[e] = S.mem[e]
        BY <1>1 DEF Touches
      <3>. QED
        BY <3>1, <3>2 DEF HoldOK, MemOK
    <2> HIDE DEF U, T
    <2>5. Fine(T, X, e, {}) /\ Acts(U, T, e, {})
      BY <1>1, <1>3, <2>1, <2>2, <2>3, <2>4, LastUnlockFine
    <2>6. Acts(S, T, e, {h} \cup {})
      BY <1>1, <2>5, ActsTrans
    <2>7. {h} \cup {} = {h}
      OBVIOUS
    <2>8. Acts(S, T, e, {h})
      BY <2>6, <2>7
    <2>. QED
      BY <2>3, <2>5, <2>8 DEF T
  <1>. QED
    BY <1>2, <1>3

-----------------------------------------------------------------------------
(* Swapping out.                                                             *)

LEMMA FlagFine ==
  ASSUME NEW S, NEW X, NEW e \in Entries, NEW H, Loose(S, X, e, H), S.key[e] # NoKey,
         NEW f \in {"KEY_EARLY_PUBLIC", "ENTRY_CACHABLE"}, NEW T,
         T = SetFlag(S, e, f) \/ T = ClrFlag(S, e, f), Good(T, X)
  PROVE  /\ Loose(T, X, e, H) /\ Touches(S, T, e, {"flags"}) /\ Acts(S, T, e, {})
         /\ T.flags[e] \in {S.flags[e] \cup {f}, S.flags[e] \ {f}}
         /\ LeakOK(S, e) => LeakOK(T, e)
  <1>0. S \in Store /\ S.ok /\ Shaped(S, e, H) /\ f \in Flags
    BY DEF Loose, Good, Flags
  <1>1. /\ Touches(S, T, e, {"flags"})
        /\ T.flags[e] \in {S.flags[e] \cup {f}, S.flags[e] \ {f}}
    BY <1>0, FlagTouches
  <1>2. \A g : g \notin {"KEY_EARLY_PUBLIC", "ENTRY_CACHABLE"} =>
            (g \in T.flags[e] <=> g \in S.flags[e])
    BY <1>1
  <1>3. T.key[e] # NoKey /\ T.ok /\ Elsewhere(S, T, e)
    BY <1>0, <1>1 DEF Touches
  <1>4. Shaped(T, e, H)
    <2>1. Touches(S, T, e, {"key", "log", "flags", "size", "ok"})
      BY <1>1, TouchesMore
    <2>. QED
      BY <1>0, <1>2, <1>3, <2>1, FlagsShaped DEF Shaped, AbortOK
  <1>5. LogOne(S, T, e) /\ SizeOne(S, T, e)
    BY <1>1, <1>2, QuietLog, QuietSize
  <1>6. Loose(T, X, e, H)
    BY <1>3, <1>4, <1>5, Change
  <1>7. Acts(S, T, e, {})
    <2>1. T.clients[e] = S.clients[e]
      BY <1>1 DEF Touches
    <2>. QED
      BY <2>1, <1>1, <1>2, TouchesActs
  <1>8. LeakOK(S, e) => LeakOK(T, e)
    BY <1>1, <1>2 DEF Touches, LeakOK
  <1>. QED
    BY <1>1, <1>6, <1>7, <1>8

(* The flags that a release request leaves alone.                            *)
OtherFlags(S, T, e) ==
    /\ \A f : f \notin {"ENTRY_CACHABLE", "RELEASE_REQUEST"} =>
            (f \in T.flags[e] <=> f \in S.flags[e])
    /\ "RELEASE_REQUEST" \in S.flags[e] => "RELEASE_REQUEST" \in T.flags[e]

(* storeCheckCachable, of an entry that is refused.                          *)
LEMMA RefuseTouches ==
  ASSUME NEW S \in Store, S.ok, NEW e \in Entries, S.key[e] # NoKey
  PROVE  LET T == ClrFlag(storeReleaseRequest(S, e), e, "ENTRY_CACHABLE")
         IN  /\ Touches(S, T, e, {"key", "log", "flags"}) /\ OtherFlags(S, T, e)
             /\ "RELEASE_REQUEST" \in T.flags[e] /\ T.key[e] \in {S.key[e], Private}
             /\ T.key[e] = S.key[e] => "RELEASE_REQUEST" \in S.flags[e] \/ S.key[e] = Private
             /\ \/ T.log = S.log /\ (T.key[e] = S.key[e] \/ S.key[e] \notin Keys \/ S.filen[e] = -1)
                \/ T.log = S.log \ {<<S.key[e], S.filen[e]>>} /\ S.filen[e] # -1 /\ T.key[e] = Private
  <1> DEFINE R == storeReleaseRequest(S, e)
             T == ClrFlag(R, e, "ENTRY_CACHABLE")
  <1>1. /\ Touches(S, R, e, {"key", "log", "flags"}) /\ Released(S, R, e)
        /\ \/ R.log = S.log /\ (R.key[e] = S.key[e] \/ S.key[e] \notin Keys \/ S.filen[e] = -1)
           \/ R.log = S.log \ {<<S.key[e], S.filen[e]>>} /\ S.filen[e] # -1 /\ R.key[e] = Private
    BY ReleaseRequestTouches
  <1> HIDE DEF R
  <1>2. R \in Store /\ "ENTRY_CACHABLE" \in Flags
    BY <1>1 DEF Touches, Elsewhere, Flags
  <1>3. Touches(R, T, e, {"flags"}) /\ T.flags[e] = R.flags[e] \ {"ENTRY_CACHABLE"}
    BY <1>2, FlagTouches
  <1> HIDE DEF T
  <1>4. Touches(S, T, e, {"key", "log", "flags"} \cup {"flags"})
    BY <1>1, <1>3, TouchesTrans
  <1>5. Touches(S, T, e, {"key", "log", "flags"})
    BY <1>4, TouchesMore
  <1>6. T.key[e] = R.key[e] /\ T.log = R.log
    BY <1>3 DEF Touches
  <1>7. OtherFlags(S, T, e) /\ "RELEASE_REQUEST" \in T.flags[e]
    BY <1>1, <1>3 DEF Released, OtherFlags
  <1>8. /\ T.key[e] \in {S.key[e], Private}
        /\ T.key[e] = S.key[e] => "RELEASE_REQUEST" \in S.flags[e] \/ S.key[e] = Private
    BY <1>1, <1>6 DEF Released
  <1>. QED
    BY <1>1, <1>5, <1>6, <1>7, <1>8 DEF T, R

LEMMA storeCheckCachableFine ==
  ASSUME NEW S, NEW X, NEW e \in Entries, NEW H, Loose(S, X, e, H), S.lock[e] # {}, NEW fit
  PROVE  LET T == storeCheckCachable(S, e, fit)
         IN  /\ Fine(T, X, e, H) /\ Touches(S, T, e, {"key", "log", "flags"})
             /\ OtherFlags(S, T, e) /\ Acts(S, T, e, {})
  <1> DEFINE T == storeCheckCachable(S, e, fit)
             R == storeReleaseRequest(S, e)
  <1>0. S \in Store /\ S.ok /\ Good(S, X) /\ S.key[e] # NoKey
    BY DEF Loose, Good, Shaped, FreeOK
  <1>1. CASE T = S
    <2>1. LeakOK(T, e)
      BY <1>1 DEF LeakOK
    <2>. QED
      BY <1>0, <1>1, <2>1, TouchesRefl, ActsRefl DEF Fine, OtherFlags
  <1>2. CASE T = ClrFlag(R, e, "ENTRY_CACHABLE")
    <2>1. Touches(S, T, e, {"key", "log", "flags"}) /\ OtherFlags(S, T, e)
      BY <1>0, <1>2, RefuseTouches
    <2>2. /\ Loose(R, X, e, H) /\ Touches(S, R, e, {"key", "log", "flags"}) /\ Acts(S, R, e, {})
      BY <1>0, ReleaseRequestLoose
    <2>3. Good(T, X)
      BY <1>0, storeCheckCachableStep, StepGood
    <2> HIDE DEF T, R
    <2>4. R.lock[e] # {} /\ R.key[e] # NoKey
      BY <2>2 DEF Touches, Loose, Shaped, FreeOK
    <2>5. Loose(T, X, e, H) /\ Acts(R, T, e, {}) /\ Touches(R, T, e, {"flags"})
      BY <1>2, <2>2, <2>3, <2>4, FlagFine
    <2>6. LeakOK(T, e)
      BY <2>4, <2>5 DEF Touches, LeakOK
    <2>7. Acts(S, T, e, {} \cup {})
      BY <2>2, <2>5, ActsTrans
    <2>. QED
      BY <2>1, <2>5, <2>6, <2>7 DEF Fine, T
  <1>3. T = S \/ T = ClrFlag(R, e, "ENTRY_CACHABLE")
    BY DEF storeCheckCachable
  <1>. QED
    BY <1>1, <1>2, <1>3

NoFile(S, T, e) == T = [S EXCEPT !.filen[e] = -1, !.swap[e] = "SWAPOUT_NONE"]
LEMMA NoFileTouches ==
  ASSUME NEW S \in Store, NEW e \in Entries, NEW T, NoFile(S, T, e)
  PROVE  /\ Touches(S, T, e, {"filen", "swap"})
         /\ T.filen[e] = -1 /\ T.swap[e] = "SWAPOUT_NONE"
  <1>1. T \in Store
    BY DEF Store, NoFile
  <1>2. /\ T.key = S.key /\ T.url = S.url /\ T.lock = S.lock /\ T.flags = S.flags
        /\ T.status = S.status /\ T.mem = S.mem /\ T.sio = S.sio /\ T.clients = S.clients
        /\ T.abort = S.abort /\ T.log = S.log /\ T.late = S.late /\ T.size = S.size
        /\ T.rebuild = S.rebuild /\ T.ok = S.ok
    BY DEF Store, NoFile
  <1>3. /\ T.filen = [S.filen EXCEPT ![e] = -1]
        /\ T.swap = [S.swap EXCEPT ![e] = "SWAPOUT_NONE"]
    BY DEF Store, NoFile
  <1>4. /\ S.filen \in [Entries -> Files \cup {-1}]
        /\ S.swap \in [Entries -> {"SWAPOUT_NONE", "SWAPOUT_WRITING", "SWAPOUT_DONE"}]
    BY DEF Store
  <1>6. /\ T.filen[e] = -1 /\ T.swap[e] = "SWAPOUT_NONE"
    BY <1>3, <1>4
  <1>7. \A x \in Entries \ {e} :
           /\ T.filen[x] = S.filen[x] /\ T.swap[x] = S.swap[x]
    BY <1>3, <1>4
  <1>8. Elsewhere(S, T, e)
    BY <1>1, <1>2, <1>7 DEF Elsewhere, SameEntry
  <1>9. Touches(S, T, e, {"filen", "swap"})
    BY <1>2, <1>8 DEF Touches
  <1>. QED
    BY <1>6, <1>9

(* The file of an entry being written is closed: it has one, or none.        *)
LEMMA CloseShaped ==
  ASSUME NEW S \in Store, NEW e \in Entries, NEW H, Shaped(S, e, H), S.swap[e] = "SWAPOUT_WRITING",
         NEW T, Touches(S, T, e, {"key", "log", "flags", "swap", "filen", "size", "sio"}),
         T.sio[e] = FALSE, T.key[e] # NoKey, OtherFlags(S, T, e),
         \/ T.swap[e] = "SWAPOUT_NONE" /\ T.filen[e] = -1
         \/ T.swap[e] = "SWAPOUT_DONE" /\ T.filen[e] # -1
  PROVE  Shaped(T, e, H \cup {Swapout}) /\ Acts(S, T, e, {}) /\ Swapout \notin H
  <1>1. /\ T.url[e] = S.url[e] /\ T.lock[e] = S.lock[e] /\ T.status[e] = S.status[e]
        /\ T.mem[e] = S.mem[e] /\ T.clients[e] = S.clients[e] /\ T.abort[e] = S.abort[e]
        /\ (e \in T.late <=> e \in S.late)
    BY DEF Touches
  <1>2. HoldOK(S, e, H) /\ Swapout \in S.lock[e] \ H
    BY DEF Shaped, HoldOK
  <1>3. FreeOK(T, e) /\ MemOK(T, e)
    BY <1>1 DEF Shaped, FreeOK, MemOK
  <1>4. HoldOK(T, e, H \cup {Swapout})
    <2>1. \A x : x # Swapout => (x \in T.lock[e] \ (H \cup {Swapout}) <=> x \in S.lock[e] \ H)
      BY <1>1
    <2>2. \A c \in Clients : /\ ScLock(c) # Swapout /\ HttpLock(c) # Swapout
      BY HoldersDiffer
    <2>3. \A c \in Clients : ScLock(c) \in T.lock[e] \ (H \cup {Swapout}) <=> c \in T.clients[e]
      BY <1>1, <1>2, <2>1, <2>2 DEF HoldOK
    <2>4. \A c \in Clients : c \in T.clients[e] => HttpLock(c) \in T.lock[e] \ (H \cup {Swapout})
      BY <1>1, <1>2, <2>1, <2>2 DEF HoldOK
    <2>5. /\ Late \in T.lock[e] \ (H \cup {Swapout}) <=> e \in T.late
          /\ T.abort[e] # "unset" => F \in T.lock[e] \ (H \cup {Swapout})
      BY <1>1, <1>2, <2>1, HoldersDiffer DEF HoldOK
    <2>6. Late \notin T.lock[e]
      BY <1>1, <1>2, HoldersDiffer DEF HoldOK
    <2>7. H \cup {Swapout} \subseteq T.lock[e] /\ T.swap[e] # "SWAPOUT_WRITING"
      BY <1>1, <1>2 DEF HoldOK
    <2>. QED
      BY <2>3, <2>4, <2>5, <2>6, <2>7 DEF HoldOK
  <1>7. S.key[e] # NoKey
    BY <1>2 DEF Shaped, FreeOK
  <1>8. SwapOK(T, e)
    BY <1>1, <1>7 DEF Shaped, SwapOK, OtherFlags
  <1>5. SwapOK(T, e) /\ AbortOK(T, e)
    BY <1>1, <1>8 DEF Shaped, AbortOK, OtherFlags
  <1>6. Acts(S, T, e, {})
    <2>1. T.clients[e] = S.clients[e]
      BY <1>1
    <2>. QED
      BY <2>1, TouchesActs DEF OtherFlags
  <1>. QED
    BY <1>2, <1>3, <1>4, <1>5, <1>6 DEF Shaped

LEMMA SwapFailedLoose ==
  ASSUME NEW S, NEW X, NEW e \in Entries, NEW H, Loose(S, X, e, H), S.swap[e] = "SWAPOUT_WRITING"
  PROVE  LET T == [SwapFailed(S, e) EXCEPT !.sio[e] = FALSE]
         IN  /\ Loose(T, X, e, H \cup {Swapout}) /\ Acts(S, T, e, {}) /\ Swapout \notin H
             /\ T.lock[e] = S.lock[e] /\ T.status[e] = S.status[e]
  <1> DEFINE U == IF S.filen[e] > 0 THEN storeUnlink(S, e) ELSE S
             N == [U EXCEPT !.filen[e] = -1, !.swap[e] = "SWAPOUT_NONE"]
             R == storeReleaseRequest(N, e)
             T == [SwapFailed(S, e) EXCEPT !.sio[e] = FALSE]
  <1>0. S \in Store /\ S.ok /\ Good(S, X) /\ Shaped(S, e, H)
    BY DEF Loose, Good
  <1>1. S.key[e] # NoKey
    BY <1>0, HoldersDiffer DEF Shaped, FreeOK, HoldOK
  <1>2. Touches(S, U, e, {})
    <2>1. S.map \ {S.filen[e]} \in SUBSET Files
      BY <1>0 DEF Store
    <2>2. storeUnlink(S, e) = [S EXCEPT !.map = S.map \ {S.filen[e]}]
      BY DEF storeUnlink
    <2>3. Touches(S, storeUnlink(S, e), e, {})
      BY <1>0, <2>1, <2>2, PutMap
    <2>. QED
      BY <1>0, <2>3, TouchesRefl
  <1>3. SwapFailed(S, e) = R
    BY DEF SwapFailed
  <1> HIDE DEF U
  <1>4. U \in Store /\ U.ok /\ U.key[e] = S.key[e] /\ U.log = S.log /\ U.flags[e] = S.flags[e]
    BY <1>0, <1>2 DEF Touches, Elsewhere
  <1>19. NoFile(U, N, e)
    BY DEF NoFile
  <1> HIDE DEF N
  <1>5. Touches(U, N, e, {"filen", "swap"}) /\ N.filen[e] = -1 /\ N.swap[e] = "SWAPOUT_NONE"
    BY <1>4, <1>19, NoFileTouches
  <1>6. /\ N \in Store /\ N.ok /\ N.key[e] = S.key[e] /\ N.log = S.log
        /\ N.flags[e] = S.flags[e]
    BY <1>4, <1>5 DEF Touches, Elsewhere
  <1>7. /\ Touches(N, R, e, {"key", "log", "flags"}) /\ Released(N, R, e) /\ R.log = N.log
    BY <1>5, <1>6, ReleaseRequestTouches
  <1>8. Good(R, X)
    BY <1>0, <1>3, SwapFailedStep, StepGood
  <1> HIDE DEF R
  <1>9. R \in Store /\ T = [R EXCEPT !.sio[e] = FALSE]
    BY <1>3, <1>7 DEF Touches, Elsewhere
  <1> HIDE DEF T
  <1>10. Touches(R, T, e, {"sio"}) /\ T.sio[e] = FALSE
    BY <1>9, PutSio
  <1>11. Good(T, X)
    <2>1. Quiet(R, T)
      BY <1>9, SioQuiet
    <2>. QED
      BY <1>8, <2>1, QuietStep, StepGood
  <1>12. Touches(S, T, e, {"key", "log", "flags", "swap", "filen", "size", "sio"})
    <2>1. Touches(S, N, e, {} \cup {"filen", "swap"})
      BY <1>2, <1>5, TouchesTrans
    <2>2. Touches(N, T, e, {"key", "log", "flags"} \cup {"sio"})
      BY <1>7, <1>10, TouchesTrans
    <2>3. Touches(S, T, e, ({} \cup {"filen", "swap"}) \cup ({"key", "log", "flags"} \cup {"sio"}))
      BY <2>1, <2>2, TouchesTrans
    <2>. QED
      BY <2>3, TouchesMore
  <1>13. /\ T.swap[e] = "SWAPOUT_NONE" /\ T.filen[e] = -1 /\ T.log = S.log /\ T.key[e] # NoKey
         /\ T.flags[e] = R.flags[e] /\ T.size = S.size
    <2>1. /\ T.swap[e] = R.swap[e] /\ T.filen[e] = R.filen[e] /\ T.log = R.log
          /\ T.key[e] = R.key[e] /\ T.flags[e] = R.flags[e] /\ T.size = R.size
      BY <1>10 DEF Touches
    <2>2. R.swap[e] = N.swap[e] /\ R.filen[e] = N.filen[e] /\ R.size = N.size
      BY <1>7 DEF Touches
    <2>3. N.size = U.size /\ U.size = S.size
      BY <1>2, <1>5 DEF Touches
    <2>4. R.key[e] # NoKey
      BY <1>1, <1>6, <1>7, KeysAssumption DEF Released
    <2>. QED
      BY <1>5, <1>6, <1>7, <2>1, <2>2, <2>3, <2>4
  <1>14. OtherFlags(S, T, e)
    BY <1>6, <1>7, <1>13 DEF Released, OtherFlags
  <1>15. Shaped(T, e, H \cup {Swapout}) /\ Acts(S, T, e, {}) /\ Swapout \notin H
    BY <1>0, <1>10, <1>12, <1>13, <1>14, CloseShaped
  <1>16. LogOne(S, T, e) /\ SizeOne(S, T, e)
    BY <1>13 DEF LogOne, Logged, SizeOne, Stored
  <1>17. T.ok /\ Elsewhere(S, T, e) /\ T.lock[e] = S.lock[e] /\ T.status[e] = S.status[e]
    BY <1>0, <1>12 DEF Touches
  <1>18. Loose(T, X, e, H \cup {Swapout})
    BY <1>11, <1>15, <1>16, <1>17, Change
  <1>. QED
    BY <1>15, <1>17, <1>18 DEF T

Counted(S, T, e) == T = [S EXCEPT !.swap[e] = "SWAPOUT_DONE", !.size = @ + 1]
LEMMA CountedTouches ==
  ASSUME NEW S \in Store, NEW e \in Entries, NEW T, Counted(S, T, e)
  PROVE  /\ Touches(S, T, e, {"swap", "size"}) /\ T.swap[e] = "SWAPOUT_DONE"
         /\ T.size = S.size + 1
  <1>1. T \in Store
    <2>1. S.size + 1 \in Int /\ S.size \in Int
      BY DEF Store
    <2>. QED
      BY <2>1 DEF Store, Counted
  <1>2. /\ T.key = S.key /\ T.url = S.url /\ T.lock = S.lock /\ T.flags = S.flags
        /\ T.status = S.status /\ T.filen = S.filen /\ T.mem = S.mem /\ T.sio = S.sio
        /\ T.clients = S.clients /\ T.abort = S.abort /\ T.log = S.log /\ T.late = S.late
        /\ T.rebuild = S.rebuild /\ T.ok = S.ok
    BY DEF Store, Counted
  <1>3. T.swap = [S.swap EXCEPT ![e] = "SWAPOUT_DONE"] /\ T.size = S.size + 1
    BY DEF Store, Counted
  <1>4. T.swap[e] = "SWAPOUT_DONE" /\ \A x \in Entries \ {e} : T.swap[x] = S.swap[x]
    BY <1>3 DEF Store
  <1>5. Elsewhere(S, T, e)
    BY <1>1, <1>2, <1>4 DEF Elsewhere, SameEntry
  <1>6. Touches(S, T, e, {"swap", "size"})
    BY <1>2, <1>5 DEF Touches
  <1>. QED
    BY <1>3, <1>4, <1>6

(* The log gets the record of a complete file, unless its entry is released. *)
LEMMA SwapDoneTouches ==
  ASSUME NEW S \in Store, S.ok, NEW e \in Entries, S.swap[e] = "SWAPOUT_WRITING",
         S.key[e] # NoKey, S.filen[e] # -1, "ENTRY_NEGCACHED" \notin S.flags[e],
         "RELEASE_REQUEST" \in S.flags[e] => S.key[e] \notin Keys, NEW fit
  PROVE  LET T == SwapDone(S, e, fit)
         IN  /\ Touches(S, T, e, {"key", "log", "flags", "swap", "size"})
             /\ OtherFlags(S, T, e) /\ T.key[e] # NoKey
             /\ T.swap[e] = "SWAPOUT_DONE" /\ T.size = S.size + 1
             /\ LogOne(S, T, e)
  <1> DEFINE D == [S EXCEPT !.swap[e] = "SWAPOUT_DONE", !.size = @ + 1]
             T == SwapDone(S, e, fit)
             Z == ClrFlag(storeReleaseRequest(D, e), e, "ENTRY_CACHABLE")
  <1>1. T = IF Cachable(D, e, fit) THEN storeDirSwapLog(D, e, "ADD")
            ELSE storeCheckCachable(D, e, fit)
    BY DEF SwapDone
  <1>2. Counted(S, D, e)
    BY DEF Counted
  <1> HIDE DEF D
  <1>3. /\ Touches(S, D, e, {"swap", "size"}) /\ D.swap[e] = "SWAPOUT_DONE"
        /\ D.size = S.size + 1
    BY <1>2, CountedTouches
  <1>4. /\ D \in Store /\ D.ok /\ D.key[e] = S.key[e] /\ D.filen[e] = S.filen[e]
        /\ D.flags[e] = S.flags[e] /\ D.log = S.log
    BY <1>3 DEF Touches, Elsewhere
  <1>5. S.key[e] \in Keys \cup {Private} /\ Private \notin Keys
    BY KeysAssumption DEF Store
  <1>6. CASE Cachable(D, e, fit)
    <2>1. T = storeDirSwapLog(D, e, "ADD")
      BY <1>1, <1>6
    <2> HIDE DEF T
    <2>2. D.key[e] \in Keys /\ D.filen[e] # -1
      BY <1>4, <1>5, <1>6 DEF Cachable
    <2>3. Touches(D, T, e, {"log"}) /\ T.log = D.log \cup {<<D.key[e], D.filen[e]>>}
      BY <1>4, <2>1, <2>2, SwapLogOn
    <2>4. Touches(S, T, e, {"swap", "size"} \cup {"log"})
      BY <1>3, <2>3, TouchesTrans
    <2>5. Touches(S, T, e, {"key", "log", "flags", "swap", "size"})
      BY <2>4, TouchesMore
    <2>6. /\ T.key[e] = S.key[e] /\ T.filen[e] = S.filen[e] /\ T.flags[e] = S.flags[e]
          /\ T.swap[e] = "SWAPOUT_DONE" /\ T.size = S.size + 1
      BY <1>3, <1>4, <2>3 DEF Touches
    <2>7. LogOne(S, T, e)
      BY <1>4, <2>2, <2>3, <2>6 DEF LogOne, Logged
    <2>. QED
      BY <2>5, <2>6, <2>7 DEF OtherFlags, T
  <1>7. CASE ~Cachable(D, e, fit)
    <2>1. T = Z
      BY <1>1, <1>4, <1>7 DEF storeCheckCachable, Has
    <2>2. /\ Touches(D, Z, e, {"key", "log", "flags"}) /\ OtherFlags(D, Z, e)
          /\ "RELEASE_REQUEST" \in Z.flags[e] /\ Z.key[e] \in {D.key[e], Private}
          /\ Z.key[e] = D.key[e] => "RELEASE_REQUEST" \in D.flags[e] \/ D.key[e] = Private
          /\ \/ Z.log = D.log /\ (Z.key[e] = D.key[e] \/ D.key[e] \notin Keys \/ D.filen[e] = -1)
             \/ Z.log = D.log \ {<<D.key[e], D.filen[e]>>} /\ D.filen[e] # -1 /\ Z.key[e] = Private
      BY <1>4, RefuseTouches
    <2> HIDE DEF T, Z
    <2>3. Touches(S, Z, e, {"swap", "size"} \cup {"key", "log", "flags"})
      BY <1>3, <2>2, TouchesTrans
    <2>4. Touches(S, Z, e, {"key", "log", "flags", "swap", "size"})
      BY <2>3, TouchesMore
    <2>5. Z.swap[e] = "SWAPOUT_DONE" /\ Z.size = S.size + 1
      BY <1>3, <2>2 DEF Touches
    <2>6. OtherFlags(S, Z, e)
      BY <1>4, <2>2 DEF OtherFlags
    <2>7. Z.key[e] \notin Keys /\ Z.key[e] # NoKey
      BY <1>4, <1>5, <2>2, KeysAssumption
    <2>8. LogOne(S, Z, e)
      BY <1>4, <2>2, <2>7 DEF LogOne, Logged
    <2>. QED
      BY <2>1, <2>4, <2>5, <2>6, <2>7, <2>8 DEF T
  <1>. QED
    BY <1>6, <1>7

LEMMA SwapDoneLoose ==
  ASSUME NEW S, NEW X, NEW e \in Entries, NEW H, Loose(S, X, e, H),
         S.swap[e] = "SWAPOUT_WRITING", NEW fit
  PROVE  LET T == [SwapDone(S, e, fit) EXCEPT !.sio[e] = FALSE]
         IN  /\ Loose(T, X, e, H \cup {Swapout}) /\ Acts(S, T, e, {}) /\ Swapout \notin H
             /\ T.lock[e] = S.lock[e] /\ T.status[e] = S.status[e]
  <1> DEFINE D == SwapDone(S, e, fit)
             T == [SwapDone(S, e, fit) EXCEPT !.sio[e] = FALSE]
  <1>0. S \in Store /\ S.ok /\ Good(S, X) /\ Shaped(S, e, H) /\ S.size \in Int
    BY DEF Loose, Good, Store
  <1>1. /\ S.key[e] # NoKey /\ S.filen[e] # -1 /\ "ENTRY_NEGCACHED" \notin S.flags[e]
        /\ "ENTRY_VALIDATED" \in S.flags[e]
        /\ "RELEASE_REQUEST" \in S.flags[e] => S.key[e] \notin Keys
    BY <1>0 DEF Shaped, FreeOK, HoldOK, SwapOK, Good, EntryOK
  <1>2. /\ Touches(S, D, e, {"key", "log", "flags", "swap", "size"})
        /\ OtherFlags(S, D, e) /\ D.key[e] # NoKey
        /\ D.swap[e] = "SWAPOUT_DONE" /\ D.size = S.size + 1 /\ LogOne(S, D, e)
    BY <1>0, <1>1, SwapDoneTouches
  <1>3. Good(D, X)
    BY <1>0, SwapDoneStep, StepGood
  <1>4. T = [D EXCEPT !.sio[e] = FALSE]
    OBVIOUS
  <1> HIDE DEF D, T
  <1>5. D \in Store
    BY <1>2 DEF Touches, Elsewhere
  <1>6. Touches(D, T, e, {"sio"}) /\ T.sio[e] = FALSE
    BY <1>4, <1>5, PutSio
  <1>7. Good(T, X)
    <2>1. Quiet(D, T)
      BY <1>4, <1>5, SioQuiet
    <2>. QED
      BY <1>3, <2>1, QuietStep, StepGood
  <1>8. Touches(S, T, e, {"key", "log", "flags", "swap", "filen", "size", "sio"})
    <2>1. Touches(S, T, e, {"key", "log", "flags", "swap", "size"} \cup {"sio"})
      BY <1>2, <1>6, TouchesTrans
    <2>. QED
      BY <2>1, TouchesMore
  <1>9. /\ T.key[e] = D.key[e] /\ T.flags[e] = D.flags[e] /\ T.swap[e] = D.swap[e]
        /\ T.filen[e] = D.filen[e] /\ T.size = D.size /\ T.log = D.log
    BY <1>6 DEF Touches
  <1>10. D.filen[e] = S.filen[e]
    BY <1>2 DEF Touches
  <1>11. OtherFlags(S, T, e)
    BY <1>2, <1>9 DEF OtherFlags
  <1>12. Shaped(T, e, H \cup {Swapout}) /\ Acts(S, T, e, {}) /\ Swapout \notin H
    BY <1>0, <1>1, <1>2, <1>6, <1>8, <1>9, <1>10, <1>11, CloseShaped
  <1>13. LogOne(S, T, e)
    BY <1>2, <1>9 DEF LogOne, Logged
  <1>14. SizeOne(S, T, e)
    BY <1>0, <1>1, <1>2, <1>9, <1>11 DEF SizeOne, Stored, OtherFlags
  <1>15. T.ok /\ Elsewhere(S, T, e) /\ T.lock[e] = S.lock[e] /\ T.status[e] = S.status[e]
    BY <1>0, <1>8 DEF Touches
  <1>16. Loose(T, X, e, H \cup {Swapout})
    BY <1>7, <1>12, <1>13, <1>14, <1>15, Change
  <1>. QED
    BY <1>12, <1>15, <1>16 DEF T

LEMMA ActsBoth ==
  ASSUME NEW S, NEW T, NEW U, NEW e, Acts(S, T, e, {}), Acts(T, U, e, {})
  PROVE  Acts(S, U, e, {})
  <1>1. Acts(S, U, e, {} \cup {})
    BY ActsTrans
  <1>. QED
    BY <1>1

(* A change of more than one entry's references, in the end.                 *)
LEMMA ActsThen ==
  ASSUME NEW S, NEW T, NEW U, NEW e, NEW G, Acts(S, T, e, {}), Acts(T, U, e, G)
  PROVE  Acts(S, U, e, G)
  <1>1. Acts(S, U, e, {} \cup G)
    BY ActsTrans
  <1>2. {} \cup G = G
    OBVIOUS
  <1>. QED
    BY <1>1, <1>2, Zenon

LEMMA ActsSwapout ==
  ASSUME NEW S, NEW T, NEW e, Acts(S, T, e, {Swapout})
  PROVE  Acts(S, T, e, {})
  <1>1. Out(S, e) \ {Swapout} = Out(S, e) \ {}
    BY DEF Out
  <1>. QED
    BY <1>1 DEF Acts

LEMMA KeepOrReleaseLoose ==
  ASSUME NEW S, NEW X, NEW e \in Entries, NEW H, Loose(S, X, e, H), S.key[e] # NoKey, NEW fit
  PROVE  LET T == KeepOrRelease(S, e, fit)
         IN  Loose(T, X, e, H) /\ Acts(S, T, e, {}) /\ T.status[e] = S.status[e]
  <1> DEFINE T == KeepOrRelease(S, e, fit)
             R == storeReleaseRequest(S, e)
  <1>1. CASE T = S
    BY <1>1, ActsRefl DEF Loose, Good
  <1>2. CASE T = R
    <2>1. Loose(R, X, e, H) /\ Acts(S, R, e, {}) /\ Touches(S, R, e, {"key", "log", "flags"})
      BY ReleaseRequestLoose
    <2>. QED
      BY <1>2, <2>1 DEF Touches
  <1>3. T = S \/ T = R
    BY DEF KeepOrRelease
  <1>. QED
    BY <1>1, <1>2, <1>3

(* The close callback of the swap file.                                      *)
LEMMA storeSwapOutFileClosedFine ==
  ASSUME NEW S, NEW X, NEW e \in Entries, NEW H, Loose(S, X, e, H), Safe(S, X, e),
         S.swap[e] = "SWAPOUT_WRITING", NEW err, NEW fit, NEW keep
  PROVE  LET T == storeSwapOutFileClosed(S, e, err, fit, keep)
         IN  Fine(T, X, e, H) /\ Acts(S, T, e, {})
  <1> DEFINE C == [(IF err THEN SwapFailed(S, e) ELSE SwapDone(S, e, fit)) EXCEPT !.sio[e] = FALSE]
             K == KeepOrRelease(C, e, fit)
             T == storeSwapOutFileClosed(S, e, err, fit, keep)
  <1>0. S \in Store /\ S.ok
    BY DEF Loose, Good
  <1>1. T = storeUnlockObject(K, e, Swapout, keep)
    <2>1. Must(S, S.swap[e] = "SWAPOUT_WRITING") = S
      BY <1>0, MustTrue
    <2>. QED
      BY <2>1 DEF storeSwapOutFileClosed, Swapout
  <1>2. /\ Loose(C, X, e, H \cup {Swapout}) /\ Acts(S, C, e, {}) /\ Swapout \notin H
        /\ C.lock[e] = S.lock[e] /\ C.status[e] = S.status[e]
    <2>1. CASE err
      <3>1. C = [SwapFailed(S, e) EXCEPT !.sio[e] = FALSE]
        BY <2>1
      <3> HIDE DEF C
      <3>. QED
        BY <3>1, SwapFailedLoose
    <2>2. CASE ~err
      <3>1. C = [SwapDone(S, e, fit) EXCEPT !.sio[e] = FALSE]
        BY <2>2
      <3> HIDE DEF C
      <3>. QED
        BY <3>1, SwapDoneLoose
    <2>. QED
      BY <2>1, <2>2
  <1> HIDE DEF C, T
  <1>3. C.key[e] # NoKey
    BY <1>2 DEF Loose, Shaped, FreeOK, HoldOK
  <1>4. /\ Loose(K, X, e, H \cup {Swapout}) /\ Acts(C, K, e, {}) /\ K.status[e] = C.status[e]
    BY <1>2, <1>3, KeepOrReleaseLoose
  <1> HIDE DEF K
  <1>5. Safe(K, X, e)
    BY <1>2, <1>4 DEF Safe
  <1>6. Fine(T, X, e, H) /\ Acts(K, T, e, {Swapout})
    BY <1>1, <1>2, <1>4, <1>5, HoldersDiffer, storeUnlockObjectFine
  <1>7. Acts(S, K, e, {}) /\ Acts(K, T, e, {})
    BY <1>2, <1>4, <1>6, ActsBoth, ActsSwapout
  <1>. QED
    BY <1>6, <1>7, ActsBoth DEF T

(* storeClose of the file, answered at once or later.                        *)
LEMMA storeSwapOutFileCloseFine ==
  ASSUME NEW S, NEW X, NEW e \in Entries, NEW H, Fine(S, X, e, H), Safe(S, X, e),
         NEW fit, NEW keep
  PROVE  LET T == storeSwapOutFileClose(S, e, fit, keep)
         IN  Fine(T, X, e, H) /\ Acts(S, T, e, {})
  <1> DEFINE C == [S EXCEPT !.sio[e] = FALSE]
             T == storeSwapOutFileClose(S, e, fit, keep)
  <1>0. S \in Store /\ S.ok /\ Good(S, X) /\ Shaped(S, e, H)
    BY DEF Fine, Loose, Good
  <1>1. CASE ~S.sio[e]
    <2>1. T = S
      BY <1>1 DEF storeSwapOutFileClose
    <2>. QED
      BY <1>0, <2>1, ActsRefl
  <1>2. CASE S.sio[e]
    <2>1. T = IF SyncClose THEN storeSwapOutFileClosed(C, e, FALSE, fit, keep) ELSE C
      BY <1>2 DEF storeSwapOutFileClose
    <2>2. Touches(S, C, e, {"sio"}) /\ C.sio[e] = FALSE
      BY <1>0, PutSio
    <2>3. Good(C, X)
      <3>1. Quiet(S, C)
        BY <1>0, SioQuiet
      <3>. QED
        BY <1>0, <3>1, QuietStep, StepGood
    <2> HIDE DEF C, T
    <2>4. /\ C.key[e] = S.key[e] /\ C.url[e] = S.url[e] /\ C.flags[e] = S.flags[e]
          /\ C.status[e] = S.status[e] /\ C.swap[e] = S.swap[e] /\ C.filen[e] = S.filen[e]
          /\ C.mem[e] = S.mem[e] /\ C.lock[e] = S.lock[e] /\ C.clients[e] = S.clients[e]
          /\ C.abort[e] = S.abort[e] /\ (e \in C.late <=> e \in S.late) /\ C.ok
          /\ Elsewhere(S, C, e)
      BY <1>0, <2>2 DEF Touches
    <2>5. HoldOK(C, e, H)
      BY <1>0, <2>2, <2>4 DEF Shaped, HoldOK
    <2>6. Shaped(C, e, H)
      BY <1>0, <2>4, <2>5 DEF Shaped, FreeOK, MemOK, SwapOK, AbortOK
    <2>7. LogOne(S, C, e) /\ SizeOne(S, C, e)
      BY <2>2, <2>4, QuietLog, QuietSize
    <2>8. Loose(C, X, e, H)
      BY <2>3, <2>4, <2>6, <2>7, Change DEF Fine
    <2>9. Fine(C, X, e, H) /\ C.swap[e] = "SWAPOUT_WRITING"
      BY <1>0, <1>2, <2>4, <2>8 DEF Fine, LeakOK, Shaped, HoldOK
    <2>10. Acts(S, C, e, {}) /\ Safe(C, X, e)
      BY <2>2, <2>4, TouchesActs DEF Safe
    <2>11. CASE T = C
      BY <2>9, <2>10, <2>11 DEF T
    <2>12. CASE T = storeSwapOutFileClosed(C, e, FALSE, fit, keep)
      <3>1. Fine(T, X, e, H) /\ Acts(C, T, e, {})
        BY <2>8, <2>9, <2>10, <2>12, storeSwapOutFileClosedFine
      <3>. QED
        BY <2>10, <3>1, ActsBoth DEF T
    <2>. QED
      BY <2>1, <2>11, <2>12
  <1>. QED
    BY <1>1, <1>2

(* A reference from outside the store keeps the entry whole.                 *)
LEMMA Held ==
  ASSUME NEW S, NEW X, NEW e \in Entries, NEW H, Loose(S, X, e, H), Out(S, e) # {}
  PROVE  S.lock[e] # {} /\ Late \notin S.lock[e] /\ S.key[e] # NoKey /\ S.mem[e] # "NULL"
  <1>1. S.lock[e] # {} /\ ~(S.lock[e] \subseteq {Late})
    BY DEF Out
  <1>. QED
    BY <1>1 DEF Loose, Shaped, FreeOK, MemOK, HoldOK

LEMMA ActsOut ==
  ASSUME NEW S, NEW T, NEW e, Acts(S, T, e, {})
  PROVE  Out(T, e) = Out(S, e)
  BY DEF Acts

LEMMA storeSwapOutMaintainMemObjectFine ==
  ASSUME NEW S, NEW X, NEW e \in Entries, NEW H, Fine(S, X, e, H), Safe(S, X, e),
         Out(S, e) # {}, NEW fit, NEW keep
  PROVE  LET T == storeSwapOutMaintainMemObject(S, e, fit, keep)
         IN  Fine(T, X, e, H) /\ Acts(S, T, e, {})
  <1> DEFINE R == storeReleaseRequest(S, e)
             T == storeSwapOutMaintainMemObject(S, e, fit, keep)
  <1>0. S \in Store /\ S.lock[e] # {} /\ S.key[e] # NoKey /\ Loose(S, X, e, H)
    BY Held DEF Fine, Loose, Good
  <1>1. CASE T = S
    BY <1>0, <1>1, ActsRefl
  <1>2. CASE T = storeSwapOutFileClose(R, e, fit, keep)
    <2>1. /\ Loose(R, X, e, H) /\ Touches(S, R, e, {"key", "log", "flags"})
          /\ Acts(S, R, e, {}) /\ LeakOK(R, e)
      BY <1>0, ReleaseRequestLoose
    <2> HIDE DEF R, T
    <2>2. Fine(R, X, e, H) /\ Safe(R, X, e)
      BY <2>1 DEF Fine, Safe, Touches
    <2>3. Fine(T, X, e, H) /\ Acts(R, T, e, {})
      BY <1>2, <2>2, storeSwapOutFileCloseFine
    <2>. QED
      BY <2>1, <2>3, ActsBoth DEF T
  <1>3. T = S \/ T = storeSwapOutFileClose(R, e, fit, keep)
    BY DEF storeSwapOutMaintainMemObject
  <1>. QED
    BY <1>1, <1>2, <1>3

Started(S, T, e, f) ==
    T = [S EXCEPT !.swap[e] = "SWAPOUT_WRITING", !.filen[e] = f, !.sio[e] = TRUE,
                  !.map = @ \cup {f}]
LEMMA StartedTouches ==
  ASSUME NEW S \in Store, NEW e \in Entries, NEW T, NEW f \in Files, Started(S, T, e, f)
  PROVE  /\ Touches(S, T, e, {"swap", "filen", "sio"})
         /\ T.swap[e] = "SWAPOUT_WRITING" /\ T.filen[e] = f /\ T.sio[e] = TRUE
  <1>1. T \in Store
    <2>1. S.map \cup {f} \in SUBSET Files
      BY DEF Store
    <2> DEFINE M == S.map \cup {f}
    <2>3. T = [S EXCEPT !.swap[e] = "SWAPOUT_WRITING", !.filen[e] = f, !.sio[e] = TRUE, !.map = M]
      BY DEF Started
    <2>4. M \in SUBSET Files
      BY <2>1
    <2> HIDE DEF M
    <2>. QED
      BY <2>3, <2>4 DEF Store
  <1>2. /\ T.key = S.key /\ T.url = S.url /\ T.lock = S.lock /\ T.flags = S.flags
        /\ T.status = S.status /\ T.mem = S.mem /\ T.clients = S.clients
        /\ T.abort = S.abort /\ T.log = S.log /\ T.late = S.late /\ T.size = S.size
        /\ T.rebuild = S.rebuild /\ T.ok = S.ok
    BY DEF Store, Started
  <1>3. /\ T.swap = [S.swap EXCEPT ![e] = "SWAPOUT_WRITING"]
        /\ T.filen = [S.filen EXCEPT ![e] = f] /\ T.sio = [S.sio EXCEPT ![e] = TRUE]
    BY DEF Store, Started
  <1>4. /\ S.swap \in [Entries -> {"SWAPOUT_NONE", "SWAPOUT_WRITING", "SWAPOUT_DONE"}]
        /\ S.filen \in [Entries -> Files \cup {-1}] /\ S.sio \in [Entries -> BOOLEAN]
    BY DEF Store
  <1>6. /\ T.swap[e] = "SWAPOUT_WRITING" /\ T.filen[e] = f /\ T.sio[e] = TRUE
    BY <1>3, <1>4
  <1>7. \A x \in Entries \ {e} :
           /\ T.swap[x] = S.swap[x] /\ T.filen[x] = S.filen[x] /\ T.sio[x] = S.sio[x]
    BY <1>3, <1>4
  <1>8. Elsewhere(S, T, e)
    BY <1>1, <1>2, <1>7 DEF Elsewhere, SameEntry
  <1>9. Touches(S, T, e, {"swap", "filen", "sio"})
    BY <1>2, <1>8 DEF Touches
  <1>. QED
    BY <1>6, <1>9


(* A file is opened: the entry is held until it is closed.                   *)
LEMMA storeSwapOutStartFine ==
  ASSUME NEW S, NEW X, NEW e \in Entries, NEW H, Loose(S, X, e, H), Out(S, e) # {},
         NEW f \in Files \ S.map, S.swap[e] = "SWAPOUT_NONE", Swapout \notin H,
         "ENTRY_NEGCACHED" \notin S.flags[e], "ENTRY_FWD_HDR_WAIT" \notin S.flags[e]
  PROVE  LET T == storeSwapOutStart(S, e, f)
         IN  /\ Fine(T, X, e, H) /\ Acts(S, T, e, {}) /\ T.status[e] = S.status[e]
  <1> DEFINE L == storeLockObject(S, e, Swapout)
             T == storeSwapOutStart(S, e, f)
  <1>0. /\ S \in Store /\ S.ok /\ Good(S, X) /\ Shaped(S, e, H) /\ Late \notin S.lock[e]
        /\ S.key[e] # NoKey /\ S.mem[e] # "NULL"
    BY Held DEF Loose, Good
  <1>1. Swapout \in Holders /\ f \in Files /\ f # -1
    BY FilesAssumption DEF Swapout, Holders, Roles
  <1>2. Swapout \notin S.lock[e] /\ H \subseteq S.lock[e]
    BY <1>0 DEF Shaped, HoldOK
  <1>3. Touches(S, L, e, {"lock"}) /\ L.lock[e] = S.lock[e] \cup {Swapout}
    BY <1>0, <1>1, <1>2, LockTouches
  <1>4. Started(L, T, e, f)
    BY DEF Started, storeSwapOutStart, Swapout
  <1>5. Good(T, X)
    BY <1>0, storeSwapOutStartStep, StepGood
  <1> HIDE DEF L, T
  <1>6. L \in Store
    BY <1>3 DEF Touches, Elsewhere
  <1>7. /\ Touches(L, T, e, {"swap", "filen", "sio"})
        /\ T.swap[e] = "SWAPOUT_WRITING" /\ T.filen[e] = f /\ T.sio[e] = TRUE
    BY <1>1, <1>4, <1>6, StartedTouches
  <1>8. Touches(S, T, e, {"lock"} \cup {"swap", "filen", "sio"})
    BY <1>3, <1>7, TouchesTrans
  <1>9. /\ T.key[e] = S.key[e] /\ T.url[e] = S.url[e] /\ T.flags[e] = S.flags[e]
        /\ T.status[e] = S.status[e] /\ T.mem[e] = S.mem[e] /\ T.clients[e] = S.clients[e]
        /\ T.abort[e] = S.abort[e] /\ (e \in T.late <=> e \in S.late) /\ T.ok
        /\ Elsewhere(S, T, e) /\ T.log = S.log /\ T.size = S.size
    BY <1>0, <1>8 DEF Touches
  <1>10. T.lock[e] = S.lock[e] \cup {Swapout}
    BY <1>3, <1>7 DEF Touches
  <1>11. FreeOK(T, e) /\ MemOK(T, e)
    BY <1>0, <1>9, <1>10, HoldersDiffer DEF Shaped, FreeOK, MemOK
  <1>12. HoldOK(T, e, H)
    <2>1. \A x : x # Swapout => (x \in T.lock[e] \ H <=> x \in S.lock[e] \ H)
      BY <1>10
    <2>2. Swapout \in T.lock[e] \ H
      BY <1>10
    <2>3. HoldOK(S, e, H)
      BY <1>0 DEF Shaped
    <2>4. \A c \in Clients : ScLock(c) \in T.lock[e] \ H <=> c \in T.clients[e]
      BY <1>9, <2>1, <2>3, HoldersDiffer DEF HoldOK
    <2>5. \A c \in Clients : c \in T.clients[e] => HttpLock(c) \in T.lock[e] \ H
      BY <1>9, <2>1, <2>3, HoldersDiffer DEF HoldOK
    <2>6. /\ Late \in T.lock[e] \ H <=> e \in T.late
          /\ T.abort[e] # "unset" => F \in T.lock[e] \ H
          /\ Late \notin T.lock[e]
      BY <1>0, <1>9, <1>10, <2>1, <2>3, HoldersDiffer DEF HoldOK
    <2>. QED
      BY <1>2, <1>7, <1>10, <2>2, <2>4, <2>5, <2>6 DEF HoldOK
  <1>13. SwapOK(T, e) /\ AbortOK(T, e)
    BY <1>0, <1>1, <1>7, <1>9 DEF Shaped, SwapOK, AbortOK
  <1>14. LogOne(S, T, e) /\ SizeOne(S, T, e)
    BY <1>7, <1>9 DEF LogOne, Logged, SizeOne, Stored
  <1>15. Loose(T, X, e, H)
    BY <1>5, <1>9, <1>11, <1>12, <1>13, <1>14, Change DEF Shaped
  <1>16. LeakOK(T, e)
    BY <1>10 DEF LeakOK
  <1>17. Acts(S, T, e, {})
    BY <1>9, <1>10, HoldersDiffer DEF Acts, Out, Fate
  <1>. QED
    BY <1>9, <1>15, <1>16, <1>17 DEF Fine, T

LEMMA WriteBlocksFine ==
  ASSUME NEW S, NEW X, NEW e \in Entries, NEW H, Fine(S, X, e, H), Safe(S, X, e),
         NEW o, NEW keep
  PROVE  LET T == WriteBlocks(S, e, o, keep) IN Fine(T, X, e, H) /\ Acts(S, T, e, {})
  <1> DEFINE T == WriteBlocks(S, e, o, keep)
  <1>0. S \in Store /\ Loose(S, X, e, H)
    BY DEF Fine, Loose, Good
  <1>1. \/ T = S
        \/ T = storeSwapOutFileClosed(S, e, TRUE, TRUE, keep) /\ S.sio[e]
        \/ T = storeSwapOutFileClose(S, e, TRUE, keep)
    BY DEF WriteBlocks
  <1>2. CASE T = S
    BY <1>0, <1>2, ActsRefl
  <1>3. CASE T = storeSwapOutFileClosed(S, e, TRUE, TRUE, keep) /\ S.sio[e]
    <2>1. S.swap[e] = "SWAPOUT_WRITING"
      BY <1>0, <1>3 DEF Loose, Shaped, HoldOK
    <2>. QED
      BY <1>0, <1>3, <2>1, storeSwapOutFileClosedFine
  <1>4. CASE T = storeSwapOutFileClose(S, e, TRUE, keep)
    BY <1>4, storeSwapOutFileCloseFine
  <1>. QED
    BY <1>1, <1>2, <1>3, <1>4

(* The file map alone says nothing of an entry.                              *)
LEMMA MapFine ==
  ASSUME NEW S, NEW X, NEW e \in Entries, NEW H, Fine(S, X, e, H), NEW f \in Files
  PROVE  LET T == [S EXCEPT !.map = @ \cup {f}] IN Fine(T, X, e, H) /\ Acts(S, T, e, {})
  <1> DEFINE T == [S EXCEPT !.map = @ \cup {f}]
             M == S.map \cup {f}
  <1>0. S \in Store /\ S.ok /\ Good(S, X) /\ Shaped(S, e, H) /\ LeakOK(S, e)
    BY DEF Fine, Loose, Good
  <1>1. M \in SUBSET Files
    BY <1>0 DEF Store
  <1>2. T = [S EXCEPT !.map = M]
    OBVIOUS
  <1>3. Good(T, X)
    BY <1>0, MapStep, StepGood
  <1> HIDE DEF M, T
  <1>4. Touches(S, T, e, {})
    BY <1>0, <1>1, <1>2, PutMap
  <1>5. /\ T.key[e] = S.key[e] /\ T.url[e] = S.url[e] /\ T.flags[e] = S.flags[e]
        /\ T.status[e] = S.status[e] /\ T.swap[e] = S.swap[e] /\ T.filen[e] = S.filen[e]
        /\ T.mem[e] = S.mem[e] /\ T.lock[e] = S.lock[e] /\ T.clients[e] = S.clients[e]
        /\ T.abort[e] = S.abort[e] /\ (e \in T.late <=> e \in S.late) /\ T.sio[e] = S.sio[e]
        /\ T.ok /\ Elsewhere(S, T, e)
    BY <1>0, <1>4 DEF Touches
  <1>6. Shaped(T, e, H) /\ LeakOK(T, e)
    BY <1>0, <1>5 DEF Shaped, FreeOK, MemOK, HoldOK, SwapOK, AbortOK, LeakOK
  <1>7. LogOne(S, T, e) /\ SizeOne(S, T, e)
    BY <1>4, <1>5, QuietLog, QuietSize
  <1>8. Loose(T, X, e, H)
    BY <1>3, <1>5, <1>6, <1>7, Change DEF Fine
  <1>9. Acts(S, T, e, {})
    BY <1>4, <1>5, TouchesActs
  <1>. QED
    BY <1>6, <1>8, <1>9 DEF Fine, T

(* A new file is opened, or the entry is refused one.                        *)
LEMMA BeginSwapOutFine ==
  ASSUME NEW S, NEW X, NEW e \in Entries, NEW H, Fine(S, X, e, H), Safe(S, X, e),
         Out(S, e) # {}, Swapout \notin H, S.swap[e] = "SWAPOUT_NONE",
         "ENTRY_FWD_HDR_WAIT" \notin S.flags[e], NEW o, NEW keep
  PROVE  LET T == BeginSwapOut(S, e, o, keep) IN Fine(T, X, e, H) /\ Acts(S, T, e, {})
  <1> DEFINE fit == o[1] # "unfit"
             C == storeCheckCachable(S, e, fit)
             T == BeginSwapOut(S, e, o, keep)
  <1>0. S \in Store /\ S.ok /\ Loose(S, X, e, H) /\ S.lock[e] # {}
    BY Held DEF Fine, Loose, Good
  <1>1. ~S.sio[e]
    BY <1>0 DEF Loose, Shaped, HoldOK
  <1>2. T = IF ~Cachable(S, e, fit) THEN storeSwapOutMaintainMemObject(C, e, TRUE, keep)
            ELSE IF o[2] \notin Files \ S.map THEN S
            ELSE IF o[1] = "openfail" THEN [S EXCEPT !.map = @ \cup {o[2]}]
            ELSE WriteBlocks(storeSwapOutStart(S, e, o[2]), e, o, keep)
    <2>1. Must(S, ~S.sio[e]) = S
      BY <1>0, <1>1, MustTrue
    <2>. QED
      BY <2>1 DEF BeginSwapOut
  <1> HIDE DEF T, fit
  <1>3. CASE ~Cachable(S, e, fit)
    <2>1. T = storeSwapOutMaintainMemObject(C, e, TRUE, keep)
      BY <1>2, <1>3
    <2>2. Fine(C, X, e, H) /\ Touches(S, C, e, {"key", "log", "flags"}) /\ Acts(S, C, e, {})
      BY <1>0, storeCheckCachableFine
    <2> HIDE DEF C
    <2>3. Safe(C, X, e) /\ Out(C, e) # {}
      BY <2>2, ActsOut DEF Safe, Touches
    <2>4. Fine(T, X, e, H) /\ Acts(C, T, e, {})
      BY <2>1, <2>2, <2>3, storeSwapOutMaintainMemObjectFine
    <2>. QED
      BY <2>2, <2>4, ActsBoth DEF T
  <1>4. CASE T = S
    BY <1>0, <1>4, ActsRefl DEF T
  <1>5. CASE o[2] \in Files /\ T = [S EXCEPT !.map = @ \cup {o[2]}]
    BY <1>5, MapFine DEF T
  <1>6. CASE /\ Cachable(S, e, fit) /\ o[2] \in Files \ S.map
             /\ T = WriteBlocks(storeSwapOutStart(S, e, o[2]), e, o, keep)
    <2> DEFINE W == storeSwapOutStart(S, e, o[2])
    <2>1. "ENTRY_NEGCACHED" \notin S.flags[e]
      BY <1>6 DEF Cachable, Has
    <2>2. Fine(W, X, e, H) /\ Acts(S, W, e, {}) /\ W.status[e] = S.status[e]
      BY <1>0, <1>6, <2>1, storeSwapOutStartFine
    <2>3. T = WriteBlocks(W, e, o, keep)
      BY <1>6
    <2> HIDE DEF W
    <2>4. Safe(W, X, e)
      BY <2>2 DEF Safe
    <2>5. Fine(T, X, e, H) /\ Acts(W, T, e, {})
      BY <2>2, <2>3, <2>4, WriteBlocksFine
    <2>. QED
      BY <2>2, <2>5, ActsBoth DEF T
  <1>. QED
    BY <1>2, <1>3, <1>4, <1>5, <1>6

LEMMA SwapOutBlocksFine ==
  ASSUME NEW S, NEW X, NEW e \in Entries, NEW H, Fine(S, X, e, H), Safe(S, X, e),
         Out(S, e) # {}, Swapout \notin H, NEW o, NEW keep
  PROVE  LET T == SwapOutBlocks(S, e, o, keep) IN Fine(T, X, e, H) /\ Acts(S, T, e, {})
  <1> DEFINE T == SwapOutBlocks(S, e, o, keep)
  <1>0. S \in Store
    BY DEF Fine, Loose, Good
  <1>1. \/ T = S
        \/ T = storeSwapOutFileClose(S, e, TRUE, keep)
        \/ /\ S.swap[e] = "SWAPOUT_NONE" /\ "ENTRY_FWD_HDR_WAIT" \notin S.flags[e]
           /\ T = BeginSwapOut(S, e, o, keep)
        \/ T = WriteBlocks(S, e, o, keep)
    BY DEF SwapOutBlocks, Has
  <1>2. CASE T = S
    BY <1>0, <1>2, ActsRefl
  <1>3. CASE T = storeSwapOutFileClose(S, e, TRUE, keep)
    BY <1>3, storeSwapOutFileCloseFine
  <1>4. CASE /\ S.swap[e] = "SWAPOUT_NONE" /\ "ENTRY_FWD_HDR_WAIT" \notin S.flags[e]
             /\ T = BeginSwapOut(S, e, o, keep)
    BY <1>4, BeginSwapOutFine
  <1>5. CASE T = WriteBlocks(S, e, o, keep)
    BY <1>5, WriteBlocksFine
  <1>. QED
    BY <1>1, <1>2, <1>3, <1>4, <1>5

LEMMA storeSwapOutFine ==
  ASSUME NEW S, NEW X, NEW e \in Entries, NEW H, Fine(S, X, e, H), Safe(S, X, e),
         Out(S, e) # {}, Swapout \notin H, NEW o, NEW keep
  PROVE  LET T == storeSwapOut(S, e, o, keep) IN Fine(T, X, e, H) /\ Acts(S, T, e, {})
  <1> DEFINE T == storeSwapOut(S, e, o, keep)
             fit == o[1] # "big"
  <1>0. S \in Store /\ S.ok /\ Shaped(S, e, H)
    BY DEF Fine, Loose, Good
  <1>1. \/ T = S
        \/ T = storeSwapOutFileClose(S, e, FALSE, keep)
        \/ T = storeSwapOutMaintainMemObject(S, e, fit, keep)
        \/ T = SwapOutBlocks(S, e, o, keep)
    <2>1. Has(S, e, "ENTRY_ABORTED") => Must(S, Has(S, e, "RELEASE_REQUEST")) = S
      BY <1>0, MustTrue DEF Has, Shaped, AbortOK
    <2>2. SwapOutAble(S, e, fit) => storeSwapOutMaintainMemObject(S, e, fit, keep) = S
      BY DEF storeSwapOutMaintainMemObject
    <2>. QED
      BY <2>1, <2>2 DEF storeSwapOut
  <1> HIDE DEF fit
  <1>2. CASE T = S
    BY <1>0, <1>2, ActsRefl
  <1>3. CASE T = storeSwapOutFileClose(S, e, FALSE, keep)
    BY <1>3, storeSwapOutFileCloseFine
  <1>4. CASE T = storeSwapOutMaintainMemObject(S, e, fit, keep)
    BY <1>4, storeSwapOutMaintainMemObjectFine
  <1>5. CASE T = SwapOutBlocks(S, e, o, keep)
    BY <1>5, SwapOutBlocksFine
  <1>. QED
    BY <1>1, <1>2, <1>3, <1>4, <1>5

-----------------------------------------------------------------------------
(* Clients, abort and completion.                                            *)
AbortLock == RoleLock("abort")
ErrorLock == RoleLock("error")
ServerLock == RoleLock("server")

LEMMA RolesForeign ==
  /\ AbortLock \in Foreign /\ ErrorLock \in Foreign /\ ServerLock \in Foreign
  /\ \A c \in Clients : HttpLock(c) \in Foreign
  /\ \A r \in {AbortLock, ErrorLock, ServerLock} : \A c \in Clients : r # HttpLock(c) /\ r # ScLock(c)
  BY HoldersDiffer DEF AbortLock, ErrorLock, ServerLock, Foreign, Roles

(* The locks that leave, without a word about the server side.               *)
Goes(S, T, e, G) == Elsewhere(S, T, e) /\ Out(T, e) = Out(S, e) \ G

LEMMA GoesTrans ==
  ASSUME NEW S, NEW T, NEW U, NEW e, NEW G, NEW K, Goes(S, T, e, G), Goes(T, U, e, K)
  PROVE  Goes(S, U, e, G \cup K)
  <1>1. Elsewhere(S, U, e)
    BY DEF Goes, Elsewhere, SameEntry
  <1>. QED
    BY <1>1 DEF Goes

LEMMA GoesThen ==
  ASSUME NEW S, NEW T, NEW U, NEW e, NEW G, Goes(S, T, e, {}), Goes(T, U, e, G)
  PROVE  Goes(S, U, e, G)
  <1>1. Elsewhere(S, U, e)
    BY DEF Goes, Elsewhere, SameEntry
  <1>. QED
    BY <1>1 DEF Goes

LEMMA ActsGoes ==
  ASSUME NEW S, NEW T, NEW e, NEW G, Acts(S, T, e, G)
  PROVE  Goes(S, T, e, G)
  BY DEF Acts, Goes

LEMMA TouchesGoes ==
  ASSUME NEW S, NEW T, NEW e, NEW D, Touches(S, T, e, D), "lock" \notin D
  PROVE  Goes(S, T, e, {})
  BY DEF Touches, Goes, Out

(* A lock taken for the time of a call.                                      *)
LEMMA Around ==
  ASSUME NEW S, NEW U, NEW T, NEW e, NEW h, NEW G, Elsewhere(S, U, e), h \notin Out(S, e),
         Out(U, e) = Out(S, e) \cup {h}, Goes(U, T, e, G \cup {h})
  PROVE  Goes(S, T, e, G)
  <1>1. Elsewhere(S, T, e)
    BY DEF Goes, Elsewhere, SameEntry
  <1>. QED
    BY <1>1 DEF Goes

LEMMA FateTrans ==
  ASSUME NEW S, NEW U, NEW T, NEW e, Fate(S, U, e), Fate(U, T, e)
  PROVE  Fate(S, T, e)
  BY DEF Fate

(* With the same locks left aside, the same locks make the same clients.     *)
LEMMA SameClients ==
  ASSUME NEW S, NEW T, NEW X, NEW e \in Entries, NEW H, Loose(S, X, e, H), Loose(T, X, e, H),
         Out(T, e) = Out(S, e)
  PROVE  T.clients[e] = S.clients[e]
  <1>1. S.clients[e] \subseteq Clients /\ T.clients[e] \subseteq Clients
    BY DEF Loose, Good, Store
  <1>2. \A c \in Clients : ScLock(c) \in T.lock[e] <=> ScLock(c) \in S.lock[e]
    BY HoldersDiffer DEF Out
  <1>3. \A c \in Clients : c \in T.clients[e] <=> c \in S.clients[e]
    BY <1>2 DEF Loose, Shaped, HoldOK
  <1>. QED
    BY <1>1, <1>3

(* The flag that an aborted entry waits for no header any more.              *)
LEMMA ClrHdrFine ==
  ASSUME NEW S, NEW X, NEW e \in Entries, NEW H, Loose(S, X, e, H), S.key[e] # NoKey
  PROVE  LET T == ClrFlag(S, e, "ENTRY_FWD_HDR_WAIT")
         IN  /\ Loose(T, X, e, H) /\ Touches(S, T, e, {"flags"})
             /\ T.flags[e] = S.flags[e] \ {"ENTRY_FWD_HDR_WAIT"}
             /\ LeakOK(S, e) => LeakOK(T, e)
  <1> DEFINE T == ClrFlag(S, e, "ENTRY_FWD_HDR_WAIT")
  <1>0. /\ S \in Store /\ S.ok /\ Good(S, X) /\ Shaped(S, e, H)
        /\ "ENTRY_FWD_HDR_WAIT" \in Flags
    BY DEF Loose, Good, Flags
  <1>1. /\ Touches(S, T, e, {"flags"})
        /\ T.flags[e] = S.flags[e] \ {"ENTRY_FWD_HDR_WAIT"}
    BY <1>0, FlagTouches
  <1>2. Good(T, X)
    BY <1>0, FlagStep, StepGood
  <1> HIDE DEF T
  <1>3. \A g : g # "ENTRY_FWD_HDR_WAIT" => (g \in T.flags[e] <=> g \in S.flags[e])
    BY <1>1
  <1>4. T.key[e] = S.key[e] /\ T.ok /\ Elsewhere(S, T, e)
    BY <1>0, <1>1 DEF Touches
  <1>5. Shaped(T, e, H)
    <2>1. Touches(S, T, e, {"key", "log", "flags", "size", "ok"})
      BY <1>1, TouchesMore
    <2>2. "ENTRY_ABORTED" \in T.flags[e] => "RELEASE_REQUEST" \in T.flags[e]
      BY <1>0, <1>3 DEF Shaped, AbortOK
    <2>. QED
      BY <1>0, <1>1, <1>3, <1>4, <2>1, <2>2, FlagsShaped
  <1>6. LogOne(S, T, e) /\ SizeOne(S, T, e)
    BY <1>1, <1>3, QuietLog, QuietSize
  <1>7. Loose(T, X, e, H)
    BY <1>2, <1>4, <1>5, <1>6, Change
  <1>8. LeakOK(S, e) => LeakOK(T, e)
    BY <1>1, <1>3 DEF Touches, LeakOK
  <1>. QED
    BY <1>1, <1>7, <1>8 DEF T

(* A pending entry is held and released.                                     *)
LEMMA GiveUpFine ==
  ASSUME NEW S, NEW X, NEW e \in Entries, NEW H, Loose(S, X, e, H), Out(S, e) # {},
         S.status[e] = "STORE_PENDING", AbortLock \notin S.lock[e]
  PROVE  LET T == GiveUp(S, e)
         IN  /\ Fine(T, X, e, H) /\ Touches(S, T, e, {"lock", "key", "log", "flags"})
             /\ T.lock[e] = S.lock[e] \cup {AbortLock} /\ OtherFlags(S, T, e)
             /\ "RELEASE_REQUEST" \in T.flags[e]
  <1> DEFINE L == storeLockObject(S, e, AbortLock)
             T == GiveUp(S, e)
  <1>0. /\ S \in Store /\ S.ok /\ Late \notin S.lock[e] /\ S.mem[e] # "NULL"
    BY Held DEF Loose, Good
  <1>1. T = storeReleaseRequest(L, e)
    <2>1. Must(S, S.status[e] = "STORE_PENDING" /\ S.mem[e] # "NULL") = S
      BY <1>0, MustTrue
    <2>. QED
      BY <2>1 DEF GiveUp, AbortLock
  <1>2. /\ Fine(L, X, e, H) /\ Touches(S, L, e, {"lock"})
        /\ L.lock[e] = S.lock[e] \cup {AbortLock}
    BY <1>0, RolesForeign, LockFine
  <1> HIDE DEF L
  <1>3. Loose(L, X, e, H) /\ L.lock[e] # {} /\ L.key[e] # NoKey
    BY <1>2 DEF Fine, Loose, Shaped, FreeOK
  <1>4. /\ Loose(T, X, e, H) /\ Touches(L, T, e, {"key", "log", "flags"})
        /\ Released(L, T, e) /\ LeakOK(T, e)
    BY <1>1, <1>3, ReleaseRequestLoose
  <1> HIDE DEF T
  <1>5. Touches(S, T, e, {"lock"} \cup {"key", "log", "flags"})
    BY <1>2, <1>4, TouchesTrans
  <1>6. Touches(S, T, e, {"lock", "key", "log", "flags"})
    BY <1>5, TouchesMore
  <1>7. L.flags[e] = S.flags[e] /\ T.lock[e] = L.lock[e]
    BY <1>2, <1>4 DEF Touches
  <1>8. OtherFlags(S, T, e) /\ "RELEASE_REQUEST" \in T.flags[e]
    BY <1>4, <1>7 DEF Released, OtherFlags
  <1>. QED
    BY <1>2, <1>4, <1>6, <1>7, <1>8 DEF Fine, T

Overed(S, T, e, a) == T = [S EXCEPT !.status[e] = "STORE_OK", !.abort[e] = a]
LEMMA OveredTouches ==
  ASSUME NEW S \in Store, NEW e \in Entries, NEW T, NEW a \in {"unset", "set", "queued"}, Overed(S, T, e, a)
  PROVE  /\ Touches(S, T, e, {"status", "abort"})
         /\ T.status[e] = "STORE_OK" /\ T.abort[e] = a
  <1>1. T \in Store
    BY DEF Store, Overed
  <1>2. /\ T.key = S.key /\ T.url = S.url /\ T.lock = S.lock /\ T.flags = S.flags
        /\ T.swap = S.swap /\ T.filen = S.filen /\ T.mem = S.mem /\ T.sio = S.sio
        /\ T.clients = S.clients /\ T.log = S.log /\ T.late = S.late /\ T.size = S.size
        /\ T.rebuild = S.rebuild /\ T.ok = S.ok
    BY DEF Store, Overed
  <1>3. /\ T.status = [S.status EXCEPT ![e] = "STORE_OK"]
        /\ T.abort = [S.abort EXCEPT ![e] = a]
    BY DEF Store, Overed
  <1>4. /\ S.status \in [Entries -> {"STORE_OK", "STORE_PENDING"}]
        /\ S.abort \in [Entries -> {"unset", "set", "queued"}]
    BY DEF Store
  <1>6. /\ T.status[e] = "STORE_OK" /\ T.abort[e] = a
    BY <1>3, <1>4
  <1>7. \A x \in Entries \ {e} :
           /\ T.status[x] = S.status[x] /\ T.abort[x] = S.abort[x]
    BY <1>3, <1>4
  <1>8. Elsewhere(S, T, e)
    BY <1>1, <1>2, <1>7 DEF Elsewhere, SameEntry
  <1>9. Touches(S, T, e, {"status", "abort"})
    BY <1>2, <1>8 DEF Touches
  <1>. QED
    BY <1>6, <1>9


(* The end of a transfer: the entry waits for no header, or was aborted.     *)
LEMMA OverFine ==
  ASSUME NEW S, NEW X, NEW e \in Entries, NEW H, Loose(S, X, e, H), S.lock[e] # {},
         NEW T, Touches(S, T, e, {"status", "abort"}), Good(T, X), T.status[e] = "STORE_OK",
         T.abort[e] # "unset" => S.abort[e] # "unset",
         "ENTRY_FWD_HDR_WAIT" \in S.flags[e] => S.clients[e] = {} /\ "ENTRY_ABORTED" \in S.flags[e]
  PROVE  Fine(T, X, e, H)
  <1>0. S.ok /\ Shaped(S, e, H)
    BY DEF Loose
  <1>1. /\ T.key[e] = S.key[e] /\ T.url[e] = S.url[e] /\ T.flags[e] = S.flags[e]
        /\ T.lock[e] = S.lock[e] /\ T.swap[e] = S.swap[e] /\ T.filen[e] = S.filen[e]
        /\ T.mem[e] = S.mem[e] /\ T.sio[e] = S.sio[e] /\ T.clients[e] = S.clients[e]
        /\ (e \in T.late <=> e \in S.late) /\ T.ok /\ Elsewhere(S, T, e)
    BY <1>0 DEF Touches
  <1>2. FreeOK(T, e) /\ MemOK(T, e)
    BY <1>0, <1>1 DEF Shaped, FreeOK, MemOK
  <1>3. HoldOK(T, e, H)
    BY <1>0, <1>1 DEF Shaped, HoldOK
  <1>4. SwapOK(T, e) /\ AbortOK(T, e)
    BY <1>0, <1>1 DEF Shaped, SwapOK, AbortOK
  <1>5. LogOne(S, T, e) /\ SizeOne(S, T, e)
    BY <1>1, QuietLog, QuietSize
  <1>6. Loose(T, X, e, H)
    BY <1>1, <1>2, <1>3, <1>4, <1>5, Change DEF Shaped
  <1>7. LeakOK(T, e)
    BY <1>1 DEF LeakOK
  <1>. QED
    BY <1>6, <1>7 DEF Fine

(* ENTRY_ABORTED is set on an entry that is released.                        *)
LEMMA SetAbortedFine ==
  ASSUME NEW S, NEW X, NEW e \in Entries, NEW H, Loose(S, X, e, H), S.lock[e] # {},
         "RELEASE_REQUEST" \in S.flags[e]
  PROVE  LET T == SetFlag(S, e, "ENTRY_ABORTED")
         IN  /\ Fine(T, X, e, H) /\ Touches(S, T, e, {"flags"})
             /\ T.flags[e] = S.flags[e] \cup {"ENTRY_ABORTED"}
  <1> DEFINE T == SetFlag(S, e, "ENTRY_ABORTED")
  <1>0. /\ S \in Store /\ S.ok /\ Good(S, X) /\ Shaped(S, e, H) /\ "ENTRY_ABORTED" \in Flags
        /\ S.key[e] # NoKey
    BY DEF Loose, Good, Flags, Shaped, FreeOK
  <1>1. /\ Touches(S, T, e, {"flags"})
        /\ T.flags[e] = S.flags[e] \cup {"ENTRY_ABORTED"}
    BY <1>0, FlagTouches
  <1>2. Good(T, X)
    BY <1>0, FlagStep, StepGood
  <1> HIDE DEF T
  <1>3. \A g : g # "ENTRY_ABORTED" => (g \in T.flags[e] <=> g \in S.flags[e])
    BY <1>1
  <1>4. T.key[e] = S.key[e] /\ T.ok /\ Elsewhere(S, T, e) /\ T.lock[e] = S.lock[e]
    BY <1>0, <1>1 DEF Touches
  <1>5. Shaped(T, e, H)
    <2>1. Touches(S, T, e, {"key", "log", "flags", "size", "ok"})
      BY <1>1, TouchesMore
    <2>. QED
      BY <1>0, <1>1, <1>3, <1>4, <2>1, FlagsShaped
  <1>6. LogOne(S, T, e) /\ SizeOne(S, T, e)
    BY <1>1, <1>3, QuietLog, QuietSize
  <1>7. Loose(T, X, e, H)
    BY <1>2, <1>4, <1>5, <1>6, Change
  <1>8. LeakOK(T, e)
    BY <1>4 DEF LeakOK
  <1>. QED
    BY <1>1, <1>7, <1>8 DEF T, Fine

(* A transfer nobody waits for is given up: the server side hears of it      *)
(* later, and keeps its locks until then.                                    *)
LEMMA storeAbortFine ==
  ASSUME NEW S, NEW X, NEW e \in Entries, NEW H, Loose(S, X, e, H), Out(S, e) # {},
         S.status[e] = "STORE_PENDING", AbortLock \notin S.lock[e], S.clients[e] = {}, NEW keep
  PROVE  LET T == storeAbort(S, e, keep) IN Fine(T, X, e, H) /\ Acts(S, T, e, {})
  <1> DEFINE G == GiveUp(S, e)
             B == SetFlag(G, e, "ENTRY_ABORTED")
             a == IF B.abort[e] = "set" THEN "queued" ELSE B.abort[e]
             U == [B EXCEPT !.status[e] = "STORE_OK", !.abort[e] = a]
             V == storeSwapOutFileClose(U, e, FALSE, keep)
             T == storeAbort(S, e, keep)
  <1>1. /\ Fine(G, X, e, H) /\ Touches(S, G, e, {"lock", "key", "log", "flags"})
        /\ G.lock[e] = S.lock[e] \cup {AbortLock} /\ OtherFlags(S, G, e)
        /\ "RELEASE_REQUEST" \in G.flags[e]
    BY GiveUpFine
  <1>2. T = storeUnlockObject(V, e, AbortLock, keep)
    <2>1. U = [B EXCEPT !.status[e] = "STORE_OK", !.abort[e] = IF @ = "set" THEN "queued" ELSE @]
      OBVIOUS
    <2>. QED
      BY <2>1 DEF storeAbort, AbortLock
  <1> HIDE DEF G
  <1>3. /\ Fine(B, X, e, H) /\ Touches(G, B, e, {"flags"})
        /\ B.flags[e] = G.flags[e] \cup {"ENTRY_ABORTED"}
    BY <1>1, SetAbortedFine DEF Fine
  <1> HIDE DEF B
  <1>4. B \in Store /\ a \in {"unset", "set", "queued"} /\ Overed(B, U, e, a)
    BY <1>3 DEF Touches, Elsewhere, Store, Overed
  <1>5. Touches(B, U, e, {"status", "abort"}) /\ U.status[e] = "STORE_OK" /\ U.abort[e] = a
    BY <1>4, OveredTouches
  <1>6. a # "unset" => B.abort[e] # "unset"
    OBVIOUS
  <1>7. Good(U, X)
    <2> DEFINE W == [B EXCEPT !.abort[e] = a]
    <2>1. Quiet(B, W)
      BY <1>4, AbortQuiet
    <2>2. Good(W, X)
      BY <1>3, <2>1, QuietStep, StepGood DEF Fine, Loose
    <2>3. U = [W EXCEPT !.status[e] = "STORE_OK"]
      BY <1>4 DEF Store
    <2> HIDE DEF W, U
    <2>. QED
      BY <2>2, <2>3, StatusStep, StepGood
  <1> HIDE DEF a, U
  <1>8. Touches(S, U, e, ({"lock", "key", "log", "flags"} \cup {"flags"}) \cup {"status", "abort"})
    <2>1. Touches(S, B, e, {"lock", "key", "log", "flags"} \cup {"flags"})
      BY <1>1, <1>3, TouchesTrans
    <2>. QED
      BY <1>5, <2>1, TouchesTrans
  <1>9. B.clients[e] = {} /\ B.lock[e] = S.lock[e] \cup {AbortLock} /\ B.flags[e] = U.flags[e]
        /\ U.lock[e] = B.lock[e] /\ U.clients[e] = {}
    BY <1>1, <1>3, <1>5 DEF Touches
  <1>10. Fine(U, X, e, H)
    BY <1>3, <1>5, <1>6, <1>7, <1>9, OverFine DEF Fine
  <1>11. /\ Out(U, e) = Out(S, e) \cup {AbortLock} /\ AbortLock \notin Out(S, e)
         /\ Elsewhere(S, U, e)
    BY <1>8, <1>9, HoldersDiffer DEF Out, AbortLock, Touches
  <1>12. Fate(S, U, e)
    BY <1>1, <1>3, <1>5, <1>9 DEF Fate, OtherFlags
  <1>13. Fine(U, X, e, H \cup {AbortLock}) /\ AbortLock \notin H
    <2>1. AbortLock \in U.lock[e] /\ AbortLock \notin H
      BY <1>9 DEF Loose, Shaped, HoldOK
    <2>2. Loose(U, X, e, H \cup {AbortLock})
      BY <1>9, <1>10, <2>1, RolesForeign, HoldMore DEF Fine
    <2>. QED
      BY <1>10, <2>1, <2>2 DEF Fine
  <1>14. Safe(U, X, e)
    BY <1>5 DEF Safe
  <1>15. Fine(V, X, e, H \cup {AbortLock}) /\ Acts(U, V, e, {}) /\ Safe(V, X, e)
    <2>1. Step(U, V, X)
      BY <1>7, <1>14, storeSwapOutFileCloseStep
    <2>. QED
      BY <1>13, <1>14, <2>1, StepSafe, storeSwapOutFileCloseFine
  <1> HIDE DEF V, T
  <1>16. Fine(T, X, e, H) /\ Acts(V, T, e, {AbortLock})
    BY <1>2, <1>13, <1>15, RolesForeign, ForeignDiffer, storeUnlockObjectFine DEF Fine
  <1>17. Acts(U, T, e, {AbortLock})
    BY <1>15, <1>16, ActsThen
  <1>18. Goes(S, T, e, {})
    <2>1. Goes(U, T, e, {} \cup {AbortLock})
      BY <1>17 DEF Acts, Goes
    <2>. QED
      BY <1>11, <2>1, Around
  <1>19. F \in T.lock[e] => Fate(S, T, e)
    BY <1>12, <1>17, FateTrans DEF Acts
  <1>20. Acts(S, T, e, {})
    BY <1>18, <1>19 DEF Goes, Acts
  <1>. QED
    BY <1>16, <1>20 DEF T

LEMMA CheckQuickAbortFine ==
  ASSUME NEW S, NEW X, NEW e \in Entries, NEW H, Fine(S, X, e, H), Out(S, e) # {},
         S.status[e] = "STORE_PENDING" => AbortLock \notin S.lock[e], NEW quick, NEW keep
  PROVE  LET T == CheckQuickAbort(S, e, quick, keep) IN Fine(T, X, e, H) /\ Acts(S, T, e, {})
  <1> DEFINE T == CheckQuickAbort(S, e, quick, keep)
  <1>0. S \in Store /\ Loose(S, X, e, H)
    BY DEF Fine, Loose, Good
  <1>1. CASE S.clients[e] = {} /\ S.status[e] = "STORE_PENDING" /\ quick
    <2>1. T = storeAbort(S, e, keep)
      BY <1>1 DEF CheckQuickAbort
    <2>. QED
      BY <1>0, <1>1, <2>1, storeAbortFine
  <1>2. CASE ~(S.clients[e] = {} /\ S.status[e] = "STORE_PENDING" /\ quick)
    <2>1. T = S
      BY <1>2 DEF CheckQuickAbort
    <2>. QED
      BY <1>0, <2>1, ActsRefl
  <1>. QED
    BY <1>1, <1>2

(* A client goes: its lock is left to be dropped.                            *)
LEMMA DropClientLoose ==
  ASSUME NEW S, NEW X, NEW e \in Entries, NEW H, Fine(S, X, e, H), NEW c \in Clients,
         c \in S.clients[e]
  PROVE  LET R == [S EXCEPT !.clients[e] = @ \ {c}]
         IN  /\ Fine(R, X, e, H \cup {ScLock(c)}) /\ Acts(S, R, e, {}) /\ ScLock(c) \notin H
             /\ R.status[e] = S.status[e] /\ R.lock[e] = S.lock[e] /\ ScLock(c) \in Out(R, e)
  <1> DEFINE C == S.clients[e] \ {c}
             R == [S EXCEPT !.clients[e] = @ \ {c}]
  <1>0. S \in Store /\ S.ok /\ Good(S, X) /\ Shaped(S, e, H)
    BY DEF Fine, Loose, Good
  <1>1. C \in SUBSET Clients
    BY <1>0 DEF Store
  <1>2. R = [S EXCEPT !.clients[e] = C]
    OBVIOUS
  <1>14. \A d \in Clients : d \in C <=> d \in S.clients[e] /\ d # c
    OBVIOUS
  <1> HIDE DEF C, R
  <1>3. Touches(S, R, e, {"clients"}) /\ R.clients[e] = C
    BY <1>0, <1>1, <1>2, PutClients
  <1>4. Good(R, X)
    <2>1. Quiet(S, R)
      BY <1>0, <1>1, <1>2, ClientsQuiet
    <2>. QED
      BY <1>0, <2>1, QuietStep, StepGood
  <1>5. /\ R.key[e] = S.key[e] /\ R.url[e] = S.url[e] /\ R.flags[e] = S.flags[e]
        /\ R.status[e] = S.status[e] /\ R.swap[e] = S.swap[e] /\ R.filen[e] = S.filen[e]
        /\ R.mem[e] = S.mem[e] /\ R.lock[e] = S.lock[e] /\ R.sio[e] = S.sio[e]
        /\ R.abort[e] = S.abort[e] /\ (e \in R.late <=> e \in S.late) /\ R.ok
        /\ Elsewhere(S, R, e)
    BY <1>0, <1>3 DEF Touches
  <1>6. HoldOK(S, e, H) /\ ScLock(c) \in S.lock[e] \ H
    BY <1>0 DEF Shaped, HoldOK
  <1>7. HoldOK(R, e, H \cup {ScLock(c)})
    <2>1. \A x : x # ScLock(c) => (x \in R.lock[e] \ (H \cup {ScLock(c)}) <=> x \in S.lock[e] \ H)
      BY <1>5
    <2>2. \A d \in Clients : /\ d # c => ScLock(d) # ScLock(c)
                             /\ HttpLock(d) # ScLock(c)
      BY HoldersDiffer
    <2>3. \A d \in Clients : ScLock(d) \in R.lock[e] \ (H \cup {ScLock(c)}) <=> d \in R.clients[e]
      <3>1. SUFFICES ASSUME NEW d \in Clients
                     PROVE  ScLock(d) \in R.lock[e] \ (H \cup {ScLock(c)}) <=> d \in R.clients[e]
        OBVIOUS
      <3>2. CASE d = c
        BY <1>3, <1>14, <3>2
      <3>3. CASE d # c
        BY <1>3, <1>6, <1>14, <2>1, <2>2, <3>3 DEF HoldOK
      <3>. QED
        BY <3>2, <3>3
    <2>4. \A d \in Clients : d \in R.clients[e] => HttpLock(d) \in R.lock[e] \ (H \cup {ScLock(c)})
      BY <1>3, <1>6, <1>14, <2>1, <2>2 DEF HoldOK
    <2>5. /\ Swapout # ScLock(c) /\ Late # ScLock(c) /\ F # ScLock(c)
      BY HoldersDiffer, RolesNotF
    <2>6. /\ Swapout \in R.lock[e] \ (H \cup {ScLock(c)}) <=> R.swap[e] = "SWAPOUT_WRITING"
          /\ Late \in R.lock[e] \ (H \cup {ScLock(c)}) <=> e \in R.late
      BY <1>5, <1>6, <2>1, <2>5 DEF HoldOK
    <2>7. /\ R.abort[e] # "unset" => F \in R.lock[e] \ (H \cup {ScLock(c)})
          /\ R.sio[e] => Swapout \in R.lock[e] \ (H \cup {ScLock(c)})
          /\ Late \notin R.lock[e]
      BY <1>5, <1>6, <2>1, <2>5 DEF HoldOK
    <2>8. H \cup {ScLock(c)} \subseteq R.lock[e]
      BY <1>5, <1>6 DEF HoldOK
    <2>. QED
      BY <2>3, <2>4, <2>6, <2>7, <2>8 DEF HoldOK
  <1>8. FreeOK(R, e) /\ MemOK(R, e) /\ SwapOK(R, e)
    BY <1>0, <1>5 DEF Shaped, FreeOK, MemOK, SwapOK
  <1>9. AbortOK(R, e) /\ LeakOK(R, e)
    BY <1>0, <1>3, <1>5 DEF Shaped, AbortOK, LeakOK, Fine, C
  <1>10. LogOne(S, R, e) /\ SizeOne(S, R, e)
    BY <1>3, <1>5, QuietLog, QuietSize
  <1>11. Loose(R, X, e, H \cup {ScLock(c)})
    BY <1>4, <1>5, <1>7, <1>8, <1>9, <1>10, Change DEF Shaped, Fine
  <1>12. Acts(S, R, e, {})
    <2>1. R.clients[e] \subseteq S.clients[e]
      BY <1>3 DEF C
    <2>. QED
      BY <1>3, <1>5, <2>1, TouchesActs
  <1>13. ScLock(c) \in Out(R, e)
    BY <1>5, <1>6, HoldersDiffer DEF Out
  <1>. QED
    BY <1>5, <1>6, <1>9, <1>11, <1>12, <1>13 DEF Fine, R

LEMMA storeClientUnregisterFine ==
  ASSUME NEW S, NEW X, NEW e \in Entries, NEW H, Fine(S, X, e, H), Safe(S, X, e),
         Swapout \notin H, NEW c \in Clients, c \in S.clients[e],
         S.status[e] = "STORE_PENDING" => AbortLock \notin S.lock[e], NEW o, NEW quick, NEW keep
  PROVE  LET T == storeClientUnregister(S, e, c, o, quick, keep)
         IN  Fine(T, X, e, H) /\ Acts(S, T, e, {ScLock(c)})
  <1> DEFINE R == [S EXCEPT !.clients[e] = @ \ {c}]
             W == IF R.status[e] = "STORE_OK" /\ R.swap[e] # "SWAPOUT_DONE"
                    THEN storeSwapOut(R, e, o, keep) ELSE R
             M == storeSwapOutMaintainMemObject(W, e, o[1] # "big", keep)
             Q == CheckQuickAbort(M, e, quick, keep)
             T == storeClientUnregister(S, e, c, o, quick, keep)
             K == H \cup {ScLock(c)}
  <1>1. /\ Fine(R, X, e, K) /\ Acts(S, R, e, {}) /\ ScLock(c) \notin H
        /\ R.status[e] = S.status[e] /\ R.lock[e] = S.lock[e] /\ ScLock(c) \in Out(R, e)
    BY DropClientLoose
  <1>2. T = storeUnlockObject(Q, e, ScLock(c), keep)
    BY DEF storeClientUnregister
  <1> HIDE DEF R, T, K
  <1>3. Safe(R, X, e) /\ Out(R, e) # {} /\ Swapout \notin K
    BY <1>1, HoldersDiffer DEF Safe, K
  <1>4. Good(R, X) /\ R \in Store
    BY <1>1 DEF Fine, Loose, Good
  <1>5. Fine(W, X, e, K) /\ Acts(R, W, e, {}) /\ Step(R, W, X)
    <2>1. CASE W = R
      BY <1>1, <1>4, <2>1, ActsRefl, StepRefl
    <2>2. CASE W = storeSwapOut(R, e, o, keep)
      BY <1>1, <1>3, <1>4, <2>2, storeSwapOutFine, storeSwapOutStep
    <2>. QED
      BY <2>1, <2>2
  <1> HIDE DEF W
  <1>6. Safe(W, X, e) /\ Out(W, e) = Out(R, e) /\ Good(W, X)
    BY <1>3, <1>5, StepSafe, StepGood, ActsOut
  <1>7. Fine(M, X, e, K) /\ Acts(W, M, e, {}) /\ Step(W, M, X)
    BY <1>3, <1>5, <1>6, storeSwapOutMaintainMemObjectFine, storeSwapOutMaintainMemObjectStep
  <1> HIDE DEF M
  <1>8. Safe(M, X, e) /\ Out(M, e) = Out(R, e) /\ Good(M, X)
    BY <1>6, <1>7, StepSafe, StepGood, ActsOut
  <1>9. M.status[e] = "STORE_PENDING" => AbortLock \notin M.lock[e]
    <2>1. M.status[e] = "STORE_PENDING" => S.status[e] = "STORE_PENDING"
      BY <1>1, <1>5, <1>7 DEF Step, Loses
    <2>2. AbortLock \in M.lock[e] => AbortLock \in S.lock[e]
      BY <1>1, <1>8, HoldersDiffer DEF Out, AbortLock
    <2>. QED
      BY <2>1, <2>2
  <1>10. Fine(Q, X, e, K) /\ Acts(M, Q, e, {})
    BY <1>3, <1>7, <1>8, <1>9, CheckQuickAbortFine
  <1>11. Safe(Q, X, e)
    <2>1. Q = M \/ Q = storeAbort(M, e, keep)
      BY DEF CheckQuickAbort
    <2>2. Step(M, Q, X)
      BY <1>8, <2>1, storeAbortStep, StepRefl
    <2>. QED
      BY <1>8, <2>2, StepSafe
  <1> HIDE DEF Q
  <1>12. Fine(T, X, e, H) /\ Acts(Q, T, e, {ScLock(c)})
    BY <1>1, <1>2, <1>10, <1>11, RolesNotF, storeUnlockObjectFine DEF Fine, K
  <1>13. Acts(S, Q, e, {})
    BY <1>1, <1>5, <1>7, <1>10, ActsBoth
  <1>14. Acts(S, T, e, {ScLock(c)})
    BY <1>12, <1>13, ActsThen
  <1>. QED
    BY <1>12, <1>14 DEF T

(* The locks of a client that leaves.                                        *)
Leaving(S, e, c) == IF c \in S.clients[e] THEN {ScLock(c), HttpLock(c)} ELSE {}

LEMMA ClientLeaveFine ==
  ASSUME NEW S, NEW X, NEW e \in Entries, NEW H, Fine(S, X, e, H), Safe(S, X, e),
         Swapout \notin H, NEW c \in Clients, c \in S.clients[e],
         S.status[e] = "STORE_PENDING" => AbortLock \notin S.lock[e], NEW o, NEW quick, NEW keep
  PROVE  LET T == ClientLeave(S, e, c, o, quick, keep)
         IN  Fine(T, X, e, H) /\ Acts(S, T, e, {ScLock(c), HttpLock(c)})
  <1> DEFINE U == storeClientUnregister(S, e, c, o, quick, keep)
             T == ClientLeave(S, e, c, o, quick, keep)
  <1>1. Fine(U, X, e, H) /\ Acts(S, U, e, {ScLock(c)})
    BY storeClientUnregisterFine
  <1>2. T = storeUnlockObject(U, e, HttpLock(c), keep)
    BY DEF ClientLeave
  <1>3. Safe(U, X, e)
    <2>1. Step(S, U, X)
      BY storeClientUnregisterStep DEF Fine, Loose
    <2>. QED
      BY <2>1, StepSafe
  <1> HIDE DEF U, T
  <1>4. HttpLock(c) \in S.lock[e] \ H
    BY DEF Fine, Loose, Shaped, HoldOK
  <1>5. HttpLock(c) \in U.lock[e] /\ ScLock(c) \notin U.lock[e]
    BY <1>1, <1>4, HoldersDiffer DEF Acts, Out
  <1>6. c \notin U.clients[e] /\ U.clients[e] \subseteq Clients
    BY <1>1, <1>5 DEF Fine, Loose, Good, Store, Shaped, HoldOK
  <1>7. \A d \in U.clients[e] : HttpLock(c) # HttpLock(d)
    BY <1>6, HoldersDiffer
  <1>8. Loose(U, X, e, H \cup {HttpLock(c)})
    BY <1>1, <1>5, <1>7, RolesForeign, HoldMore DEF Fine
  <1>9. Fine(T, X, e, H) /\ Acts(U, T, e, {HttpLock(c)})
    BY <1>2, <1>3, <1>4, <1>8, RolesNotF, storeUnlockObjectFine
  <1>10. Acts(S, T, e, {ScLock(c)} \cup {HttpLock(c)})
    BY <1>1, <1>9, ActsTrans
  <1>11. {ScLock(c)} \cup {HttpLock(c)} = {ScLock(c), HttpLock(c)}
    OBVIOUS
  <1>. QED
    BY <1>9, <1>10, <1>11 DEF T

LEMMA InvokeHandlersFine ==
  ASSUME NEW S, NEW X, NEW e \in Entries, NEW H, Fine(S, X, e, H), Safe(S, X, e),
         Swapout \notin H, S.status[e] = "STORE_PENDING" => AbortLock \notin S.lock[e],
         NEW gone, NEW o, NEW quick, NEW keep
  PROVE  LET T == InvokeHandlers(S, e, gone, o, quick, keep)
         IN  Fine(T, X, e, H) /\ Acts(S, T, e, Leaving(S, e, gone))
  <1> DEFINE T == InvokeHandlers(S, e, gone, o, quick, keep)
  <1>0. S \in Store /\ S.clients[e] \subseteq Clients
    BY DEF Fine, Loose, Good, Store
  <1>1. CASE gone \in S.clients[e]
    <2>1. T = ClientLeave(S, e, gone, o, quick, keep)
      BY <1>1 DEF InvokeHandlers
    <2>2. gone \in Clients
      BY <1>0, <1>1
    <2>3. Leaving(S, e, gone) = {ScLock(gone), HttpLock(gone)}
      BY <1>1 DEF Leaving
    <2>. QED
      BY <1>1, <2>1, <2>2, <2>3, ClientLeaveFine
  <1>2. CASE gone \notin S.clients[e]
    <2>1. T = S /\ Leaving(S, e, gone) = {}
      BY <1>2 DEF InvokeHandlers, Leaving
    <2>. QED
      BY <1>0, <2>1, ActsRefl
  <1>. QED
    BY <1>1, <1>2

LEMMA storeCompleteFine ==
  ASSUME NEW S, NEW X, NEW e \in Entries, NEW H, Fine(S, X, e, H), Out(S, e) # {},
         Swapout \notin H, S.status[e] = "STORE_PENDING",
         "ENTRY_FWD_HDR_WAIT" \notin S.flags[e],
         NEW valid, NEW gone, NEW o, NEW quick, NEW keep
  PROVE  LET T == storeComplete(S, e, valid, gone, o, quick, keep)
         IN  /\ Fine(T, X, e, H) /\ Goes(S, T, e, Leaving(S, e, gone))
             /\ T.status[e] = "STORE_OK"
  <1> DEFINE B == [S EXCEPT !.status[e] = "STORE_OK"]
             R == IF valid THEN B ELSE storeReleaseRequest(B, e)
             W == storeSwapOut(R, e, o, keep)
             T == storeComplete(S, e, valid, gone, o, quick, keep)
  <1>0. S \in Store /\ S.ok /\ Good(S, X) /\ Loose(S, X, e, H) /\ S.lock[e] # {}
    BY Held DEF Fine, Loose, Good
  <1>1. T = InvokeHandlers(W, e, gone, o, quick, keep)
    <2>1. S.mem[e] = "NOT_IN_MEMORY"
      BY <1>0 DEF Loose, Shaped, MemOK
    <2>2. Must(S, S.mem[e] = "NOT_IN_MEMORY") = S
      BY <1>0, <2>1, MustTrue
    <2>. QED
      BY <2>2 DEF storeComplete
  <1>2. T.status[e] = "STORE_OK"
    BY <1>0, storeCompleteStep
  <1>3. Touches(S, B, e, {"status"}) /\ B.status[e] = "STORE_OK"
    BY <1>0, PutStatus
  <1>4. Good(B, X)
    BY <1>0, StatusStep, StepGood
  <1> HIDE DEF B, T
  <1>5. Touches(S, B, e, {"status", "abort"}) /\ B.abort[e] = S.abort[e]
    BY <1>3, TouchesMore DEF Touches
  <1>6. Fine(B, X, e, H) /\ Goes(S, B, e, {}) /\ B.lock[e] = S.lock[e]
    BY <1>0, <1>3, <1>4, <1>5, OverFine, TouchesGoes DEF Touches
  <1>7. Fine(R, X, e, H) /\ Goes(B, R, e, {}) /\ R.status[e] = "STORE_OK"
    <2>0. B \in Store /\ B.key[e] # NoKey /\ B.lock[e] # {} /\ Loose(B, X, e, H)
      BY <1>0, <1>6 DEF Fine, Loose, Good, Shaped, FreeOK
    <2>1. CASE R = B
      BY <1>3, <1>6, <2>0, <2>1, ActsRefl, ActsGoes
    <2>2. CASE R = storeReleaseRequest(B, e)
      <3>1. /\ Loose(R, X, e, H) /\ Touches(B, R, e, {"key", "log", "flags"})
            /\ Acts(B, R, e, {}) /\ LeakOK(R, e)
        BY <2>0, <2>2, ReleaseRequestLoose
      <3> HIDE DEF R
      <3>. QED
        BY <1>3, <3>1, ActsGoes DEF Fine, Touches
    <2>. QED
      BY <2>1, <2>2
  <1> HIDE DEF R
  <1>8. Goes(S, R, e, {}) /\ Out(R, e) = Out(S, e) /\ Safe(R, X, e) /\ Good(R, X)
    BY <1>6, <1>7, GoesThen DEF Goes, Safe, Fine, Loose
  <1>9. Fine(W, X, e, H) /\ Acts(R, W, e, {}) /\ W.status[e] = "STORE_OK" /\ Safe(W, X, e)
    <2>1. Step(R, W, X)
      BY <1>8, storeSwapOutStep
    <2>. QED
      BY <1>7, <1>8, <2>1, OverStays, storeSwapOutFine
  <1> HIDE DEF W
  <1>10. Goes(S, W, e, {}) /\ Out(W, e) = Out(S, e)
    BY <1>8, <1>9, ActsGoes, GoesThen DEF Goes
  <1>11. W.clients[e] = S.clients[e]
    BY <1>0, <1>9, <1>10, SameClients DEF Fine
  <1>12. Leaving(W, e, gone) = Leaving(S, e, gone)
    BY <1>11 DEF Leaving
  <1>13. Fine(T, X, e, H) /\ Acts(W, T, e, Leaving(W, e, gone))
    BY <1>1, <1>9, InvokeHandlersFine
  <1>14. Goes(S, T, e, Leaving(S, e, gone))
    BY <1>10, <1>12, <1>13, ActsGoes, GoesThen
  <1>. QED
    BY <1>2, <1>13, <1>14 DEF T

(* An error page takes the place of the reply.                               *)
LEMMA errorAppendEntryFine ==
  ASSUME NEW S, NEW X, NEW e \in Entries, Fine(S, X, e, {}), Out(S, e) # {},
         S.status[e] = "STORE_PENDING", ErrorLock \notin S.lock[e], NEW quick, NEW keep
  PROVE  LET T == errorAppendEntry(S, e, Null, quick, keep)
         IN  Fine(T, X, e, {}) /\ Goes(S, T, e, {}) /\ T.status[e] = "STORE_OK"
  <1> DEFINE L == storeLockObject(S, e, ErrorLock)
             C == ClrFlag(L, e, "ENTRY_FWD_HDR_WAIT")
             R == storeReleaseRequest(C, e)
             W == storeComplete(R, e, TRUE, Null, <<"wait", -1>>, quick, keep)
             T == errorAppendEntry(S, e, Null, quick, keep)
  <1>0. /\ S \in Store /\ S.ok /\ Good(S, X) /\ Loose(S, X, e, {}) /\ S.mem[e] # "NULL"
        /\ Late \notin S.lock[e]
    BY Held DEF Fine, Loose, Good
  <1>1. T = storeUnlockObject(W, e, ErrorLock, keep)
    BY DEF errorAppendEntry, ErrorLock
  <1>2. T.status[e] = "STORE_OK"
    BY <1>0, errorAppendEntryStep
  <1>3. /\ Fine(L, X, e, {}) /\ Touches(S, L, e, {"lock"}) /\ L.lock[e] = S.lock[e] \cup {ErrorLock}
        /\ Out(L, e) = Out(S, e) \cup {ErrorLock}
    <2>1. ErrorLock \in Foreign
      BY RolesForeign
    <2>. QED
      BY <1>0, <2>1, LockFine
  <1> HIDE DEF L, T
  <1>4. L.key[e] # NoKey /\ L.status[e] = "STORE_PENDING" /\ L.lock[e] # {}
    BY <1>3 DEF Fine, Loose, Shaped, FreeOK, Touches
  <1>5. /\ Loose(C, X, e, {}) /\ Touches(L, C, e, {"flags"})
        /\ C.flags[e] = L.flags[e] \ {"ENTRY_FWD_HDR_WAIT"}
    BY <1>3, <1>4, ClrHdrFine DEF Fine
  <1> HIDE DEF C
  <1>6. C.key[e] # NoKey /\ C.status[e] = "STORE_PENDING" /\ C.lock[e] # {}
    BY <1>4, <1>5 DEF Touches
  <1>7. /\ Loose(R, X, e, {}) /\ Touches(C, R, e, {"key", "log", "flags"})
        /\ Released(C, R, e) /\ LeakOK(R, e)
    BY <1>6, ReleaseRequestLoose, <1>5
  <1> HIDE DEF R
  <1>8. /\ Fine(R, X, e, {}) /\ R.status[e] = "STORE_PENDING"
        /\ "ENTRY_FWD_HDR_WAIT" \notin R.flags[e]
    BY <1>5, <1>6, <1>7 DEF Fine, Touches, Released
  <1>9. Goes(L, R, e, {}) /\ Out(R, e) = Out(L, e)
    BY <1>5, <1>7, TouchesGoes, GoesThen DEF Goes
  <1>10. /\ Fine(W, X, e, {}) /\ Goes(R, W, e, Leaving(R, e, Null)) /\ W.status[e] = "STORE_OK"
    <2>1. Out(R, e) # {} /\ Swapout \notin {}
      BY <1>3, <1>9
    <2>2. ASSUME NEW valid, NEW gone, NEW o
          PROVE  LET Z == storeComplete(R, e, valid, gone, o, quick, keep)
                 IN  /\ Fine(Z, X, e, {}) /\ Goes(R, Z, e, Leaving(R, e, gone))
                     /\ Z.status[e] = "STORE_OK"
      BY <1>8, <2>1, storeCompleteFine
    <2>. QED
      BY <2>2, Zenon
  <1> HIDE DEF W
  <1>11. Leaving(R, e, Null) = {}
    BY <1>8, NullAssumption DEF Leaving, Fine, Loose, Good, Store
  <1>12. Goes(L, W, e, {}) /\ ErrorLock \in W.lock[e]
    <2>1. Goes(L, W, e, {})
      BY <1>9, <1>10, <1>11, GoesThen
    <2>. QED
      BY <1>3, <2>1 DEF Goes, Out
  <1>13. Loose(W, X, e, {ErrorLock})
    <2>1. \A c \in W.clients[e] : ErrorLock # HttpLock(c)
      BY <1>10, RolesForeign DEF Fine, Loose, Good, Store
    <2>2. Loose(W, X, e, {} \cup {ErrorLock})
      BY <1>10, <1>12, <2>1, RolesForeign, HoldMore DEF Fine
    <2>. QED
      BY <2>2
  <1>14. Fine(T, X, e, {}) /\ Acts(W, T, e, {ErrorLock})
    <2>1. Safe(W, X, e) /\ ErrorLock # F /\ ErrorLock \notin {}
      BY <1>10, RolesForeign, ForeignDiffer DEF Safe
    <2>2. Loose(W, X, e, {} \cup {ErrorLock})
      BY <1>13
    <2>. QED
      BY <1>1, <2>1, <2>2, storeUnlockObjectFine
  <1>15. Goes(L, T, e, {} \cup {ErrorLock})
    BY <1>12, <1>14, ActsGoes, GoesTrans
  <1>16. Goes(S, T, e, {})
    <2>1. Elsewhere(S, L, e) /\ ErrorLock \notin Out(S, e)
      BY <1>3 DEF Touches, Out
    <2>. QED
      BY <1>3, <1>15, <2>1, Around
  <1>. QED
    BY <1>2, <1>14, <1>16 DEF T

(* What was stored is cut short, or an error page replaces it.               *)
LEMMA CutOrReplaceFine ==
  ASSUME NEW S, NEW X, NEW e \in Entries, Fine(S, X, e, {}), Out(S, e) # {},
         S.status[e] = "STORE_PENDING", ErrorLock \notin S.lock[e],
         "RELEASE_REQUEST" \in S.flags[e], NEW data, NEW quick, NEW keep
  PROVE  LET T == CutOrReplace(S, e, data, quick, keep)
         IN  /\ Fine(T, X, e, {}) /\ Goes(S, T, e, {})
             /\ "ENTRY_FWD_HDR_WAIT" \in T.flags[e] => T.clients[e] = {} /\ "ENTRY_ABORTED" \in T.flags[e]
  <1> DEFINE T == CutOrReplace(S, e, data, quick, keep)
             B == SetFlag(S, e, "ENTRY_ABORTED")
             D == ClrFlag(B, e, "ENTRY_FWD_HDR_WAIT")
  <1>0. S.lock[e] # {} /\ Loose(S, X, e, {})
    BY Held DEF Fine
  <1>1. CASE data
    <2>1. T = D
      BY <1>1 DEF CutOrReplace
    <2>2. Fine(B, X, e, {}) /\ Touches(S, B, e, {"flags"})
      BY <1>0, SetAbortedFine
    <2> HIDE DEF B, T
    <2>3. B.lock[e] # {} /\ Loose(B, X, e, {}) /\ LeakOK(B, e)
      BY <1>0, <2>2 DEF Fine, Touches
    <2>4. B.key[e] # NoKey
      BY <2>3 DEF Loose, Shaped, FreeOK
    <2>5. /\ Loose(D, X, e, {}) /\ Touches(B, D, e, {"flags"}) /\ LeakOK(D, e)
          /\ D.flags[e] = B.flags[e] \ {"ENTRY_FWD_HDR_WAIT"}
      BY <2>3, <2>4, ClrHdrFine
    <2> HIDE DEF D
    <2>6. Goes(S, D, e, {})
      BY <2>2, <2>5, TouchesGoes, GoesThen
    <2>. QED
      BY <2>1, <2>5, <2>6 DEF Fine, T
  <1>2. CASE ~data
    <2>1. T = errorAppendEntry(S, e, Null, quick, keep)
      BY <1>2 DEF CutOrReplace
    <2> HIDE DEF T
    <2>2. Fine(T, X, e, {}) /\ Goes(S, T, e, {}) /\ T.status[e] = "STORE_OK"
      BY <2>1, errorAppendEntryFine
    <2>. QED
      BY <2>2 DEF Fine, Loose, Shaped, AbortOK, T
  <1>. QED
    BY <1>1, <1>2

(* The server side failed: the transfer is over, whatever was stored.        *)
LEMMA storeRequestFailedFine ==
  ASSUME NEW S, NEW X, NEW e \in Entries, Fine(S, X, e, {}), Out(S, e) # {},
         S.status[e] = "STORE_PENDING", AbortLock \notin S.lock[e], ErrorLock \notin S.lock[e],
         NEW data, NEW gone, NEW quick, NEW keep
  PROVE  LET T == storeRequestFailed(S, e, data, gone, quick, keep)
         IN  /\ Fine(T, X, e, {}) /\ Goes(S, T, e, Leaving(S, e, gone))
             /\ T.status[e] = "STORE_OK"
  <1> DEFINE G == GiveUp(S, e)
             C == CutOrReplace(G, e, data, quick, keep)
             O == [C EXCEPT !.status[e] = "STORE_OK"]
             wait == <<"wait", -1>>
             I == InvokeHandlers(O, e, gone, wait, quick, keep)
             V == storeSwapOutFileClose(I, e, FALSE, keep)
             T == storeRequestFailed(S, e, data, gone, quick, keep)
  <1>0. Good(S, X) /\ Loose(S, X, e, {})
    BY DEF Fine, Loose
  <1>1. T = storeUnlockObject(V, e, AbortLock, keep)
    BY DEF storeRequestFailed, AbortLock
  <1>2. T.status[e] = "STORE_OK"
    BY <1>0, storeRequestFailedStep
  <1>3. /\ Fine(G, X, e, {}) /\ Touches(S, G, e, {"lock", "key", "log", "flags"})
        /\ G.lock[e] = S.lock[e] \cup {AbortLock} /\ "RELEASE_REQUEST" \in G.flags[e]
    BY <1>0, GiveUpFine
  <1> HIDE DEF G, T, wait
  <1>4. /\ G.status[e] = "STORE_PENDING" /\ G.clients[e] = S.clients[e] /\ Elsewhere(S, G, e)
        /\ Out(G, e) = Out(S, e) \cup {AbortLock} /\ AbortLock \notin Out(S, e)
        /\ ErrorLock \notin G.lock[e]
    BY <1>3, HoldersDiffer DEF Touches, Out, AbortLock, ErrorLock
  <1>5. /\ Fine(C, X, e, {}) /\ Goes(G, C, e, {})
        /\ "ENTRY_FWD_HDR_WAIT" \in C.flags[e] => C.clients[e] = {} /\ "ENTRY_ABORTED" \in C.flags[e]
    <2>1. Out(G, e) # {}
      BY <1>4
    <2>. QED
      BY <1>3, <1>4, <2>1, CutOrReplaceFine
  <1> HIDE DEF C
  <1>6. /\ C \in Store /\ Good(C, X) /\ Loose(C, X, e, {}) /\ C.lock[e] # {}
    BY <1>4, <1>5 DEF Fine, Loose, Good, Goes, Out
  <1>7. Touches(C, O, e, {"status"}) /\ O.status[e] = "STORE_OK"
    BY <1>6, PutStatus
  <1>8. Good(O, X)
    BY <1>6, StatusStep, StepGood
  <1> HIDE DEF O
  <1>9. Fine(O, X, e, {})
    <2>1. Touches(C, O, e, {"status", "abort"}) /\ O.abort[e] = C.abort[e]
      BY <1>7, TouchesMore DEF Touches
    <2>. QED
      BY <1>5, <1>6, <1>7, <1>8, <2>1, OverFine
  <1>10. Goes(G, O, e, {}) /\ Out(O, e) = Out(G, e)
    BY <1>5, <1>7, TouchesGoes, GoesThen DEF Goes
  <1>11. Leaving(O, e, gone) = Leaving(S, e, gone)
    <2>1. O.clients[e] = G.clients[e]
      BY <1>3, <1>9, <1>10, SameClients DEF Fine
    <2>. QED
      BY <1>4, <2>1 DEF Leaving
  <1>12. Safe(O, X, e)
    BY <1>7 DEF Safe
  <1>13. /\ Fine(I, X, e, {}) /\ Acts(O, I, e, Leaving(S, e, gone)) /\ I.status[e] = "STORE_OK"
         /\ Good(I, X) /\ Safe(I, X, e)
    <2>1. Step(O, I, X)
      BY <1>8, <1>12, InvokeHandlersStep
    <2>2. Fine(I, X, e, {}) /\ Acts(O, I, e, Leaving(O, e, gone))
      <3>1. Swapout \notin {} /\ O.status[e] # "STORE_PENDING"
        BY <1>7
      <3>. QED
        BY <1>9, <1>12, <3>1, InvokeHandlersFine
    <2>. QED
      BY <1>7, <1>11, <2>1, <2>2, OverStays, StepGood
  <1> HIDE DEF I
  <1>14. Fine(V, X, e, {}) /\ Acts(I, V, e, {}) /\ Safe(V, X, e)
    <2>1. Step(I, V, X)
      BY <1>13, storeSwapOutFileCloseStep
    <2>. QED
      BY <1>13, <2>1, StepSafe, storeSwapOutFileCloseFine
  <1> HIDE DEF V
  <1>15. Goes(G, V, e, Leaving(S, e, gone))
    <2>1. Goes(G, I, e, Leaving(S, e, gone))
      BY <1>10, <1>13, ActsGoes, GoesThen
    <2>2. Goes(G, V, e, Leaving(S, e, gone) \cup {})
      BY <1>14, <2>1, ActsGoes, GoesTrans
    <2>3. Leaving(S, e, gone) \cup {} = Leaving(S, e, gone)
      OBVIOUS
    <2>. QED
      BY <2>2, <2>3
  <1>16. AbortLock \in V.lock[e]
    <2>1. AbortLock \notin Leaving(S, e, gone)
      BY <1>0, RolesForeign DEF Leaving, Good, Store
    <2>. QED
      BY <1>4, <1>15, <2>1 DEF Goes, Out
  <1>17. Loose(V, X, e, {} \cup {AbortLock})
    <2>1. \A c \in V.clients[e] : AbortLock # HttpLock(c)
      BY <1>14, RolesForeign DEF Fine, Loose, Good, Store
    <2>. QED
      BY <1>14, <1>16, <2>1, RolesForeign, HoldMore DEF Fine
  <1>18. Fine(T, X, e, {}) /\ Acts(V, T, e, {AbortLock})
    <2>1. AbortLock # F /\ AbortLock \notin {}
      BY RolesForeign, ForeignDiffer
    <2>. QED
      BY <1>1, <1>14, <1>17, <2>1, storeUnlockObjectFine
  <1>19. Goes(G, T, e, Leaving(S, e, gone) \cup {AbortLock})
    BY <1>15, <1>18, ActsGoes, GoesTrans
  <1>20. Goes(S, T, e, Leaving(S, e, gone))
    BY <1>4, <1>19, Around
  <1>. QED
    BY <1>2, <1>18, <1>20 DEF T

-----------------------------------------------------------------------------
(* The server side.                                                          *)

(* storeUnregisterAbort, once the transfer is over.                          *)
LEMMA UnregisterFine ==
  ASSUME NEW S, NEW X, NEW e \in Entries, Fine(S, X, e, {}), S.status[e] = "STORE_OK"
  PROVE  LET T == Unregister(S, e)
         IN  Fine(T, X, e, {}) /\ Touches(S, T, e, {"abort"}) /\ T.abort[e] = "unset"
  <1> DEFINE T == Unregister(S, e)
  <1>0. S \in Store /\ S.ok /\ Good(S, X) /\ Shaped(S, e, {}) /\ LeakOK(S, e)
    BY DEF Fine, Loose, Good
  <1>1. T = [S EXCEPT !.abort[e] = "unset"]
    <2>1. S.clients[e] # {} => ~Has(S, e, "ENTRY_FWD_HDR_WAIT")
      BY <1>0 DEF Shaped, AbortOK, Has
    <2>2. Must(S, S.clients[e] # {} => ~Has(S, e, "ENTRY_FWD_HDR_WAIT")) = S
      BY <1>0, <2>1, MustTrue
    <2>. QED
      BY <2>2 DEF Unregister
  <1> HIDE DEF T
  <1>2. Touches(S, T, e, {"abort"}) /\ T.abort[e] = "unset"
    BY <1>0, <1>1, PutAbort
  <1>3. Good(T, X)
    <2>1. Quiet(S, T)
      BY <1>0, <1>1, AbortQuiet
    <2>. QED
      BY <1>0, <2>1, QuietStep, StepGood
  <1>4. /\ T.key[e] = S.key[e] /\ T.url[e] = S.url[e] /\ T.flags[e] = S.flags[e]
        /\ T.status[e] = S.status[e] /\ T.swap[e] = S.swap[e] /\ T.filen[e] = S.filen[e]
        /\ T.mem[e] = S.mem[e] /\ T.lock[e] = S.lock[e] /\ T.sio[e] = S.sio[e]
        /\ T.clients[e] = S.clients[e] /\ (e \in T.late <=> e \in S.late) /\ T.ok
        /\ Elsewhere(S, T, e)
    BY <1>0, <1>2 DEF Touches
  <1>5. FreeOK(T, e) /\ MemOK(T, e) /\ SwapOK(T, e)
    BY <1>0, <1>4 DEF Shaped, FreeOK, MemOK, SwapOK
  <1>6. HoldOK(T, e, {})
    BY <1>0, <1>2, <1>4 DEF Shaped, HoldOK
  <1>7. AbortOK(T, e) /\ LeakOK(T, e)
    BY <1>0, <1>4 DEF Shaped, AbortOK, LeakOK
  <1>8. LogOne(S, T, e) /\ SizeOne(S, T, e)
    BY <1>2, <1>4, QuietLog, QuietSize
  <1>9. Loose(T, X, e, {})
    BY <1>3, <1>4, <1>5, <1>6, <1>7, <1>8, Change DEF Shaped, Fine
  <1>. QED
    BY <1>2, <1>7, <1>9 DEF Fine, T

(* One more lock is dropped that the store knows nothing of.                 *)
LEMMA UnlockForeign ==
  ASSUME NEW S, NEW X, NEW e \in Entries, Fine(S, X, e, {}), NEW h, h \in S.lock[e],
         \/ h = F /\ S.abort[e] = "unset" /\ S.status[e] = "STORE_OK"
         \/ h \in {AbortLock, ErrorLock, ServerLock},
         Safe(S, X, e), NEW keep
  PROVE  LET T == storeUnlockObject(S, e, h, keep) IN Fine(T, X, e, {}) /\ Acts(S, T, e, {h})
  <1>1. \/ h = F /\ S.abort[e] = "unset" /\ S.status[e] = "STORE_OK"
        \/ h \in Foreign /\ \A c \in S.clients[e] : h # HttpLock(c)
    <2>1. S.clients[e] \subseteq Clients
      BY DEF Fine, Loose, Good, Store
    <2>. QED
      BY <2>1, RolesForeign
  <1>2. Loose(S, X, e, {} \cup {h})
    BY <1>1, HoldMore DEF Fine
  <1>3. h \notin {} /\ (h # F \/ S.status[e] = "STORE_OK")
    BY <1>1, ForeignDiffer
  <1>. QED
    BY <1>2, <1>3, storeUnlockObjectFine

(* The locks of the server side.                                             *)
Freed(server) == {F} \cup (IF server THEN {ServerLock} ELSE {})

LEMMA fwdStateFreeFine ==
  ASSUME NEW S, NEW e \in Entries, Fine(S, {}, e, {}), F \in S.lock[e],
         NEW server, server => ServerLock \in S.lock[e],
         AbortLock \notin S.lock[e], ErrorLock \notin S.lock[e],
         NEW data, NEW gone, NEW quick, NEW keep,
         S.status[e] = "STORE_OK" => gone \notin S.clients[e]
  PROVE  LET T == fwdStateFree(S, e, server, data, gone, quick, keep)
         IN  Fine(T, {}, e, {}) /\ Goes(S, T, e, Leaving(S, e, gone) \cup Freed(server))
  <1> DEFINE B == IF S.status[e] = "STORE_PENDING"
                    THEN storeRequestFailed(S, e, data, gone, quick, keep) ELSE S
             U == Unregister(B, e)
             V == storeUnlockObject(U, e, F, keep)
             T == fwdStateFree(S, e, server, data, gone, quick, keep)
             Lv == Leaving(S, e, gone)
  <1>0. S \in Store /\ S.ok /\ S.mem[e] # "NULL" /\ Out(S, e) # {} /\ Good(S, {})
    <2>1. Out(S, e) # {}
      BY HoldersDiffer DEF Out
    <2>. QED
      BY <2>1, Held DEF Fine, Loose, Good
  <1>1. T = httpStateFree(V, e, server, keep)
    <2>1. Must(S, S.mem[e] # "NULL") = S
      BY <1>0, MustTrue
    <2>. QED
      BY <2>1 DEF fwdStateFree, F
  <1>2. Fine(B, {}, e, {}) /\ Goes(S, B, e, Lv) /\ B.status[e] = "STORE_OK"
    <2>1. CASE S.status[e] = "STORE_PENDING"
      <3>1. B = storeRequestFailed(S, e, data, gone, quick, keep)
        BY <2>1
      <3>. QED
        BY <1>0, <2>1, <3>1, storeRequestFailedFine
    <2>2. CASE S.status[e] = "STORE_OK"
      <3>1. B = S /\ Lv = {}
        BY <2>2 DEF Leaving
      <3>. QED
        BY <1>0, <2>2, <3>1, ActsRefl, ActsGoes
    <2>. QED
      BY <1>0, <2>1, <2>2 DEF Store
  <1> HIDE DEF B, T
  <1>3. Fine(U, {}, e, {}) /\ Touches(B, U, e, {"abort"}) /\ U.abort[e] = "unset"
    BY <1>2, UnregisterFine
  <1> HIDE DEF U
  <1>4. F \notin Lv /\ ServerLock \notin Lv
    BY <1>0, RolesNotF, RolesForeign DEF Leaving, Store
  <1>5. Goes(S, U, e, Lv \cup {}) /\ U.status[e] = "STORE_OK"
    <2>1. Goes(B, U, e, {})
      BY <1>3, TouchesGoes
    <2>2. U.status[e] = B.status[e]
      BY <1>3 DEF Touches
    <2>. QED
      BY <1>2, <2>1, <2>2, GoesTrans
  <1>6. F \in U.lock[e] /\ (server => ServerLock \in U.lock[e])
    <2>1. F \in Out(S, e) /\ (server => ServerLock \in Out(S, e))
      BY HoldersDiffer, RolesForeign, ForeignDiffer DEF Out
    <2>. QED
      BY <1>4, <1>5, <2>1 DEF Goes, Out
  <1>7. Fine(V, {}, e, {}) /\ Acts(U, V, e, {F})
    BY <1>3, <1>5, <1>6, UnlockForeign DEF Safe
  <1> HIDE DEF V
  <1>8. Goes(S, V, e, (Lv \cup {}) \cup {F})
    BY <1>5, <1>7, ActsGoes, GoesTrans
  <1>9. CASE server
    <2>1. T = storeUnlockObject(V, e, ServerLock, keep)
      BY <1>1, <1>9 DEF httpStateFree, ServerLock
    <2>2. ServerLock \in V.lock[e]
      BY <1>6, <1>7, <1>9, RolesForeign, ForeignDiffer DEF Acts, Out
    <2>3. Fine(T, {}, e, {}) /\ Acts(V, T, e, {ServerLock})
      <3>1. Safe(V, {}, e)
        BY DEF Safe
      <3>. QED
        BY <1>7, <2>1, <2>2, <3>1, UnlockForeign
    <2>4. Goes(S, T, e, ((Lv \cup {}) \cup {F}) \cup {ServerLock})
      BY <1>8, <2>3, ActsGoes, GoesTrans
    <2>5. ((Lv \cup {}) \cup {F}) \cup {ServerLock} = Lv \cup Freed(server)
      BY <1>9 DEF Freed
    <2>. QED
      BY <2>3, <2>4, <2>5 DEF T
  <1>10. CASE ~server
    <2>1. T = V
      BY <1>1, <1>10 DEF httpStateFree
    <2>2. (Lv \cup {}) \cup {F} = Lv \cup Freed(server)
      BY <1>10 DEF Freed
    <2>. QED
      BY <1>7, <1>8, <2>1, <2>2 DEF T
  <1>. QED
    BY <1>9, <1>10
-----------------------------------------------------------------------------
(* The whole store, no lock about to be dropped.                             *)
Whole(S, X) ==
    /\ Good(S, X) /\ S.ok /\ LogExact(S) /\ SizeIs(S)
    /\ \A x \in Entries : Entry(S, x, {}) \/ Raw(S, X, x)

LEMMA WholeFine ==
  ASSUME NEW S, NEW X, NEW e \in Entries, Whole(S, X), Entry(S, e, {})
  PROVE  Fine(S, X, e, {})
  BY DEF Whole, Fine, Loose, Entry

LEMMA FineWhole ==
  ASSUME NEW S, NEW X, NEW e \in Entries, Fine(S, X, e, {})
  PROVE  Whole(S, X) /\ Entry(S, e, {})
  <1>1. Entry(S, e, {})
    BY DEF Fine, Loose, Entry
  <1>. QED
    BY <1>1 DEF Whole, Fine, Loose

LEMMA WholeChange ==
  ASSUME NEW S, NEW X, NEW Y, X \subseteq Y, NEW e \in Entries, Whole(S, X),
         NEW T, Elsewhere(S, T, e), Good(T, Y), T.ok, Entry(T, e, {}) \/ Raw(T, Y, e),
         LogOne(S, T, e), SizeOne(S, T, e)
  PROVE  Whole(T, Y)
  <1>1. \A x \in Entries : Entry(T, x, {}) \/ Raw(T, Y, x)
    <2>1. SUFFICES ASSUME NEW x \in Entries \ {e}
                   PROVE  Entry(T, x, {}) \/ Raw(T, Y, x)
      OBVIOUS
    <2>2. SameEntry(S, T, x) /\ (Entry(S, x, {}) \/ Raw(S, X, x))
      BY DEF Whole, Elsewhere
    <2>3. Entry(S, x, {}) => Entry(T, x, {})
      BY <2>2, SameStays
    <2>4. Raw(S, X, x) => Raw(T, Y, x)
      BY <2>2 DEF Raw, SameEntry
    <2>. QED
      BY <2>2, <2>3, <2>4
  <1>2. \A x \in Entries : S.swap[x] = "SWAPOUT_DONE" => S.filen[x] # -1
    BY DEF Whole, Entry, Raw, Shaped, SwapOK
  <1>3. LogExact(T)
    BY <1>2, LogFollows DEF Whole, Good
  <1>4. SizeIs(T)
    BY SizeFollows DEF Whole
  <1>. QED
    BY <1>1, <1>3, <1>4 DEF Whole

(* An entry keeps its references, and its transfer goes on as it would.      *)
Kept(S, T, x) == Out(T, x) = Out(S, x) /\ (F \in T.lock[x] => Fate(S, T, x))
Apart(S, T, e) == T \in Store /\ T.rebuild = S.rebuild /\ \A x \in Entries \ {e} : Kept(S, T, x)

LEMMA SameKept ==
  ASSUME NEW S, NEW T, NEW x, SameEntry(S, T, x)
  PROVE  Kept(S, T, x)
  BY DEF SameEntry, Kept, Out, Fate

LEMMA KeptTrans ==
  ASSUME NEW S, NEW T, NEW U, NEW x, Kept(S, T, x), Kept(T, U, x)
  PROVE  Kept(S, U, x)
  <1>1. F \in U.lock[x] => F \in T.lock[x]
    BY HoldersDiffer DEF Kept, Out
  <1>2. F \in U.lock[x] => Fate(S, U, x)
    BY <1>1, FateTrans DEF Kept
  <1>. QED
    BY <1>2 DEF Kept

LEMMA ElsewhereApart ==
  ASSUME NEW S, NEW T, NEW e, Elsewhere(S, T, e)
  PROVE  Apart(S, T, e)
  BY SameKept DEF Elsewhere, Apart

LEMMA ApartTrans ==
  ASSUME NEW S, NEW T, NEW U, NEW e, Apart(S, T, e), Apart(T, U, e)
  PROVE  Apart(S, U, e)
  BY KeptTrans DEF Apart

LEMMA ActsKept ==
  ASSUME NEW S, NEW T, NEW e, Acts(S, T, e, {}), NEW x \in Entries
  PROVE  Kept(S, T, x)
  <1>1. CASE x = e
    BY <1>1 DEF Acts, Kept
  <1>2. CASE x # e
    BY <1>2, SameKept DEF Acts, Elsewhere
  <1>. QED
    BY <1>1, <1>2

(* The entry under a key goes; the one the key is for stays as it is.        *)
LEMMA KickOutWhole ==
  ASSUME NEW S, NEW X, NEW e \in Entries, X \subseteq {e}, Whole(S, X),
         NEW k \in Keys, S.key[e] # k
  PROVE  LET T == KickOut(S, k)
         IN  /\ Whole(T, X) /\ SameEntry(S, T, e) /\ Apart(S, T, e)
             /\ \A x \in Entries : T.key[x] # k
  <1>1. CASE \E x \in Entries : S.key[x] = k
    <2> DEFINE e2 == CHOOSE x \in Entries : S.key[x] = k
               R == storeSetPrivateKey(S, e2)
               T == storeRelease(R, e2)
    <2>1. e2 \in Entries /\ S.key[e2] = k
      BY <1>1
    <2>2. T = KickOut(S, k)
      BY <1>1 DEF KickOut
    <2> HIDE DEF e2
    <2>3. e2 # e /\ S.key[e2] # NoKey
      BY <2>1, KeysAssumption
    <2>4. Entry(S, e2, {})
      BY <2>1, <2>3 DEF Whole, Raw
    <2>5. Fine(S, X, e2, {})
      BY <2>1, <2>4, WholeFine
    <2>6. Loose(S, X, e2, {}) /\ LeakOK(S, e2)
      BY <2>5 DEF Fine
    <2>7. /\ Loose(R, X, e2, {}) /\ Acts(S, R, e2, {}) /\ R.key[e2] = Private
          /\ LeakOK(R, e2)
      BY <2>1, <2>3, <2>6, SetPrivateLoose
    <2> HIDE DEF R
    <2>8. R.lock[e2] = {} => R.status[e2] = "STORE_OK"
      BY <2>7, KeysAssumption DEF LeakOK
    <2>9. Fine(T, X, e2, {}) /\ Acts(R, T, e2, {})
      BY <2>1, <2>7, <2>8, storeReleaseFine
    <2> HIDE DEF T
    <2>10. Acts(S, T, e2, {})
      BY <2>7, <2>9, ActsBoth
    <2>11. SameEntry(S, T, e)
      BY <2>3, <2>10 DEF Acts, Elsewhere
    <2>12. Apart(S, T, e)
      BY <2>10, ActsKept DEF Apart, Acts, Elsewhere
    <2>13. Whole(T, X)
      BY <2>1, <2>9, FineWhole
    <2>14. \A x \in Entries : T.key[x] # k
      BY <2>2, KickOutStep DEF Whole
    <2>. QED
      BY <2>2, <2>11, <2>12, <2>13, <2>14
  <1>2. CASE ~\E x \in Entries : S.key[x] = k
    <2>1. KickOut(S, k) = S
      BY <1>2 DEF KickOut
    <2>2. SameEntry(S, S, e) /\ Elsewhere(S, S, e)
      BY DEF Whole, Good, SameEntry, Elsewhere
    <2>3. Apart(S, S, e)
      BY <2>2, ElsewhereApart
    <2>. QED
      BY <1>2, <2>1, <2>2, <2>3
  <1>. QED
    BY <1>1, <1>2

(* Of e itself only the key changes, and the mark of an early public one.    *)
Rekeyed(S, T, e) ==
    /\ T.url[e] = S.url[e] /\ T.lock[e] = S.lock[e] /\ T.status[e] = S.status[e]
    /\ T.swap[e] = S.swap[e] /\ T.filen[e] = S.filen[e] /\ T.mem[e] = S.mem[e]
    /\ T.sio[e] = S.sio[e] /\ T.clients[e] = S.clients[e] /\ T.abort[e] = S.abort[e]
    /\ e \in T.late <=> e \in S.late
    /\ T.flags[e] \in {S.flags[e], S.flags[e] \ {"KEY_EARLY_PUBLIC"}}

LEMMA RekeyedFlags ==
  ASSUME NEW S, NEW T, NEW e, Rekeyed(S, T, e)
  PROVE  /\ T.flags[e] \subseteq S.flags[e]
         /\ \A f : f # "KEY_EARLY_PUBLIC" => (f \in T.flags[e] <=> f \in S.flags[e])
  BY DEF Rekeyed

LEMMA RekeyedTrans ==
  ASSUME NEW S, NEW T, NEW U, NEW e, Rekeyed(S, T, e), Rekeyed(T, U, e)
  PROVE  Rekeyed(S, U, e)
  <1>1. U.flags[e] \in {S.flags[e], S.flags[e] \ {"KEY_EARLY_PUBLIC"}}
    BY DEF Rekeyed
  <1>. QED
    BY <1>1 DEF Rekeyed

LEMMA RekeyedEntry ==
  ASSUME NEW S, NEW T, NEW e \in Entries, Rekeyed(S, T, e), Entry(S, e, {}),
         S.key[e] # NoKey, T.key[e] # NoKey
  PROVE  Entry(T, e, {})
  <1>1. \A f : f # "KEY_EARLY_PUBLIC" => (f \in T.flags[e] <=> f \in S.flags[e])
    BY RekeyedFlags
  <1>2. /\ T.url[e] = S.url[e] /\ T.lock[e] = S.lock[e] /\ T.status[e] = S.status[e]
        /\ T.swap[e] = S.swap[e] /\ T.filen[e] = S.filen[e] /\ T.mem[e] = S.mem[e]
        /\ T.sio[e] = S.sio[e] /\ T.clients[e] = S.clients[e] /\ T.abort[e] = S.abort[e]
        /\ e \in T.late <=> e \in S.late
    BY DEF Rekeyed
  <1>3. FreeOK(T, e) /\ MemOK(T, e)
    BY <1>2 DEF Entry, Shaped, FreeOK, MemOK
  <1>4. HoldOK(T, e, {})
    BY <1>1, <1>2 DEF Entry, Shaped, HoldOK
  <1>5. SwapOK(T, e) /\ AbortOK(T, e)
    BY <1>1, <1>2 DEF Entry, Shaped, SwapOK, AbortOK
  <1>6. LeakOK(T, e)
    BY <1>1, <1>2 DEF Entry, LeakOK
  <1>. QED
    BY <1>3, <1>4, <1>5, <1>6 DEF Entry, Shaped

(* A free key is given to an entry that has no file yet.                     *)
LEMMA GiveKeyWhole ==
  ASSUME NEW S, NEW X, NEW e \in Entries, Whole(S, X), S.filen[e] = -1,
         "RELEASE_REQUEST" \notin S.flags[e], S.swap[e] = "SWAPOUT_NONE",
         NEW k \in Keys, \A x \in Entries : S.key[x] # k,
         Raw(S, X, e) \/ (Entry(S, e, {}) /\ S.key[e] # NoKey)
  PROVE  LET T == [S EXCEPT !.key[e] = k]
         IN  /\ Whole(T, X) /\ Rekeyed(S, T, e) /\ Apart(S, T, e)
             /\ T.key[e] = k /\ T.filen[e] = -1
  <1> DEFINE T == [S EXCEPT !.key[e] = k]
  <1>1. S \in Store /\ Good(S, X) /\ S.ok
    BY DEF Whole, Good
  <1>2. Touches(S, T, e, {"key"}) /\ T.key[e] = k
    BY <1>1, PutKey
  <1>3. Advance(S, T, X)
    BY <1>1, GiveKey
  <1>4. Good(T, X)
    BY <1>3, AdvanceGood
  <1> HIDE DEF T
  <1>5. /\ T.url[e] = S.url[e] /\ T.lock[e] = S.lock[e] /\ T.status[e] = S.status[e]
        /\ T.swap[e] = S.swap[e] /\ T.filen[e] = S.filen[e] /\ T.mem[e] = S.mem[e]
        /\ T.sio[e] = S.sio[e] /\ T.clients[e] = S.clients[e] /\ T.abort[e] = S.abort[e]
        /\ e \in T.late <=> e \in S.late
        /\ T.flags[e] = S.flags[e] /\ T.log = S.log /\ T.size = S.size /\ T.ok = S.ok
        /\ Elsewhere(S, T, e)
    BY <1>2 DEF Touches
  <1>6. Rekeyed(S, T, e)
    BY <1>5 DEF Rekeyed
  <1>7. LogOne(S, T, e) /\ SizeOne(S, T, e)
    BY <1>5 DEF LogOne, Logged, SizeOne, Stored
  <1>8. T.key[e] # NoKey
    BY <1>2, KeysAssumption
  <1>9. Entry(T, e, {}) \/ Raw(T, X, e)
    BY <1>5, <1>6, <1>8, RekeyedEntry DEF Raw
  <1>10. Whole(T, X)
    BY <1>1, <1>4, <1>5, <1>7, <1>9, WholeChange
  <1>11. Apart(S, T, e)
    BY <1>5, ElsewhereApart
  <1>. QED
    BY <1>2, <1>5, <1>6, <1>10, <1>11 DEF T

LEMMA SameRekeyed ==
  ASSUME NEW S, NEW T, NEW e, SameEntry(S, T, e)
  PROVE  Rekeyed(S, T, e) /\ T.key[e] = S.key[e]
  BY DEF SameEntry, Rekeyed

(* The early public key is given up before the key is taken for good.        *)
LEMMA UnearlyWhole ==
  ASSUME NEW S, NEW X, NEW e \in Entries, Fine(S, X, e, {}), S.key[e] \in Keys
  PROVE  LET T == storeSetPrivateKey(ClrFlag(S, e, "KEY_EARLY_PUBLIC"), e)
         IN  /\ Fine(T, X, e, {}) /\ Rekeyed(S, T, e) /\ T.key[e] = Private /\ Elsewhere(S, T, e)
  <1> DEFINE C == ClrFlag(S, e, "KEY_EARLY_PUBLIC")
             T == storeSetPrivateKey(C, e)
  <1>1. S \in Store /\ Good(S, X) /\ Loose(S, X, e, {}) /\ LeakOK(S, e) /\ S.key[e] # NoKey
    BY KeysAssumption DEF Fine, Loose, Good
  <1>2. "KEY_EARLY_PUBLIC" \in Flags
    BY DEF Flags
  <1>3. Good(C, X)
    BY <1>1, <1>2, FlagStep, StepGood
  <1>4. Touches(S, C, e, {"flags"}) /\ C.flags[e] = S.flags[e] \ {"KEY_EARLY_PUBLIC"}
    BY <1>1, <1>2, FlagTouches
  <1>5. Loose(C, X, e, {}) /\ LeakOK(C, e)
    BY <1>1, <1>3, FlagFine
  <1> HIDE DEF C
  <1>6. /\ C.url[e] = S.url[e] /\ C.lock[e] = S.lock[e] /\ C.status[e] = S.status[e]
        /\ C.swap[e] = S.swap[e] /\ C.filen[e] = S.filen[e] /\ C.mem[e] = S.mem[e]
        /\ C.sio[e] = S.sio[e] /\ C.clients[e] = S.clients[e] /\ C.abort[e] = S.abort[e]
        /\ e \in C.late <=> e \in S.late
        /\ C.key[e] = S.key[e] /\ Elsewhere(S, C, e)
    BY <1>4 DEF Touches
  <1>7. /\ Loose(T, X, e, {}) /\ Touches(C, T, e, {"key", "log"}) /\ T.key[e] = Private
        /\ LeakOK(T, e)
    BY <1>1, <1>5, <1>6, SetPrivateLoose
  <1> HIDE DEF T
  <1>8. Touches(S, T, e, {"flags"} \cup {"key", "log"})
    BY <1>4, <1>7, TouchesTrans
  <1>9. T.flags[e] = S.flags[e] \ {"KEY_EARLY_PUBLIC"}
    BY <1>4, <1>7 DEF Touches
  <1>10. Rekeyed(S, T, e) /\ Elsewhere(S, T, e)
    BY <1>8, <1>9 DEF Touches, Rekeyed
  <1>. QED
    BY <1>7, <1>10 DEF T, C, Fine

LEMMA storeSetPublicKeyWhole ==
  ASSUME NEW S, NEW X, NEW e \in Entries, X \subseteq {e}, Whole(S, X),
         S.filen[e] = -1, S.swap[e] = "SWAPOUT_NONE", S.mem[e] # "NULL", S.url[e] \in Keys,
         "RELEASE_REQUEST" \notin S.flags[e],
         \/ Raw(S, X, e) /\ S.key[e] = NoKey
         \/ Entry(S, e, {}) /\ S.key[e] # NoKey
  PROVE  LET T == storeSetPublicKey(S, e)
         IN  Whole(T, X) /\ Rekeyed(S, T, e) /\ Apart(S, T, e) /\ T.key[e] \in Keys
  <1> DEFINE early == Public(S, e) /\ Has(S, e, "KEY_EARLY_PUBLIC")
             P == storeSetPrivateKey(ClrFlag(S, e, "KEY_EARLY_PUBLIC"), e)
             R == IF early THEN P ELSE S
             A == MayBePublic(R, e)
             k == S.url[e]
             O == KickOut(A, k)
             K == [O EXCEPT !.key[e] = k]
             T == LogNewKey(K, e)
  <1>1. S \in Store /\ Good(S, X) /\ S.ok
    BY DEF Whole, Good
  <1>2. Rekeyed(S, S, e) /\ Elsewhere(S, S, e)
    BY <1>1 DEF Rekeyed, Elsewhere, SameEntry
  <1>3. Apart(S, S, e)
    BY <1>2, ElsewhereApart
  <1>4. CASE Public(S, e) /\ ~early
    <2>1. storeSetPublicKey(S, e) = S
      BY <1>4 DEF storeSetPublicKey
    <2>. QED
      BY <1>2, <1>3, <1>4, <2>1 DEF Public
  <1>5. CASE ~(Public(S, e) /\ ~early)
    <2>1. storeSetPublicKey(S, e) = T
      BY <1>5 DEF storeSetPublicKey
    <2> HIDE DEF k, P
    <2>2. /\ Whole(R, X) /\ Rekeyed(S, R, e) /\ Elsewhere(S, R, e) /\ R.key[e] \notin Keys
          /\ Raw(R, X, e) \/ (Entry(R, e, {}) /\ R.key[e] # NoKey)
      <3>1. CASE early
        <4>1. S.key[e] \in Keys /\ S.key[e] # NoKey /\ Entry(S, e, {})
          BY <3>1, KeysAssumption DEF Public
        <4>2. Fine(S, X, e, {})
          BY <4>1, WholeFine
        <4>3. /\ Fine(P, X, e, {}) /\ Rekeyed(S, P, e) /\ P.key[e] = Private
              /\ Elsewhere(S, P, e)
          BY <4>1, <4>2, UnearlyWhole DEF P
        <4>4. Whole(P, X) /\ Entry(P, e, {})
          BY <4>3, FineWhole
        <4>. QED
          BY <3>1, <4>3, <4>4, KeysAssumption
      <3>2. CASE ~early
        BY <1>2, <1>5, <3>2 DEF Public
      <3>. QED
        BY <3>1, <3>2
    <2> HIDE DEF R
    <2>3. /\ R.mem[e] # "NULL" /\ "RELEASE_REQUEST" \notin R.flags[e]
          /\ R.filen[e] = -1 /\ R.swap[e] = "SWAPOUT_NONE"
      BY <2>2, RekeyedFlags DEF Rekeyed
    <2>4. A = R
      BY <2>2, <2>3, MustTrue DEF MayBePublic, Has, Whole, Good
    <2>5. k \in Keys /\ A.key[e] # k
      BY <2>2, <2>4 DEF k
    <2>6. /\ Whole(O, X) /\ SameEntry(R, O, e) /\ Apart(R, O, e)
          /\ \A x \in Entries : O.key[x] # k
      <3> HIDE DEF A
      <3>. QED
        BY <2>2, <2>4, <2>5, KickOutWhole
    <2> HIDE DEF O
    <2>7. Rekeyed(R, O, e) /\ O.key[e] = R.key[e]
      BY <2>6, SameRekeyed
    <2>8. /\ O.filen[e] = -1 /\ O.swap[e] = "SWAPOUT_NONE" /\ "RELEASE_REQUEST" \notin O.flags[e]
          /\ Raw(R, X, e) => Raw(O, X, e)
      BY <2>3, <2>6 DEF SameEntry, Raw
    <2>9. Entry(R, e, {}) => Entry(O, e, {})
      BY <2>6, SameStays
    <2>10. /\ Whole(K, X) /\ Rekeyed(O, K, e) /\ Apart(O, K, e) /\ K.key[e] = k /\ K.filen[e] = -1
      <3>1. Raw(O, X, e) \/ (Entry(O, e, {}) /\ O.key[e] # NoKey)
        BY <2>2, <2>7, <2>8, <2>9
      <3>. QED
        BY <2>5, <2>6, <2>8, <3>1, GiveKeyWhole
    <2> HIDE DEF K
    <2>11. T = K
      BY <2>10 DEF LogNewKey
    <2>12. Rekeyed(S, O, e)
      BY <2>2, <2>7, RekeyedTrans
    <2>13. Rekeyed(S, K, e)
      BY <2>10, <2>12, RekeyedTrans
    <2>14. Apart(S, R, e)
      BY <2>2, ElsewhereApart
    <2>15. Apart(S, O, e)
      BY <2>6, <2>14, ApartTrans
    <2>16. Apart(S, K, e)
      BY <2>10, <2>15, ApartTrans
    <2>. QED
      BY <2>1, <2>5, <2>10, <2>11, <2>13, <2>16
  <1>. QED
    BY <1>4, <1>5

(* A structure from the pool                                                 *)
Fresh(S, T, e, k, g, l) ==
    T = [S EXCEPT !.flags[e] = g, !.status[e] = "STORE_OK", !.swap[e] = "SWAPOUT_NONE",
                  !.filen[e] = -1, !.mem[e] = "NOT_IN_MEMORY", !.url[e] = k, !.lock[e] = l]
NewFields == {"flags", "status", "swap", "filen", "mem", "url", "lock"}

IsNew(T, e, k, g, l) ==
    /\ T.flags[e] = g /\ T.status[e] = "STORE_OK" /\ T.swap[e] = "SWAPOUT_NONE"
    /\ T.filen[e] = -1 /\ T.mem[e] = "NOT_IN_MEMORY" /\ T.url[e] = k /\ T.lock[e] = l

LEMMA FreshTouches ==
  ASSUME NEW S \in Store, NEW e \in Entries, NEW T, NEW k, k \in Keys,
         NEW g, g \subseteq Flags, NEW l, l \subseteq Holders, Fresh(S, T, e, k, g, l)
  PROVE  Touches(S, T, e, NewFields) /\ IsNew(T, e, k, g, l)
  <1>1. T \in Store
    BY DEF Store, Fresh
  <1>2. /\ T.key = S.key /\ T.sio = S.sio /\ T.clients = S.clients /\ T.abort = S.abort
        /\ T.log = S.log /\ T.late = S.late /\ T.size = S.size /\ T.rebuild = S.rebuild
        /\ T.ok = S.ok
    BY DEF Store, Fresh
  <1>3. /\ T.flags = [S.flags EXCEPT ![e] = g]
        /\ T.status = [S.status EXCEPT ![e] = "STORE_OK"]
        /\ T.swap = [S.swap EXCEPT ![e] = "SWAPOUT_NONE"]
        /\ T.filen = [S.filen EXCEPT ![e] = -1]
        /\ T.mem = [S.mem EXCEPT ![e] = "NOT_IN_MEMORY"] /\ T.url = [S.url EXCEPT ![e] = k]
        /\ T.lock = [S.lock EXCEPT ![e] = l]
    BY DEF Store, Fresh
  <1>4. /\ S.flags \in [Entries -> SUBSET Flags]
        /\ S.status \in [Entries -> {"STORE_OK", "STORE_PENDING"}]
        /\ S.swap \in [Entries -> {"SWAPOUT_NONE", "SWAPOUT_WRITING", "SWAPOUT_DONE"}]
        /\ S.filen \in [Entries -> Files \cup {-1}]
        /\ S.mem \in [Entries -> {"NULL", "NOT_IN_MEMORY", "IN_MEMORY"}]
        /\ S.url \in [Entries -> Keys \cup {NoKey}]
        /\ S.lock \in [Entries -> SUBSET Holders]
    BY DEF Store
  <1>6. /\ T.flags[e] = g /\ T.status[e] = "STORE_OK" /\ T.swap[e] = "SWAPOUT_NONE"
        /\ T.filen[e] = -1 /\ T.mem[e] = "NOT_IN_MEMORY" /\ T.url[e] = k /\ T.lock[e] = l
    BY <1>3, <1>4
  <1>7. \A x \in Entries \ {e} :
           /\ T.flags[x] = S.flags[x] /\ T.status[x] = S.status[x] /\ T.swap[x] = S.swap[x]
           /\ T.filen[x] = S.filen[x] /\ T.mem[x] = S.mem[x] /\ T.url[x] = S.url[x]
           /\ T.lock[x] = S.lock[x]
    BY <1>3, <1>4
  <1>8. Elsewhere(S, T, e)
    BY <1>1, <1>2, <1>7 DEF Elsewhere, SameEntry
  <1>9. Touches(S, T, e, NewFields)
    BY <1>2, <1>8 DEF Touches, NewFields
  <1>. QED
    BY <1>6, <1>9 DEF IsNew

LEMMA GoodMore ==
  ASSUME NEW S, NEW X, NEW Y, X \subseteq Y, Good(S, X)
  PROVE  Good(S, Y)
  BY DEF Good, EntryOK

(* What is empty in a new entry: all but the key and the status.             *)
Blank(T, e, k, c) ==
    /\ T.url[e] = k /\ T.lock[e] = {HttpLock(c)} /\ T.flags[e] = {} /\ T.swap[e] = "SWAPOUT_NONE"
    /\ T.filen[e] = -1 /\ T.mem[e] = "NOT_IN_MEMORY" /\ ~T.sio[e]
    /\ T.clients[e] = {} /\ T.abort[e] = "unset" /\ e \notin T.late

LEMMA new_StoreEntryWhole ==
  ASSUME NEW S, Whole(S, {}), NEW e \in Entries, S.key[e] = NoKey, NEW k \in Keys, NEW c \in Clients
  PROVE  LET T == new_StoreEntry(S, e, k, c)
         IN  /\ Whole(T, {e}) /\ Raw(T, {e}, e) /\ Elsewhere(S, T, e)
             /\ T.key[e] = NoKey /\ Blank(T, e, k, c)
  <1> DEFINE T == new_StoreEntry(S, e, k, c)
             h == HttpLock(c)
  <1>1. S \in Store /\ Good(S, {}) /\ S.ok /\ Entry(S, e, {})
    BY DEF Whole, Good, Raw
  <1>2. /\ S.lock[e] = {} /\ S.clients[e] = {} /\ S.abort[e] = "unset" /\ ~S.sio[e] /\ e \notin S.late
        /\ S.swap[e] = "SWAPOUT_NONE"
    <2>1. S.lock[e] = {} /\ S.filen[e] = -1
      BY <1>1 DEF Entry, Shaped, FreeOK
    <2>2. Shaped(S, e, {})
      BY <1>1 DEF Entry
    <2>. QED
      BY <1>1, <2>1, <2>2, Unheld DEF Shaped, SwapOK
  <1>3. {h} \subseteq Holders /\ {} \subseteq Flags
    BY DEF Holders
  <1>4. Fresh(S, T, e, k, {}, {h})
    BY DEF Fresh, new_StoreEntry
  <1>5. Good(T, {e})
    BY <1>1, new_StoreEntryGood, GoodMore
  <1> HIDE DEF T, h
  <1>6. /\ Touches(S, T, e, NewFields)
        /\ T.flags[e] = {} /\ T.status[e] = "STORE_OK" /\ T.swap[e] = "SWAPOUT_NONE"
        /\ T.filen[e] = -1 /\ T.mem[e] = "NOT_IN_MEMORY" /\ T.url[e] = k /\ T.lock[e] = {h}
    <2>1. ASSUME NEW g, g \subseteq Flags, NEW l, l \subseteq Holders, Fresh(S, T, e, k, g, l)
          PROVE  Touches(S, T, e, NewFields) /\ IsNew(T, e, k, g, l)
      BY <1>1, <2>1, FreshTouches, Zenon
    <2>2. Touches(S, T, e, NewFields) /\ IsNew(T, e, k, {}, {h})
      BY <1>3, <1>4, <2>1, Zenon
    <2>. QED
      BY <2>2 DEF IsNew
  <1>7. /\ T.key[e] = S.key[e] /\ T.sio[e] = S.sio[e] /\ T.clients[e] = S.clients[e]
        /\ T.abort[e] = S.abort[e] /\ (e \in T.late <=> e \in S.late) /\ T.log = S.log
        /\ T.size = S.size /\ T.ok = S.ok /\ Elsewhere(S, T, e)
    BY <1>6 DEF Touches, NewFields
  <1>8. LogOne(S, T, e) /\ SizeOne(S, T, e)
    BY <1>2, <1>6, <1>7 DEF LogOne, Logged, SizeOne, Stored
  <1>9. Raw(T, {e}, e)
    BY <1>6 DEF Raw
  <1>10. Whole(T, {e})
    BY <1>1, <1>5, <1>7, <1>8, <1>9, WholeChange
  <1>. QED
    BY <1>2, <1>6, <1>7, <1>9, <1>10 DEF T, h, Blank

(* An entry just made, with the one lock of its creator.                     *)
Made(T, e, k, c) ==
    /\ T.key[e] # NoKey /\ T.url[e] = k /\ T.status[e] = "STORE_PENDING"
    /\ T.swap[e] = "SWAPOUT_NONE" /\ T.filen[e] = -1 /\ T.mem[e] = "NOT_IN_MEMORY"
    /\ ~T.sio[e] /\ T.abort[e] = "unset" /\ e \notin T.late
    /\ "ENTRY_VALIDATED" \in T.flags[e]
    /\ {"ENTRY_ABORTED", "ENTRY_FWD_HDR_WAIT"} \cap T.flags[e] = {}

Alone(T, e, c) == T.lock[e] = {HttpLock(c)} /\ T.clients[e] = {}

LEMMA MadeEntry ==
  ASSUME NEW T, NEW e \in Entries, NEW k \in Keys, NEW c \in Clients, Made(T, e, k, c),
         T.lock[e] = {HttpLock(c)}, T.clients[e] = {}
  PROVE  Entry(T, e, {})
  <1>1. FreeOK(T, e) /\ MemOK(T, e)
    BY HoldersDiffer DEF Made, FreeOK, MemOK
  <1>2. HoldOK(T, e, {})
    <2>1. \A d \in Clients : ScLock(d) # HttpLock(c)
      BY HoldersDiffer
    <2>2. Swapout # HttpLock(c) /\ Late # HttpLock(c)
      BY HoldersDiffer
    <2>. QED
      BY <2>1, <2>2 DEF Made, HoldOK
  <1>3. SwapOK(T, e) /\ AbortOK(T, e) /\ LeakOK(T, e)
    BY DEF Made, SwapOK, AbortOK, LeakOK
  <1>. QED
    BY <1>1, <1>2, <1>3 DEF Entry, Shaped

(* The key an entry starts with, public or private.                          *)
LEMMA FirstKeyWhole ==
  ASSUME NEW S, Whole(S, {}), NEW e \in Entries, S.key[e] = NoKey, NEW k \in Keys, NEW c \in Clients,
         NEW N, N = new_StoreEntry(S, e, k, c),
         NEW T, T = storeSetPublicKey(N, e) \/ T = storeSetPrivateKey(N, e)
  PROVE  /\ Whole(T, {e}) /\ Apart(S, T, e)
         /\ T.key[e] \in Keys \cup {Private} /\ Blank(T, e, k, c)
  <1>1. /\ Whole(N, {e}) /\ Raw(N, {e}, e) /\ Elsewhere(S, N, e)
        /\ N.key[e] = NoKey /\ Blank(N, e, k, c)
    BY new_StoreEntryWhole
  <1>2. T = storeSetPublicKey(N, e) \/ T = storeSetPrivateKey(N, e)
    OBVIOUS
  <1>3. N.swap[e] = "SWAPOUT_NONE" /\ N \in Store /\ N.ok /\ Good(N, {e})
    BY <1>1 DEF Raw, Whole, Good
  <1>31. N.url[e] \in Keys /\ N.filen[e] = -1 /\ N.mem[e] # "NULL" /\ N.flags[e] = {}
    BY <1>1 DEF Blank
  <1>4. Apart(S, N, e)
    BY <1>1, ElsewhereApart
  <1>5. CASE T = storeSetPublicKey(N, e)
    <2>1. Whole(T, {e}) /\ Rekeyed(N, T, e) /\ Apart(N, T, e) /\ T.key[e] \in Keys
      BY <1>1, <1>3, <1>31, <1>5, storeSetPublicKeyWhole
    <2>2. Apart(S, T, e)
      BY <1>4, <2>1, ApartTrans
    <2>. QED
      BY <1>1, <2>1, <2>2 DEF Rekeyed, Blank
  <1>6. CASE T = storeSetPrivateKey(N, e)
    <2>1. /\ Touches(N, T, e, {"key", "log"}) /\ T.key[e] = Private /\ T.log = N.log
      BY <1>1, <1>3, <1>31, <1>6, SetPrivateTouches
    <2>2. Good(T, {e})
      BY <1>3, <1>6, storeSetPrivateKeyStep, StepGood
    <2>3. /\ T.url[e] = N.url[e] /\ T.lock[e] = N.lock[e] /\ T.status[e] = N.status[e]
          /\ T.swap[e] = N.swap[e] /\ T.filen[e] = N.filen[e] /\ T.mem[e] = N.mem[e]
          /\ T.sio[e] = N.sio[e] /\ T.clients[e] = N.clients[e] /\ T.abort[e] = N.abort[e]
          /\ (e \in T.late <=> e \in N.late) /\ T.flags[e] = N.flags[e]
          /\ T.size = N.size /\ T.ok = N.ok /\ Elsewhere(N, T, e)
      BY <2>1 DEF Touches
    <2>4. LogOne(N, T, e) /\ SizeOne(N, T, e) /\ Raw(T, {e}, e)
      BY <1>3, <2>1, <2>3 DEF LogOne, Logged, SizeOne, Stored, Raw
    <2>5. Whole(T, {e})
      BY <1>1, <1>3, <2>2, <2>3, <2>4, WholeChange
    <2>6. Apart(N, T, e)
      BY <2>3, ElsewhereApart
    <2>7. Apart(S, T, e)
      BY <1>4, <2>6, ApartTrans
    <2>. QED
      BY <1>1, <2>1, <2>3, <2>5, <2>7 DEF Blank
  <1>. QED
    BY <1>2, <1>5, <1>6

(* Then it is made cachable or released, validated and pending.              *)
LEMMA StartTouches ==
  ASSUME NEW S \in Store, S.ok, NEW e \in Entries, NEW cachable, S.filen[e] = -1,
         S.key[e] \in Keys \cup {Private}, S.flags[e] = {}
  PROVE  LET T == StartCachable(S, e, cachable)
         IN  /\ Touches(S, T, e, {"key", "log", "flags"}) /\ T.log = S.log
             /\ T.key[e] \in Keys \cup {Private}
             /\ T.flags[e] \in {{"ENTRY_CACHABLE"}, {"RELEASE_REQUEST"}}
  <1> DEFINE T == StartCachable(S, e, cachable)
  <1>1. CASE cachable
    <2>1. T = SetFlag(S, e, "ENTRY_CACHABLE")
      BY <1>1 DEF StartCachable
    <2> HIDE DEF T
    <2>2. Touches(S, T, e, {"flags"}) /\ T.flags[e] = S.flags[e] \cup {"ENTRY_CACHABLE"}
      BY <2>1, FlagTouches DEF Flags
    <2>3. T.key[e] = S.key[e] /\ T.log = S.log
      BY <2>2 DEF Touches
    <2>4. Touches(S, T, e, {"key", "log", "flags"})
      BY <2>2, TouchesMore
    <2>. QED
      BY <2>2, <2>3, <2>4 DEF T
  <1>2. CASE ~cachable
    <2>1. T = storeReleaseRequest(S, e)
      BY <1>2 DEF StartCachable
    <2> HIDE DEF T
    <2>2. /\ Touches(S, T, e, {"key", "log", "flags"}) /\ Released(S, T, e) /\ T.log = S.log
      BY <2>1, ReleaseRequestTouches
    <2>3. T.key[e] = Private /\ T.flags[e] = {"RELEASE_REQUEST"}
      BY <2>2 DEF Released
    <2>. QED
      BY <2>2, <2>3 DEF T
  <1>. QED
    BY <1>1, <1>2

LEMMA storeCreateEntryWhole ==
  ASSUME NEW S, Whole(S, {}), NEW e \in Entries, S.key[e] = NoKey, NEW k \in Keys, NEW c \in Clients,
         NEW cachable \in BOOLEAN, NEW hierarchical \in BOOLEAN
  PROVE  LET T == storeCreateEntry(S, e, k, cachable, hierarchical, c)
         IN  Fine(T, {e}, e, {}) /\ Apart(S, T, e) /\ Made(T, e, k, c) /\ Alone(T, e, c)
  <1> DEFINE N == new_StoreEntry(S, e, k, c)
             K == IF k \in VideoKeys THEN storeSetPublicKey(N, e)
                  ELSE IF NeighborsDoPrivateKeys \/ ~hierarchical THEN storeSetPrivateKey(N, e)
                  ELSE storeSetPublicKey(N, e)
             C == StartCachable(K, e, cachable)
             V == SetFlag(C, e, "ENTRY_VALIDATED")
             T == [V EXCEPT !.status[e] = "STORE_PENDING"]
  <1>1. T = storeCreateEntry(S, e, k, cachable, hierarchical, c)
    BY DEF storeCreateEntry
  <1>2. Good(T, {e})
    <2> HIDE DEF T
    <2>. QED
      BY <1>1, storeCreateEntryGood DEF Whole
  <1>3. K = storeSetPublicKey(N, e) \/ K = storeSetPrivateKey(N, e)
    OBVIOUS
  <1> HIDE DEF K, N
  <1>4. /\ Whole(K, {e}) /\ Apart(S, K, e)
        /\ K.key[e] \in Keys \cup {Private} /\ Blank(K, e, k, c)
    <2>1. N = new_StoreEntry(S, e, k, c)
      BY DEF N
    <2>. QED
      BY <1>3, <2>1, FirstKeyWhole
  <1>5. K \in Store /\ K.ok
    BY <1>4 DEF Whole, Good
  <1>51. /\ K.url[e] = k /\ K.lock[e] = {HttpLock(c)} /\ K.flags[e] = {}
         /\ K.swap[e] = "SWAPOUT_NONE" /\ K.filen[e] = -1 /\ K.mem[e] = "NOT_IN_MEMORY"
         /\ ~K.sio[e] /\ K.clients[e] = {} /\ K.abort[e] = "unset" /\ e \notin K.late
    BY <1>4 DEF Blank
  <1>6. /\ Touches(K, C, e, {"key", "log", "flags"}) /\ C.log = K.log
        /\ C.key[e] \in Keys \cup {Private}
        /\ C.flags[e] \in {{"ENTRY_CACHABLE"}, {"RELEASE_REQUEST"}}
    BY <1>4, <1>5, <1>51, StartTouches
  <1> HIDE DEF C
  <1>7. C \in Store
    BY <1>6 DEF Touches, Elsewhere
  <1>8. Touches(C, V, e, {"flags"}) /\ V.flags[e] = C.flags[e] \cup {"ENTRY_VALIDATED"}
    BY <1>7, FlagTouches DEF Flags
  <1> HIDE DEF V
  <1>9. V \in Store
    BY <1>8 DEF Touches, Elsewhere
  <1>10. Touches(V, T, e, {"status"}) /\ T.status[e] = "STORE_PENDING"
    <2>1. ASSUME NEW v \in {"STORE_OK", "STORE_PENDING"}
          PROVE  LET U == [V EXCEPT !.status[e] = v] IN Touches(V, U, e, {"status"}) /\ U.status[e] = v
      BY <1>9, PutStatus
    <2>. QED
      BY <2>1
  <1> HIDE DEF T
  <1>11. Touches(K, V, e, {"key", "log", "flags"} \cup {"flags"})
    BY <1>6, <1>8, TouchesTrans
  <1>12. Touches(K, T, e, ({"key", "log", "flags"} \cup {"flags"}) \cup {"status"})
    BY <1>10, <1>11, TouchesTrans
  <1>13. /\ T.key[e] = C.key[e] /\ T.log = K.log /\ T.flags[e] = C.flags[e] \cup {"ENTRY_VALIDATED"}
    BY <1>6, <1>8, <1>10 DEF Touches
  <1>14. /\ T.url[e] = K.url[e] /\ T.lock[e] = K.lock[e]
         /\ T.swap[e] = K.swap[e] /\ T.filen[e] = K.filen[e] /\ T.mem[e] = K.mem[e]
         /\ T.sio[e] = K.sio[e] /\ T.clients[e] = K.clients[e] /\ T.abort[e] = K.abort[e]
         /\ (e \in T.late <=> e \in K.late)
         /\ T.size = K.size /\ T.ok = K.ok /\ Elsewhere(K, T, e)
    BY <1>12 DEF Touches
  <1>15. LogOne(K, T, e) /\ SizeOne(K, T, e)
    BY <1>51, <1>13, <1>14 DEF LogOne, Logged, SizeOne, Stored
  <1>16. T.key[e] # NoKey
    BY <1>6, <1>13, KeysAssumption
  <1>17. Made(T, e, k, c)
    <2>1. /\ "ENTRY_VALIDATED" \in T.flags[e]
          /\ {"ENTRY_ABORTED", "ENTRY_FWD_HDR_WAIT"} \cap T.flags[e] = {}
      BY <1>6, <1>13
    <2>. QED
      BY <1>51, <1>10, <1>14, <1>16, <2>1 DEF Made
  <1>18. Entry(T, e, {})
    BY <1>51, <1>14, <1>17, MadeEntry
  <1>19. Whole(T, {e})
    BY <1>2, <1>4, <1>5, <1>14, <1>15, <1>18, WholeChange
  <1>20. Fine(T, {e}, e, {})
    BY <1>18, <1>19, WholeFine
  <1>21. Apart(K, T, e)
    BY <1>14, ElsewhereApart
  <1>22. Apart(S, T, e)
    BY <1>4, <1>21, ApartTrans
  <1>. QED
    BY <1>1, <1>51, <1>14, <1>17, <1>20, <1>22 DEF Alone

LEMMA storeClientRegisterFine ==
  ASSUME NEW S, NEW X, NEW e \in Entries, Fine(S, X, e, {}), NEW c \in Clients,
         HttpLock(c) \in S.lock[e], c \notin S.clients[e], "ENTRY_ABORTED" \notin S.flags[e]
  PROVE  LET T == storeClientRegister(S, e, c)
         IN  /\ Fine(T, X, e, {}) /\ Touches(S, T, e, {"lock", "clients"})
             /\ T.lock[e] = S.lock[e] \cup {ScLock(c)} /\ T.clients[e] = S.clients[e] \cup {c}
  <1> DEFINE h == ScLock(c)
             L == storeLockObject(S, e, h)
             v == L.clients[e] \cup {c}
             T == [L EXCEPT !.clients[e] = v]
  <1>1. S \in Store /\ S.ok /\ Good(S, X) /\ Loose(S, X, e, {}) /\ LeakOK(S, e) /\ Shaped(S, e, {})
    BY DEF Fine, Loose, Good
  <1>2. /\ h \in Holders /\ h \notin S.lock[e] /\ S.mem[e] # "NULL"
    <2>1. h \in Holders
      BY DEF Holders
    <2>2. h \notin S.lock[e]
      BY <1>1 DEF Shaped, HoldOK
    <2>3. S.mem[e] # "NULL"
      BY <1>1, HoldersDiffer DEF Shaped, MemOK
    <2>. QED
      BY <2>1, <2>2, <2>3
  <1>3. Must(S, S.mem[e] # "NULL") = S
    BY <1>1, <1>2, MustTrue
  <1>4. T = storeClientRegister(S, e, c)
    <2>1. L.clients \in [Entries -> SUBSET Clients]
      BY <1>1, <1>2, LockTouches DEF Touches, Elsewhere, Store
    <2>. QED
      BY <1>3, <2>1 DEF storeClientRegister
  <1>5. Good(T, X)
    <2> HIDE DEF T
    <2>. QED
      BY <1>1, <1>4, storeClientRegisterStep, StepGood
  <1> HIDE DEF h
  <1>6. Touches(S, L, e, {"lock"}) /\ L.lock[e] = S.lock[e] \cup {h}
    BY <1>1, <1>2, LockTouches
  <1> HIDE DEF L
  <1>7. L \in Store /\ L.clients[e] = S.clients[e]
    BY <1>6 DEF Touches, Elsewhere
  <1>8. v \in SUBSET Clients
    BY <1>7 DEF Store
  <1> HIDE DEF v
  <1>9. Touches(L, T, e, {"clients"}) /\ T.clients[e] = v
    BY <1>7, <1>8, PutClients
  <1> HIDE DEF T
  <1>10. Touches(S, T, e, {"lock"} \cup {"clients"})
    BY <1>6, <1>9, TouchesTrans
  <1>11. Touches(S, T, e, {"lock", "clients"})
    BY <1>10, TouchesMore
  <1>12. T.lock[e] = S.lock[e] \cup {h} /\ T.clients[e] = S.clients[e] \cup {c}
    BY <1>6, <1>7, <1>9 DEF Touches, v
  <1>13. /\ T.key[e] = S.key[e] /\ T.url[e] = S.url[e] /\ T.flags[e] = S.flags[e]
         /\ T.status[e] = S.status[e] /\ T.swap[e] = S.swap[e] /\ T.filen[e] = S.filen[e]
         /\ T.mem[e] = S.mem[e] /\ T.sio[e] = S.sio[e] /\ T.abort[e] = S.abort[e]
         /\ (e \in T.late <=> e \in S.late) /\ T.ok /\ Elsewhere(S, T, e)
    BY <1>1, <1>11 DEF Touches
  <1>14. h # Swapout /\ h # Late /\ h # F /\ \A d \in Clients : h = ScLock(d) => d = c
    BY HoldersDiffer DEF h, F, Roles
  <1>15. FreeOK(T, e) /\ MemOK(T, e)
    BY <1>1, <1>2, <1>12, <1>13, <1>14 DEF Shaped, FreeOK, MemOK
  <1>16. HoldOK(T, e, {})
    <2>1. HttpLock(c) # Late
      BY HoldersDiffer
    <2>2. Late \notin S.lock[e]
      BY <1>1, <2>1 DEF Shaped, HoldOK
    <2>3. \A d \in Clients : ScLock(d) \in T.lock[e] <=> d \in T.clients[e]
      BY <1>1, <1>12, <1>14 DEF Shaped, HoldOK, h
    <2>4. \A d \in Clients : d \in T.clients[e] => HttpLock(d) \in T.lock[e]
      BY <1>1, <1>12 DEF Shaped, HoldOK
    <2>. QED
      BY <1>1, <1>12, <1>13, <1>14, <2>2, <2>3, <2>4 DEF Shaped, HoldOK
  <1>17. SwapOK(T, e) /\ AbortOK(T, e) /\ LeakOK(T, e)
    BY <1>1, <1>12, <1>13 DEF Shaped, SwapOK, AbortOK, LeakOK
  <1>18. LogOne(S, T, e) /\ SizeOne(S, T, e)
    BY <1>11, <1>13, QuietLog, QuietSize
  <1>19. Shaped(T, e, {})
    BY <1>15, <1>16, <1>17 DEF Shaped
  <1>20. Loose(T, X, e, {})
    BY <1>1, <1>5, <1>13, <1>18, <1>19, Change
  <1>. QED
    BY <1>4, <1>11, <1>12, <1>17, <1>20 DEF Fine, h

(* The new entry is its client's alone, and released or cachable.            *)
Ready(T, e, c) ==
    /\ T.lock[e] = {HttpLock(c), ScLock(c)}
    /\ ~("RELEASE_REQUEST" \in T.flags[e] /\ "ENTRY_CACHABLE" \in T.flags[e])

(* A miss: the entry is its client's, and may be public early.               *)
LEMMA MissEntryFine ==
  ASSUME NEW S, Whole(S, {}), NEW e \in Entries, S.key[e] = NoKey, NEW k \in Keys, NEW c \in Clients,
         NEW cachable \in BOOLEAN, NEW hierarchical \in BOOLEAN, NEW collapse \in BOOLEAN,
         collapse => cachable
  PROVE  LET T == MissEntry(S, c, k, e, cachable, hierarchical, collapse)
         IN  Fine(T, {e}, e, {}) /\ Apart(S, T, e) /\ Made(T, e, k, c) /\ Ready(T, e, c)
  <1> DEFINE N == storeCreateEntry(S, e, k, cachable, hierarchical, c)
             R == storeClientRegister(N, e, c)
             G == SetFlag(R, e, "KEY_EARLY_PUBLIC")
             P == storeSetPublicKey(G, e)
             T == CollapsedKey(R, e, collapse)
  <1>1. T = MissEntry(S, c, k, e, cachable, hierarchical, collapse)
    BY DEF MissEntry
  <1>2. /\ Fine(N, {e}, e, {}) /\ Apart(S, N, e) /\ Made(N, e, k, c)
        /\ N.lock[e] = {HttpLock(c)} /\ N.clients[e] = {}
    <2>1. Fine(N, {e}, e, {}) /\ Apart(S, N, e) /\ Made(N, e, k, c) /\ Alone(N, e, c)
      BY storeCreateEntryWhole
    <2>. QED
      BY <2>1 DEF Alone
  <1>3. /\ cachable => "RELEASE_REQUEST" \notin N.flags[e]
        /\ ~("RELEASE_REQUEST" \in N.flags[e] /\ "ENTRY_CACHABLE" \in N.flags[e])
    <2>1. Good(S, {})
      BY DEF Whole
    <2>. QED
      BY <2>1, storeCreateEntryGood
  <1> HIDE DEF N
  <1>4. /\ Fine(R, {e}, e, {}) /\ Touches(N, R, e, {"lock", "clients"})
        /\ R.lock[e] = N.lock[e] \cup {ScLock(c)} /\ R.clients[e] = N.clients[e] \cup {c}
    BY <1>2, storeClientRegisterFine DEF Made
  <1> HIDE DEF R
  <1>5. R.flags[e] = N.flags[e] /\ Elsewhere(N, R, e)
    BY <1>4 DEF Touches
  <1>6. Made(R, e, k, c)
    BY <1>2, <1>4 DEF Touches, Made
  <1>7. Apart(S, R, e)
    BY <1>2, <1>5, ElsewhereApart, ApartTrans
  <1>8. R.lock[e] = {HttpLock(c), ScLock(c)}
    BY <1>2, <1>4
  <1>9. CASE ~collapse
    <2>1. T = R
      BY <1>9 DEF CollapsedKey
    <2>. QED
      BY <1>1, <1>3, <1>4, <1>5, <1>6, <1>7, <1>8, <2>1 DEF Ready
  <1>10. CASE collapse
    <2>1. T = P
      BY <1>10 DEF CollapsedKey
    <2>2. R \in Store /\ Good(R, {e}) /\ Loose(R, {e}, e, {}) /\ R.key[e] # NoKey
      BY <1>4, <1>6 DEF Fine, Loose, Good, Made
    <2>3. "KEY_EARLY_PUBLIC" \in Flags
      BY DEF Flags
    <2>4. Good(G, {e})
      BY <2>2, <2>3, FlagStep, StepGood
    <2>5. Touches(R, G, e, {"flags"}) /\ G.flags[e] = R.flags[e] \cup {"KEY_EARLY_PUBLIC"}
      BY <2>2, <2>3, FlagTouches
    <2>6. Loose(G, {e}, e, {}) /\ (LeakOK(R, e) => LeakOK(G, e))
      BY <2>2, <2>4, FlagFine
    <2> HIDE DEF G
    <2>7. Made(G, e, k, c) /\ G.lock[e] = R.lock[e] /\ Elsewhere(R, G, e)
      BY <1>6, <2>5 DEF Touches, Made
    <2>8. Fine(G, {e}, e, {})
      BY <1>4, <2>6 DEF Fine
    <2>9. Whole(G, {e}) /\ Entry(G, e, {})
      BY <2>8, FineWhole
    <2>10. "RELEASE_REQUEST" \notin G.flags[e]
      BY <1>3, <1>5, <1>10, <2>5
    <2>11. Whole(P, {e}) /\ Rekeyed(G, P, e) /\ Apart(G, P, e) /\ P.key[e] \in Keys
      BY <2>7, <2>9, <2>10, storeSetPublicKeyWhole DEF Made
    <2> HIDE DEF P
    <2>12. P.key[e] # NoKey /\ G.key[e] # NoKey
      BY <2>7, <2>11, KeysAssumption DEF Made
    <2>13. Entry(P, e, {})
      BY <2>9, <2>11, <2>12, RekeyedEntry
    <2>14. Fine(P, {e}, e, {})
      BY <2>11, <2>13, WholeFine
    <2>15. \A f : f # "KEY_EARLY_PUBLIC" => (f \in P.flags[e] <=> f \in G.flags[e])
      BY <2>11, RekeyedFlags
    <2>16. Made(P, e, k, c) /\ P.lock[e] = {HttpLock(c), ScLock(c)}
      BY <1>8, <2>7, <2>11, <2>12, <2>15 DEF Made, Rekeyed
    <2>17. Apart(R, G, e)
      BY <2>7, ElsewhereApart
    <2>18. Apart(S, G, e)
      BY <1>7, <2>17, ApartTrans
    <2>19. Apart(S, P, e)
      BY <2>11, <2>18, ApartTrans
    <2>. QED
      BY <1>1, <2>1, <2>10, <2>14, <2>15, <2>16, <2>19 DEF Ready
  <1>. QED
    BY <1>9, <1>10

(* The entry is handed to its server side.                                   *)
LEMMA fwdStartFine ==
  ASSUME NEW S, NEW e \in Entries, NEW k \in Keys, NEW c \in Clients, Fine(S, {e}, e, {}), Made(S, e, k, c),
         S.lock[e] = {HttpLock(c), ScLock(c)},
         ~("RELEASE_REQUEST" \in S.flags[e] /\ "ENTRY_CACHABLE" \in S.flags[e])
  PROVE  LET T == fwdStart(S, e)
         IN  /\ Fine(T, {}, e, {}) /\ Elsewhere(S, T, e) /\ Out(T, e) = {HttpLock(c), ScLock(c), F}
             /\ T.status[e] = "STORE_PENDING" /\ "ENTRY_FWD_HDR_WAIT" \in T.flags[e]
             /\ "ENTRY_ABORTED" \notin T.flags[e]
  <1> DEFINE L == storeLockObject(S, e, F)
             G == SetFlag(L, e, "ENTRY_FWD_HDR_WAIT")
             T == [G EXCEPT !.abort[e] = "set"]
  <1>1. /\ S \in Store /\ S.ok /\ Good(S, {e}) /\ Loose(S, {e}, e, {}) /\ LeakOK(S, e)
        /\ Shaped(S, e, {})
    BY DEF Fine, Loose, Good
  <1>2. T = fwdStart(S, e)
    BY DEF fwdStart, F
  <1>3. Good(T, {})
    <2> HIDE DEF T
    <2>. QED
      BY <1>1, <1>2, fwdStartGood
  <1>4. F \in Holders /\ F \notin S.lock[e] /\ F # Swapout /\ F # Late
    BY HoldersDiffer DEF F, Holders, Roles
  <1>5. Touches(S, L, e, {"lock"}) /\ L.lock[e] = S.lock[e] \cup {F}
    BY <1>1, <1>4, LockTouches
  <1> HIDE DEF L
  <1>6. L \in Store /\ L.flags[e] = S.flags[e]
    BY <1>5 DEF Touches, Elsewhere
  <1>7. Touches(L, G, e, {"flags"}) /\ G.flags[e] = L.flags[e] \cup {"ENTRY_FWD_HDR_WAIT"}
    BY <1>6, FlagTouches DEF Flags
  <1> HIDE DEF G
  <1>8. G \in Store
    BY <1>7 DEF Touches, Elsewhere
  <1>9. Touches(G, T, e, {"abort"}) /\ T.abort[e] = "set"
    <2>1. ASSUME NEW v \in {"unset", "set", "queued"}
          PROVE  LET U == [G EXCEPT !.abort[e] = v] IN Touches(G, U, e, {"abort"}) /\ U.abort[e] = v
      BY <1>8, PutAbort
    <2>. QED
      BY <2>1
  <1> HIDE DEF T
  <1>10. Touches(S, G, e, {"lock"} \cup {"flags"})
    BY <1>5, <1>7, TouchesTrans
  <1>11. Touches(S, T, e, ({"lock"} \cup {"flags"}) \cup {"abort"})
    BY <1>9, <1>10, TouchesTrans
  <1>12. Touches(S, T, e, {"lock", "flags", "abort"})
    BY <1>11, TouchesMore
  <1>13. /\ T.lock[e] = S.lock[e] \cup {F}
         /\ T.flags[e] = S.flags[e] \cup {"ENTRY_FWD_HDR_WAIT"}
    BY <1>5, <1>6, <1>7, <1>9 DEF Touches
  <1>14. /\ T.key[e] = S.key[e] /\ T.url[e] = S.url[e]
         /\ T.status[e] = S.status[e] /\ T.swap[e] = S.swap[e] /\ T.filen[e] = S.filen[e]
         /\ T.mem[e] = S.mem[e] /\ T.sio[e] = S.sio[e] /\ T.clients[e] = S.clients[e]
         /\ (e \in T.late <=> e \in S.late) /\ T.ok /\ Elsewhere(S, T, e)
    BY <1>1, <1>12 DEF Touches
  <1>15. FreeOK(T, e) /\ MemOK(T, e)
    BY <1>1, <1>13, <1>14 DEF Shaped, FreeOK, MemOK, Made
  <1>16. HoldOK(T, e, {})
    <2>1. \A d \in Clients : ScLock(d) # F /\ HttpLock(d) # F /\ HttpLock(d) # Late /\ ScLock(d) # Late
      BY HoldersDiffer DEF F, Roles
    <2>2. Late \notin T.lock[e]
      BY <1>4, <1>13, <2>1
    <2>3. \A d \in Clients : ScLock(d) \in T.lock[e] <=> d \in T.clients[e]
      BY <1>1, <1>13, <1>14, <2>1 DEF Shaped, HoldOK
    <2>4. \A d \in Clients : d \in T.clients[e] => HttpLock(d) \in T.lock[e]
      BY <1>1, <1>13, <1>14 DEF Shaped, HoldOK
    <2>. QED
      BY <1>1, <1>4, <1>13, <1>14, <2>2, <2>3, <2>4 DEF Shaped, HoldOK
  <1>17. SwapOK(T, e) /\ AbortOK(T, e) /\ LeakOK(T, e)
    BY <1>1, <1>13, <1>14 DEF Shaped, SwapOK, AbortOK, LeakOK, Made
  <1>18. Shaped(T, e, {})
    BY <1>15, <1>16, <1>17 DEF Shaped
  <1>19. LogOne(S, T, e) /\ SizeOne(S, T, e)
    BY <1>12, <1>13, QuietLog, QuietSize
  <1>20. Good(T, {e})
    BY <1>3, GoodMore
  <1>21. Loose(T, {e}, e, {})
    BY <1>1, <1>14, <1>18, <1>19, <1>20, Change
  <1>22. Loose(T, {}, e, {})
    BY <1>3, <1>21 DEF Loose, Raw
  <1>23. Out(T, e) = {HttpLock(c), ScLock(c), F}
    BY <1>4, <1>13, HoldersDiffer DEF Out
  <1>. QED
    BY <1>2, <1>13, <1>14, <1>17, <1>22, <1>23 DEF Fine, Made

(* Once its transfer is over an entry needs no server side.                  *)
LEMMA OverWhole ==
  ASSUME NEW S, NEW e \in Entries, Fine(S, {e}, e, {}), S.status[e] = "STORE_OK"
  PROVE  Fine(S, {}, e, {})
  <1>1. Good(S, {})
    BY DEF Fine, Loose, Good, EntryOK
  <1>. QED
    BY <1>1 DEF Fine, Loose, Raw
-----------------------------------------------------------------------------
(* The reply header: the entry keeps its references and its transfer goes on *)
(* for the same clients.                                                     *)
Stays(S, T, e) ==
    /\ Out(T, e) = Out(S, e) /\ T.status[e] = S.status[e] /\ T.clients[e] = S.clients[e]
    /\ "ENTRY_FWD_HDR_WAIT" \in T.flags[e] <=> "ENTRY_FWD_HDR_WAIT" \in S.flags[e]
    /\ "ENTRY_ABORTED" \in T.flags[e] <=> "ENTRY_ABORTED" \in S.flags[e]
Heads(S, T, e) == Fine(T, {}, e, {}) /\ Apart(S, T, e) /\ Stays(S, T, e)

(* An entry whose reply header is still to come.                             *)
Waiting(S, e) ==
    Fine(S, {}, e, {}) /\ F \in S.lock[e] /\ "ENTRY_FWD_HDR_WAIT" \in S.flags[e]

LEMMA HeadsTrans ==
  ASSUME NEW S, NEW T, NEW U, NEW e, Heads(S, T, e), Heads(T, U, e)
  PROVE  Heads(S, U, e)
  <1>1. Apart(S, U, e)
    BY ApartTrans DEF Heads
  <1>2. Stays(S, U, e)
    BY DEF Heads, Stays
  <1>. QED
    BY <1>1, <1>2 DEF Heads

LEMMA HeadsRefl ==
  ASSUME NEW S, NEW e \in Entries, Waiting(S, e)
  PROVE  Heads(S, S, e)
  <1>1. Elsewhere(S, S, e) /\ Stays(S, S, e)
    BY DEF Waiting, Fine, Loose, Good, Elsewhere, SameEntry, Stays
  <1>. QED
    BY <1>1, ElsewhereApart DEF Heads, Waiting

LEMMA HeadsWait ==
  ASSUME NEW S, NEW T, NEW e, Waiting(S, e), Heads(S, T, e)
  PROVE  Waiting(T, e)
  <1>1. F \in T.lock[e]
    BY HoldersDiffer DEF Waiting, Heads, Stays, Out
  <1>. QED
    BY <1>1 DEF Waiting, Heads, Stays

LEMMA WaitingIs ==
  ASSUME NEW S, NEW e \in Entries, Waiting(S, e)
  PROVE  /\ S \in Store /\ S.ok /\ Good(S, {}) /\ Loose(S, {}, e, {}) /\ LeakOK(S, e) /\ Whole(S, {})
         /\ Entry(S, e, {}) /\ S.key[e] # NoKey /\ S.mem[e] # "NULL" /\ S.url[e] \in Keys
         /\ S.filen[e] = -1 /\ S.swap[e] = "SWAPOUT_NONE" /\ S.lock[e] # {}
         /\ "ENTRY_CACHABLE" \in S.flags[e] => "RELEASE_REQUEST" \notin S.flags[e]
  <1>1. S \in Store /\ S.ok /\ Good(S, {}) /\ Loose(S, {}, e, {}) /\ LeakOK(S, e)
    BY DEF Waiting, Fine, Loose, Good
  <1>2. Whole(S, {}) /\ Entry(S, e, {})
    BY FineWhole DEF Waiting
  <1>3. S.mem[e] # "NULL" /\ S.url[e] \in Keys
    BY <1>2 DEF Entry, Shaped, MemOK, Waiting
  <1>4. S.key[e] # NoKey /\ S.filen[e] = -1 /\ S.swap[e] = "SWAPOUT_NONE"
    BY <1>2 DEF Entry, Shaped, FreeOK, SwapOK, Waiting
  <1>5. "ENTRY_CACHABLE" \in S.flags[e] => "RELEASE_REQUEST" \notin S.flags[e]
    BY <1>1 DEF Good, EntryOK, Waiting
  <1>. QED
    BY <1>1, <1>2, <1>3, <1>4, <1>5 DEF Waiting

LEMMA httpMakePublicHeads ==
  ASSUME NEW S, NEW e \in Entries, Waiting(S, e)
  PROVE  Heads(S, httpMakePublic(S, e), e)
  <1> DEFINE T == storeSetPublicKey(S, e)
  <1>1. /\ Whole(S, {}) /\ Entry(S, e, {}) /\ S.key[e] # NoKey /\ S.mem[e] # "NULL"
        /\ S.url[e] \in Keys /\ S.filen[e] = -1 /\ S.swap[e] = "SWAPOUT_NONE"
        /\ "ENTRY_CACHABLE" \in S.flags[e] => "RELEASE_REQUEST" \notin S.flags[e]
    BY WaitingIs
  <1>2. CASE ~Has(S, e, "ENTRY_CACHABLE")
    BY <1>2, HeadsRefl DEF httpMakePublic
  <1>3. CASE Has(S, e, "ENTRY_CACHABLE")
    <2>1. Whole(T, {}) /\ Rekeyed(S, T, e) /\ Apart(S, T, e) /\ T.key[e] \in Keys
      BY <1>1, <1>3, storeSetPublicKeyWhole DEF Has
    <2>2. httpMakePublic(S, e) = T
      BY <1>3 DEF httpMakePublic
    <2> HIDE DEF T
    <2>3. T.key[e] # NoKey
      BY <2>1, KeysAssumption
    <2>4. Entry(T, e, {})
      BY <1>1, <2>1, <2>3, RekeyedEntry
    <2>5. Fine(T, {}, e, {})
      BY <2>1, <2>4, WholeFine
    <2>6. Stays(S, T, e)
      BY <2>1, RekeyedFlags DEF Stays, Rekeyed, Out
    <2>. QED
      BY <2>1, <2>2, <2>5, <2>6 DEF Heads
  <1>. QED
    BY <1>2, <1>3

LEMMA httpMakePrivateHeads ==
  ASSUME NEW S, NEW e \in Entries, Waiting(S, e)
  PROVE  Heads(S, storeReleaseRequest(S, e), e)
  <1> DEFINE T == storeReleaseRequest(S, e)
  <1>1. Loose(S, {}, e, {}) /\ S.key[e] # NoKey /\ S.lock[e] # {}
    BY WaitingIs
  <1>2. /\ Loose(T, {}, e, {}) /\ Touches(S, T, e, {"key", "log", "flags"})
        /\ Released(S, T, e) /\ LeakOK(T, e)
    BY <1>1, ReleaseRequestLoose
  <1> HIDE DEF T
  <1>3. Stays(S, T, e)
    BY <1>2 DEF Touches, Released, Stays, Out
  <1>4. Elsewhere(S, T, e)
    BY <1>2 DEF Touches
  <1>5. Apart(S, T, e)
    BY <1>4, ElsewhereApart
  <1>. QED
    BY <1>2, <1>3, <1>5 DEF Heads, Fine, T

LEMMA NegcachedHeads ==
  ASSUME NEW S, NEW e \in Entries, Waiting(S, e)
  PROVE  Heads(S, SetFlag(S, e, "ENTRY_NEGCACHED"), e)
  <1> DEFINE T == SetFlag(S, e, "ENTRY_NEGCACHED")
  <1>1. /\ S \in Store /\ S.ok /\ Good(S, {}) /\ Loose(S, {}, e, {}) /\ LeakOK(S, e)
        /\ Entry(S, e, {}) /\ S.swap[e] = "SWAPOUT_NONE" /\ S.key[e] # NoKey
    BY WaitingIs
  <1>2. "ENTRY_NEGCACHED" \in Flags
    BY DEF Flags
  <1>3. Good(T, {})
    BY <1>1, <1>2, FlagStep, StepGood
  <1>4. Touches(S, T, e, {"flags"}) /\ T.flags[e] = S.flags[e] \cup {"ENTRY_NEGCACHED"}
    BY <1>1, <1>2, FlagTouches
  <1> HIDE DEF T
  <1>5. T.key[e] = S.key[e] /\ T.ok /\ Elsewhere(S, T, e)
    BY <1>1, <1>4 DEF Touches
  <1>6. Shaped(T, e, {})
    <2>1. Touches(S, T, e, {"key", "log", "flags", "size", "ok"})
      BY <1>4, TouchesMore
    <2>2. Shaped(S, e, {}) /\ ("ENTRY_ABORTED" \in S.flags[e] => "RELEASE_REQUEST" \in S.flags[e])
      BY <1>1 DEF Entry, Shaped, AbortOK
    <2>. QED
      BY <1>1, <1>4, <1>5, <2>1, <2>2, FlagsShaped
  <1>7. LogOne(S, T, e) /\ SizeOne(S, T, e)
    BY <1>4, QuietLog, QuietSize
  <1>8. Loose(T, {}, e, {})
    BY <1>1, <1>3, <1>5, <1>6, <1>7, Change
  <1>9. LeakOK(T, e)
    BY <1>1, <1>4 DEF Touches, LeakOK
  <1>10. Stays(S, T, e)
    BY <1>4 DEF Touches, Stays, Out
  <1>11. Apart(S, T, e)
    BY <1>5, ElsewhereApart
  <1>. QED
    BY <1>8, <1>9, <1>10, <1>11 DEF Heads, Fine, T

LEMMA httpCacheNegativelyHeads ==
  ASSUME NEW S, NEW e \in Entries, Waiting(S, e), NEW expired
  PROVE  Heads(S, httpCacheNegatively(S, e, expired), e)
  <1> DEFINE G == SetFlag(S, e, "ENTRY_NEGCACHED")
             P == httpMakePublic(G, e)
             T == ReleaseExpired(P, e, expired)
  <1>1. T = httpCacheNegatively(S, e, expired)
    BY DEF httpCacheNegatively
  <1>2. Heads(S, G, e)
    BY NegcachedHeads
  <1> HIDE DEF G
  <1>3. Waiting(G, e)
    BY <1>2, HeadsWait
  <1>4. Heads(G, P, e)
    BY <1>3, httpMakePublicHeads
  <1> HIDE DEF P
  <1>5. Waiting(P, e) /\ Heads(S, P, e)
    BY <1>2, <1>3, <1>4, HeadsWait, HeadsTrans
  <1>6. CASE expired
    <2>1. storeEntryLocked(P, e)
      BY <1>5, WaitingIs DEF storeEntryLocked
    <2>2. T = storeReleaseRequest(P, e)
      BY <1>6, <2>1 DEF ReleaseExpired, storeRelease
    <2>3. Heads(P, T, e)
      BY <1>5, <2>2, httpMakePrivateHeads
    <2>. QED
      BY <1>1, <1>5, <2>3, HeadsTrans
  <1>7. CASE ~expired
    BY <1>1, <1>5, <1>7 DEF ReleaseExpired
  <1>. QED
    BY <1>6, <1>7

LEMMA httpMaybeRemovePublicHeads ==
  ASSUME NEW S, NEW e \in Entries, Waiting(S, e), NEW remove
  PROVE  Heads(S, httpMaybeRemovePublic(S, e, remove), e)
  <1> DEFINE pe == CHOOSE x \in Entries : S.key[x] = S.url[e]
             T == storeRelease(S, pe)
  <1>1. CASE remove /\ S.key[e] = Private /\ \E x \in Entries : S.key[x] = S.url[e]
    <2>1. pe \in Entries /\ S.key[pe] = S.url[e]
      BY <1>1
    <2>2. httpMaybeRemovePublic(S, e, remove) = T
      BY <1>1 DEF httpMaybeRemovePublic
    <2> HIDE DEF pe
    <2>3. Whole(S, {}) /\ Entry(S, e, {}) /\ S.url[e] \in Keys
      BY WaitingIs
    <2>4. pe # e /\ S.key[pe] # NoKey
      BY <1>1, <2>1, <2>3, KeysAssumption
    <2>5. Entry(S, pe, {})
      BY <2>1, <2>3 DEF Whole, Raw
    <2>6. Fine(S, {}, pe, {})
      BY <2>1, <2>3, <2>5, WholeFine
    <2>7. Loose(S, {}, pe, {}) /\ (S.lock[pe] = {} => S.status[pe] = "STORE_OK")
      BY <2>4, <2>6 DEF Fine, LeakOK
    <2>8. Fine(T, {}, pe, {}) /\ Acts(S, T, pe, {})
      BY <2>1, <2>7, storeReleaseFine
    <2> HIDE DEF T
    <2>9. SameEntry(S, T, e)
      BY <2>4, <2>8 DEF Acts, Elsewhere
    <2>10. Entry(T, e, {})
      BY <2>3, <2>9, SameStays
    <2>11. Fine(T, {}, e, {})
      BY <2>1, <2>8, <2>10, FineWhole, WholeFine
    <2>12. Apart(S, T, e)
      BY <2>8, ActsKept DEF Apart, Acts, Elsewhere
    <2>13. Stays(S, T, e)
      BY <2>9 DEF SameEntry, Stays, Out
    <2>. QED
      BY <2>2, <2>11, <2>12, <2>13 DEF Heads
  <1>2. CASE ~(remove /\ S.key[e] = Private /\ \E x \in Entries : S.key[x] = S.url[e])
    BY <1>2, HeadsRefl DEF httpMaybeRemovePublic
  <1>. QED
    BY <1>1, <1>2

LEMMA httpProcessReplyHeaderHeads ==
  ASSUME NEW S, NEW e \in Entries, Waiting(S, e), S.status[e] = "STORE_PENDING", NEW remove,
         NEW verdict \in {"public", "private", "negative", "expired"}
  PROVE  Heads(S, httpProcessReplyHeader(S, e, verdict, remove), e)
  <1> DEFINE M == Must(S, S.status[e] = "STORE_PENDING")
             V == ApplyVerdict(M, e, verdict)
             T == RemoveOutdated(V, e, remove)
  <1>1. T = httpProcessReplyHeader(S, e, verdict, remove)
    BY DEF httpProcessReplyHeader
  <1>2. M = S
    BY WaitingIs, MustTrue
  <1> HIDE DEF M
  <1>3. Heads(S, V, e)
    <2>1. CASE verdict = "public"
      BY <1>2, <2>1, httpMakePublicHeads DEF ApplyVerdict
    <2>2. CASE verdict = "private"
      BY <1>2, <2>2, httpMakePrivateHeads DEF ApplyVerdict, httpMakePrivate
    <2>3. CASE verdict = "negative"
      BY <1>2, <2>3, httpCacheNegativelyHeads DEF ApplyVerdict
    <2>4. CASE verdict = "expired"
      BY <1>2, <2>4, httpCacheNegativelyHeads DEF ApplyVerdict
    <2>. QED
      BY <2>1, <2>2, <2>3, <2>4
  <1> HIDE DEF V
  <1>4. Waiting(V, e)
    BY <1>3, HeadsWait
  <1>5. Heads(V, T, e)
    BY <1>4, httpMaybeRemovePublicHeads, HeadsRefl DEF RemoveOutdated
  <1>. QED
    BY <1>1, <1>3, <1>5, HeadsTrans

(* The first flush: clients are served, and blocks go to the disk.           *)
LEMMA storeBufferFlushFine ==
  ASSUME NEW S, NEW e \in Entries, Fine(S, {}, e, {}), F \in S.lock[e], AbortLock \notin S.lock[e],
         NEW gone, NEW o, NEW quick, NEW keep
  PROVE  LET T == storeBufferFlush(S, e, gone, o, quick, keep)
         IN  Fine(T, {}, e, {}) /\ Acts(S, T, e, Leaving(S, e, gone))
  <1> DEFINE w == <<"wait", -1>>
             I == InvokeHandlers(S, e, gone, w, quick, keep)
             T == storeSwapOut(I, e, o, keep)
             G == Leaving(S, e, gone)
  <1>1. T = storeBufferFlush(S, e, gone, o, quick, keep)
    BY DEF storeBufferFlush
  <1> HIDE DEF w
  <1>2. Safe(S, {}, e)
    BY DEF Safe
  <1>3. Fine(I, {}, e, {}) /\ Acts(S, I, e, G)
    BY <1>2, InvokeHandlersFine
  <1> HIDE DEF I
  <1>4. Out(I, e) # {}
    <2>1. F \in Out(S, e) /\ F \notin G
      BY HoldersDiffer DEF Out, Leaving, F, Roles, Fine, Loose, Good, Store
    <2> HIDE DEF G
    <2>. QED
      BY <1>3, <2>1 DEF Acts
  <1>5. Safe(I, {}, e)
    BY DEF Safe
  <1>6. Fine(T, {}, e, {}) /\ Acts(I, T, e, {})
    BY <1>3, <1>4, <1>5, storeSwapOutFine
  <1> HIDE DEF T, G
  <1>7. Acts(S, T, e, G \cup {})
    BY <1>3, <1>6, ActsTrans
  <1>8. G \cup {} = G
    OBVIOUS
  <1>. QED
    BY <1>1, <1>6, <1>7, <1>8 DEF G
-----------------------------------------------------------------------------
(* Re-forwarding: of e the key and flags change, not the ones of its         *)
(* transfer.                                                                 *)
Lasting == {"ENTRY_FWD_HDR_WAIT", "ENTRY_ABORTED", "ENTRY_VALIDATED"}
Reset(S, T, e) ==
    /\ Touches(S, T, e, {"key", "log", "flags"}) /\ T.log = S.log /\ T.key[e] # NoKey
    /\ \A f \in Lasting : f \in T.flags[e] <=> f \in S.flags[e]

LEMMA ResetTrans ==
  ASSUME NEW S, NEW T, NEW U, NEW e, Reset(S, T, e), Reset(T, U, e)
  PROVE  Reset(S, U, e)
  <1>1. Touches(S, U, e, {"key", "log", "flags"} \cup {"key", "log", "flags"})
    BY TouchesTrans DEF Reset
  <1>2. Touches(S, U, e, {"key", "log", "flags"})
    BY <1>1, TouchesMore
  <1>. QED
    BY <1>2 DEF Reset

LEMMA ResetIs ==
  ASSUME NEW S, NEW T, NEW e, Reset(S, T, e), S.filen[e] = -1, S.ok
  PROVE  T \in Store /\ T.ok /\ T.key[e] # NoKey /\ T.filen[e] = -1
  BY DEF Reset, Touches, Elsewhere

LEMMA FlagReset ==
  ASSUME NEW S \in Store, NEW e \in Entries, S.key[e] # NoKey, NEW f \in Flags \ Lasting, NEW T,
         T = SetFlag(S, e, f) \/ T = ClrFlag(S, e, f)
  PROVE  Reset(S, T, e)
  <1>1. Touches(S, T, e, {"flags"}) /\ T.flags[e] \in {S.flags[e] \cup {f}, S.flags[e] \ {f}}
    BY FlagTouches
  <1>2. T.key[e] = S.key[e] /\ T.log = S.log
    BY <1>1 DEF Touches
  <1>3. Touches(S, T, e, {"key", "log", "flags"})
    BY <1>1, TouchesMore
  <1>. QED
    BY <1>1, <1>2, <1>3 DEF Reset

LEMMA PrivateReset ==
  ASSUME NEW S \in Store, S.ok, NEW e \in Entries, S.key[e] # NoKey, S.filen[e] = -1
  PROVE  Reset(S, storeSetPrivateKey(S, e), e)
  <1> DEFINE T == storeSetPrivateKey(S, e)
  <1>1. Touches(S, T, e, {"key", "log"}) /\ T.key[e] = Private /\ T.log = S.log
    BY SetPrivateTouches
  <1> HIDE DEF T
  <1>2. T.flags[e] = S.flags[e]
    BY <1>1 DEF Touches
  <1>3. Touches(S, T, e, {"key", "log", "flags"})
    BY <1>1, TouchesMore
  <1>4. T.key[e] # NoKey
    BY <1>1, KeysAssumption
  <1>5. Reset(S, T, e)
    BY <1>1, <1>2, <1>3, <1>4 DEF Reset
  <1>. QED
    BY <1>5 DEF T

LEMMA ReforwardReset ==
  ASSUME NEW S \in Store, S.ok, NEW e \in Entries, S.key[e] # NoKey, S.filen[e] = -1,
         S.status[e] = "STORE_PENDING", ~S.sio[e]
  PROVE  Reset(S, Reforward(S, e), e)
  <1> DEFINE R == Must(S, S.status[e] = "STORE_PENDING" /\ ~S.sio[e])
             P == storeSetPrivateKey(R, e)
             G == ClrFlag(P, e, "ENTRY_NEGCACHED")
             K == ClrFlag(G, e, "KEY_EARLY_PUBLIC")
             N == IF Has(R, e, "ENTRY_NEGCACHED") THEN K ELSE R
             H == ClrFlag(N, e, "RELEASE_REQUEST")
             J == ClrFlag(H, e, "KEY_EARLY_PUBLIC")
             Q == IF Has(N, e, "RELEASE_REQUEST") THEN J ELSE N
             T == IF orig[e] THEN SetFlag(Q, e, "ENTRY_CACHABLE") ELSE Q
  <1>1. T = Reforward(S, e)
    BY DEF Reforward
  <1>2. R = S
    BY MustTrue
  <1>3. {"ENTRY_NEGCACHED", "KEY_EARLY_PUBLIC", "RELEASE_REQUEST", "ENTRY_CACHABLE"} \subseteq Flags \ Lasting
    BY DEF Flags, Lasting
  <1>4. Reset(S, S, e)
    BY TouchesRefl DEF Reset
  <1> HIDE DEF R
  <1>5. Reset(S, P, e)
    BY <1>2, PrivateReset
  <1> HIDE DEF P
  <1>6. Reset(P, G, e)
    BY <1>3, <1>5, ResetIs, FlagReset
  <1> HIDE DEF G
  <1>7. Reset(S, G, e)
    BY <1>5, <1>6, ResetTrans
  <1>8. Reset(G, K, e)
    BY <1>3, <1>7, ResetIs, FlagReset
  <1> HIDE DEF K
  <1>9. Reset(S, N, e)
    BY <1>2, <1>4, <1>7, <1>8, ResetTrans
  <1> HIDE DEF N
  <1>10. Reset(N, H, e)
    BY <1>3, <1>9, ResetIs, FlagReset
  <1> HIDE DEF H
  <1>11. Reset(S, H, e)
    BY <1>9, <1>10, ResetTrans
  <1>12. Reset(H, J, e)
    BY <1>3, <1>11, ResetIs, FlagReset
  <1> HIDE DEF J
  <1>13. Reset(S, Q, e)
    BY <1>9, <1>11, <1>12, ResetTrans
  <1> HIDE DEF Q
  <1>14. Reset(Q, SetFlag(Q, e, "ENTRY_CACHABLE"), e)
    BY <1>3, <1>13, ResetIs, FlagReset
  <1>15. Reset(S, T, e)
    BY <1>13, <1>14, ResetTrans
  <1>. QED
    BY <1>1, <1>15

LEMMA ReforwardHeads ==
  ASSUME NEW S, NEW e \in Entries, Waiting(S, e), S.status[e] = "STORE_PENDING",
         "ENTRY_ABORTED" \notin S.flags[e]
  PROVE  Heads(S, Reforward(S, e), e)
  <1> DEFINE T == Reforward(S, e)
  <1>1. /\ S \in Store /\ S.ok /\ Good(S, {}) /\ Loose(S, {}, e, {}) /\ S.key[e] # NoKey
        /\ Entry(S, e, {}) /\ S.filen[e] = -1 /\ S.swap[e] = "SWAPOUT_NONE" /\ S.lock[e] # {}
    BY WaitingIs
  <1>2. ~S.sio[e] /\ Late \notin S.lock[e]
    BY <1>1, HoldersDiffer DEF Entry, Shaped, HoldOK, Waiting
  <1>3. Reset(S, T, e)
    BY <1>1, <1>2, ReforwardReset
  <1>4. Good(T, {})
    BY <1>1, ReforwardStep, StepGood
  <1> HIDE DEF T
  <1>5. /\ Touches(S, T, e, {"key", "log", "flags"}) /\ T.log = S.log /\ T.key[e] # NoKey
        /\ "ENTRY_FWD_HDR_WAIT" \in T.flags[e] <=> "ENTRY_FWD_HDR_WAIT" \in S.flags[e]
        /\ "ENTRY_ABORTED" \in T.flags[e] <=> "ENTRY_ABORTED" \in S.flags[e]
        /\ "ENTRY_VALIDATED" \in T.flags[e] <=> "ENTRY_VALIDATED" \in S.flags[e]
    BY <1>3 DEF Reset, Lasting
  <1>6. /\ T.lock[e] = S.lock[e] /\ T.status[e] = S.status[e] /\ T.clients[e] = S.clients[e]
        /\ T.swap[e] = S.swap[e] /\ T.size = S.size /\ T.ok /\ Elsewhere(S, T, e)
    BY <1>1, <1>5 DEF Touches
  <1>7. Shaped(T, e, {})
    <2>1. Touches(S, T, e, {"key", "log", "flags", "size", "ok"})
      BY <1>5, TouchesMore
    <2>2. Shaped(S, e, {})
      BY <1>1 DEF Entry
    <2>. QED
      BY <1>1, <1>2, <1>5, <2>1, <2>2, FlagsShaped
  <1>8. LogOne(S, T, e) /\ SizeOne(S, T, e)
    BY <1>1, <1>5, <1>6 DEF LogOne, Logged, SizeOne, Stored
  <1>9. Loose(T, {}, e, {})
    BY <1>1, <1>4, <1>6, <1>7, <1>8, Change
  <1>10. LeakOK(T, e)
    BY <1>1, <1>6 DEF LeakOK
  <1>11. Stays(S, T, e)
    BY <1>5, <1>6 DEF Stays, Out
  <1>12. Apart(S, T, e)
    BY <1>6, ElsewhereApart
  <1>. QED
    BY <1>9, <1>10, <1>11, <1>12 DEF Heads, Fine, T

(* A file found on disk                                                      *)
Restored(S, T, e, k, f, g, m) ==
    T = [S EXCEPT !.key[e] = k, !.filen[e] = f, !.swap[e] = "SWAPOUT_DONE",
                  !.flags[e] = g, !.map = m]
LEMMA RestoredTouches ==
  ASSUME NEW S \in Store, NEW e \in Entries, NEW T, NEW k, k \in Keys,
         NEW f, f \in Files, NEW g, g \subseteq Flags, NEW m, m \subseteq Files,
         Restored(S, T, e, k, f, g, m)
  PROVE  /\ Touches(S, T, e, {"key", "filen", "swap", "flags"})
         /\ T.key[e] = k /\ T.filen[e] = f /\ T.swap[e] = "SWAPOUT_DONE" /\ T.flags[e] = g
  <1>1. T \in Store
    BY DEF Store, Restored
  <1>2. /\ T.url = S.url /\ T.lock = S.lock /\ T.status = S.status /\ T.mem = S.mem
        /\ T.sio = S.sio /\ T.clients = S.clients /\ T.abort = S.abort /\ T.log = S.log
        /\ T.late = S.late /\ T.size = S.size /\ T.rebuild = S.rebuild /\ T.ok = S.ok
    BY DEF Store, Restored
  <1>3. /\ T.key = [S.key EXCEPT ![e] = k] /\ T.filen = [S.filen EXCEPT ![e] = f]
        /\ T.swap = [S.swap EXCEPT ![e] = "SWAPOUT_DONE"]
        /\ T.flags = [S.flags EXCEPT ![e] = g]
    BY DEF Store, Restored
  <1>4. /\ S.key \in [Entries -> Keys \cup {Private, NoKey}]
        /\ S.filen \in [Entries -> Files \cup {-1}]
        /\ S.swap \in [Entries -> {"SWAPOUT_NONE", "SWAPOUT_WRITING", "SWAPOUT_DONE"}]
        /\ S.flags \in [Entries -> SUBSET Flags]
    BY DEF Store
  <1>6. /\ T.key[e] = k /\ T.filen[e] = f /\ T.swap[e] = "SWAPOUT_DONE" /\ T.flags[e] = g
    BY <1>3, <1>4
  <1>7. \A x \in Entries \ {e} :
           /\ T.key[x] = S.key[x] /\ T.filen[x] = S.filen[x] /\ T.swap[x] = S.swap[x]
           /\ T.flags[x] = S.flags[x]
    BY <1>3, <1>4
  <1>8. Elsewhere(S, T, e)
    BY <1>1, <1>2, <1>7 DEF Elsewhere, SameEntry
  <1>9. Touches(S, T, e, {"key", "filen", "swap", "flags"})
    BY <1>2, <1>8 DEF Touches
  <1>. QED
    BY <1>6, <1>9

(* An entry without memory object that a request found gets one.             *)
Recalled(S, T, e, k) == T = [S EXCEPT !.mem[e] = "NOT_IN_MEMORY", !.url[e] = k]
LEMMA RecalledTouches ==
  ASSUME NEW S \in Store, NEW e \in Entries, NEW T, NEW k \in Keys, Recalled(S, T, e, k)
  PROVE  /\ Touches(S, T, e, {"mem", "url"})
         /\ T.mem[e] = "NOT_IN_MEMORY" /\ T.url[e] = k
  <1>1. T \in Store
    BY DEF Store, Recalled
  <1>2. /\ T.key = S.key /\ T.lock = S.lock /\ T.flags = S.flags /\ T.status = S.status
        /\ T.swap = S.swap /\ T.filen = S.filen /\ T.sio = S.sio /\ T.clients = S.clients
        /\ T.abort = S.abort /\ T.log = S.log /\ T.late = S.late /\ T.size = S.size
        /\ T.rebuild = S.rebuild /\ T.ok = S.ok
    BY DEF Store, Recalled
  <1>3. /\ T.mem = [S.mem EXCEPT ![e] = "NOT_IN_MEMORY"] /\ T.url = [S.url EXCEPT ![e] = k]
    BY DEF Store, Recalled
  <1>4. /\ S.mem \in [Entries -> {"NULL", "NOT_IN_MEMORY", "IN_MEMORY"}]
        /\ S.url \in [Entries -> Keys \cup {NoKey}]
    BY DEF Store
  <1>6. /\ T.mem[e] = "NOT_IN_MEMORY" /\ T.url[e] = k
    BY <1>3, <1>4
  <1>7. \A x \in Entries \ {e} :
           /\ T.mem[x] = S.mem[x] /\ T.url[x] = S.url[x]
    BY <1>3, <1>4
  <1>8. Elsewhere(S, T, e)
    BY <1>1, <1>2, <1>7 DEF Elsewhere, SameEntry
  <1>9. Touches(S, T, e, {"mem", "url"})
    BY <1>2, <1>8 DEF Touches
  <1>. QED
    BY <1>6, <1>9

(* The index is rebuilt: an entry for a file nobody owns, under a key nobody *)
(* has.                                                                      *)
LEMMA AddDiskRestoreWhole ==
  ASSUME NEW S, Whole(S, {}), NEW e \in Entries, S.key[e] = NoKey, NEW k \in Keys, NEW f \in Files,
         f \notin S.map, \A x \in Entries : S.key[x] # k
  PROVE  LET T == storeUfsDirAddDiskRestore(S, e, k, f)
         IN  Whole(T, {}) /\ \A x \in Entries : Kept(S, T, x)
  <1> DEFINE g == {"ENTRY_CACHABLE"}
             m == S.map \cup {f}
             D == [S EXCEPT !.key[e] = k, !.filen[e] = f, !.swap[e] = "SWAPOUT_DONE",
                            !.flags[e] = g, !.map = m]
             T == storeDirSwapLog(D, e, "ADD")
  <1>1. S \in Store /\ S.ok /\ Good(S, {}) /\ Entry(S, e, {})
    BY DEF Whole, Good, Raw
  <1>2. g \subseteq Flags /\ m \subseteq Files /\ f # -1
    BY <1>1, FilesAssumption DEF Flags, Store
  <1>3. T = storeUfsDirAddDiskRestore(S, e, k, f)
    BY <1>1 DEF storeUfsDirAddDiskRestore, Store
  <1>4. Good(T, {})
    <2> HIDE DEF T
    <2>. QED
      BY <1>1, <1>3, AddDiskRestoreGood
  <1>5. Restored(S, D, e, k, f, g, m)
    BY DEF Restored
  <1> HIDE DEF D, g, m
  <1>6. /\ Touches(S, D, e, {"key", "filen", "swap", "flags"})
        /\ D.key[e] = k /\ D.filen[e] = f /\ D.swap[e] = "SWAPOUT_DONE" /\ D.flags[e] = g
    BY <1>1, <1>2, <1>5, RestoredTouches
  <1>7. D \in Store /\ D.ok /\ D.log = S.log
    BY <1>1, <1>6 DEF Touches, Elsewhere
  <1>8. Touches(D, T, e, {"log"}) /\ T.log = D.log \cup {<<D.key[e], D.filen[e]>>}
    BY <1>2, <1>6, <1>7, SwapLogOn
  <1> HIDE DEF T
  <1>9. Touches(S, T, e, {"key", "filen", "swap", "flags"} \cup {"log"})
    BY <1>6, <1>8, TouchesTrans
  <1>10. /\ T.url[e] = S.url[e] /\ T.lock[e] = S.lock[e] /\ T.status[e] = S.status[e]
         /\ T.mem[e] = S.mem[e] /\ T.sio[e] = S.sio[e] /\ T.clients[e] = S.clients[e]
         /\ T.abort[e] = S.abort[e] /\ (e \in T.late <=> e \in S.late)
         /\ T.size = S.size /\ T.ok /\ Elsewhere(S, T, e)
    BY <1>1, <1>9 DEF Touches
  <1>11. /\ T.key[e] = k /\ T.filen[e] = f /\ T.swap[e] = "SWAPOUT_DONE" /\ T.flags[e] = g
         /\ T.log = S.log \cup {<<T.key[e], T.filen[e]>>}
    BY <1>6, <1>7, <1>8 DEF Touches
  <1>12. /\ S.lock[e] = {} /\ S.status[e] = "STORE_OK" /\ S.mem[e] = "NULL" /\ S.filen[e] = -1
         /\ S.swap[e] = "SWAPOUT_NONE"
    BY <1>1 DEF Entry, Shaped, FreeOK, SwapOK
  <1>13. LogOne(S, T, e)
    BY <1>11, <1>12 DEF LogOne, Logged
  <1>14. SizeOne(S, T, e)
    BY <1>10, <1>11, <1>12 DEF SizeOne, Stored, g
  <1>15. Entry(T, e, {})
    <2>1. FreeOK(T, e) /\ MemOK(T, e)
      BY <1>10, <1>11, <1>12, KeysAssumption DEF FreeOK, MemOK
    <2>2. HoldOK(T, e, {})
      BY <1>1, <1>10, <1>11, <1>12 DEF Entry, Shaped, HoldOK
    <2>3. SwapOK(T, e) /\ AbortOK(T, e) /\ LeakOK(T, e)
      BY <1>2, <1>10, <1>11, <1>12 DEF SwapOK, AbortOK, LeakOK, g
    <2>. QED
      BY <2>1, <2>2, <2>3 DEF Entry, Shaped
  <1>16. Whole(T, {})
    BY <1>1, <1>4, <1>10, <1>13, <1>14, <1>15, WholeChange
  <1>17. Kept(S, T, e)
    BY <1>10, <1>12 DEF Kept, Out
  <1>18. Apart(S, T, e)
    BY <1>10, ElsewhereApart
  <1>. QED
    BY <1>3, <1>16, <1>17, <1>18 DEF Apart

(* What a release of a found entry leaves.                                   *)
LEMMA ReleaseWhole ==
  ASSUME NEW S, Whole(S, {}), NEW e \in Entries, S.key[e] # NoKey
  PROVE  LET T == storeRelease(S, e)
         IN  Whole(T, {}) /\ \A x \in Entries : Kept(S, T, x)
  <1> DEFINE T == storeRelease(S, e)
  <1>1. Entry(S, e, {})
    BY DEF Whole, Raw
  <1>2. Fine(S, {}, e, {})
    BY <1>1, WholeFine
  <1>3. Loose(S, {}, e, {}) /\ (S.lock[e] = {} => S.status[e] = "STORE_OK")
    BY <1>2 DEF Fine, LeakOK
  <1>4. Fine(T, {}, e, {}) /\ Acts(S, T, e, {})
    BY <1>3, storeReleaseFine
  <1> HIDE DEF T
  <1>5. Whole(T, {})
    BY <1>4, FineWhole
  <1>6. \A x \in Entries : Kept(S, T, x)
    BY <1>4, ActsKept
  <1>. QED
    BY <1>5, <1>6 DEF T

(* An entry of the rebuild is validated and counted.                         *)
LEMMA ValidatedFine ==
  ASSUME NEW S, Whole(S, {}), NEW e \in Entries, e \in Unvalidated(S)
  PROVE  LET T == [SetFlag(S, e, "ENTRY_VALIDATED") EXCEPT !.size = @ + 1]
         IN  Whole(T, {}) /\ T.key[e] # NoKey /\ \A x \in Entries : Kept(S, T, x)
  <1> DEFINE G == SetFlag(S, e, "ENTRY_VALIDATED")
             n == G.size + 1
             T == [G EXCEPT !.size = n]
  <1>1. S \in Store /\ S.ok /\ Good(S, {}) /\ Entry(S, e, {})
    BY DEF Whole, Good, Raw
  <1>2. S.key[e] # NoKey /\ S.filen[e] # -1 /\ "ENTRY_VALIDATED" \notin S.flags[e]
    BY DEF Unvalidated, Live, Has
  <1>3. S.swap[e] = "SWAPOUT_DONE"
    BY <1>1, <1>2 DEF Entry, Shaped, SwapOK
  <1>4. "ENTRY_VALIDATED" \in Flags
    BY DEF Flags
  <1>5. Touches(S, G, e, {"flags"}) /\ G.flags[e] = S.flags[e] \cup {"ENTRY_VALIDATED"}
    BY <1>1, <1>4, FlagTouches
  <1>6. Step(S, G, {})
    BY <1>1, <1>4, FlagStep
  <1> HIDE DEF G
  <1>7. G \in Store /\ G.size = S.size
    BY <1>5 DEF Touches, Elsewhere
  <1>8. n \in Int
    BY <1>7 DEF Store
  <1>9. Quiet(G, T)
    BY <1>7, <1>8 DEF Quiet, Store
  <1>10. Good(T, {})
    BY <1>6, <1>9, StepGood, QuietStep
  <1> HIDE DEF n
  <1>11. Touches(G, T, e, {"size"}) /\ T.size = n
    BY <1>7, <1>8, PutSize
  <1> HIDE DEF T
  <1>12. Touches(S, T, e, {"flags"} \cup {"size"})
    BY <1>5, <1>11, TouchesTrans
  <1>13. /\ T.flags[e] = S.flags[e] \cup {"ENTRY_VALIDATED"} /\ T.size = S.size + 1
    BY <1>5, <1>7, <1>11 DEF Touches, n
  <1>14. /\ T.key[e] = S.key[e] /\ T.swap[e] = S.swap[e] /\ T.lock[e] = S.lock[e] /\ T.ok
         /\ T.filen[e] = S.filen[e] /\ T.log = S.log /\ T.clients[e] = S.clients[e]
         /\ T.status[e] = S.status[e] /\ Elsewhere(S, T, e)
    BY <1>1, <1>12 DEF Touches
  <1>15. Shaped(T, e, {})
    <2>1. Touches(S, T, e, {"key", "log", "flags", "size", "ok"})
      BY <1>12, TouchesMore
    <2>2. Shaped(S, e, {}) /\ ("ENTRY_ABORTED" \in S.flags[e] => "RELEASE_REQUEST" \in S.flags[e])
      BY <1>1 DEF Entry, Shaped, AbortOK
    <2>. QED
      BY <1>2, <1>3, <1>13, <1>14, <2>1, <2>2, FlagsShaped
  <1>16. LeakOK(T, e)
    BY <1>1, <1>12, <1>13 DEF Touches, Entry, LeakOK
  <1>17. LogOne(S, T, e) /\ SizeOne(S, T, e)
    BY <1>2, <1>3, <1>13, <1>14 DEF LogOne, Logged, SizeOne, Stored
  <1>18. Whole(T, {})
    BY <1>1, <1>10, <1>14, <1>15, <1>16, <1>17, WholeChange DEF Entry
  <1>19. Acts(S, T, e, {})
    BY <1>12, <1>13, <1>14, TouchesActs
  <1>20. \A x \in Entries : Kept(S, T, x)
    BY <1>19, ActsKept
  <1>21. T = [SetFlag(S, e, "ENTRY_VALIDATED") EXCEPT !.size = @ + 1]
    BY <1>7 DEF T, n, G, Store
  <1>. QED
    BY <1>2, <1>14, <1>18, <1>20, <1>21

(* An entry leaves the late-release stack, and its lock is dropped.          *)
LEMMA LateReleasedWhole ==
  ASSUME NEW S, Whole(S, {}), NEW e \in Entries, e \in S.late, NEW keep
  PROVE  LET T == storeUnlockObject([S EXCEPT !.late = @ \ {e}], e, Late, keep)
         IN  Whole(T, {}) /\ \A x \in Entries : Kept(S, T, x)
  <1> DEFINE L == [S EXCEPT !.late = @ \ {e}]
             T == storeUnlockObject(L, e, Late, keep)
  <1>1. S \in Store /\ S.ok /\ Good(S, {}) /\ Entry(S, e, {})
    BY DEF Whole, Good, Raw
  <1>2. /\ L \in Store /\ L.key = S.key /\ L.url = S.url /\ L.lock = S.lock /\ L.flags = S.flags
        /\ L.status = S.status /\ L.swap = S.swap /\ L.filen = S.filen /\ L.mem = S.mem
        /\ L.sio = S.sio /\ L.clients = S.clients /\ L.abort = S.abort /\ L.map = S.map
        /\ L.log = S.log /\ L.size = S.size /\ L.rebuild = S.rebuild /\ L.ok = S.ok
        /\ L.late = S.late \ {e}
    BY <1>1 DEF Store
  <1> HIDE DEF L
  <1>3. Elsewhere(S, L, e)
    BY <1>2 DEF Elsewhere, SameEntry
  <1>4. Touches(S, L, e, {"late"})
    BY <1>2, <1>3 DEF Touches
  <1>5. Good(L, {})
    <2>1. Quiet(S, L)
      BY <1>2 DEF Quiet
    <2>. QED
      BY <1>1, <2>1, QuietStep, StepGood
  <1>6. Loose(S, {}, e, {}) /\ Late \in S.lock[e] /\ LeakOK(S, e)
    BY <1>1, WholeFine DEF Fine, Entry, Shaped, HoldOK
  <1>7. Shaped(L, e, {Late})
    <2>1. FreeOK(L, e) /\ MemOK(L, e) /\ SwapOK(L, e) /\ AbortOK(L, e)
      BY <1>1, <1>2 DEF Entry, Shaped, FreeOK, MemOK, SwapOK, AbortOK
    <2>2. S.lock[e] = {Late} /\ "RELEASE_REQUEST" \in S.flags[e]
      BY <1>1, <1>6 DEF Entry, Shaped, HoldOK
    <2>3. HoldOK(L, e, {Late})
      BY <1>1, <1>2, <2>2, HoldersDiffer DEF Entry, Shaped, HoldOK
    <2>. QED
      BY <2>1, <2>3 DEF Shaped
  <1>8. LogOne(S, L, e) /\ SizeOne(S, L, e)
    BY <1>2 DEF LogOne, Logged, SizeOne, Stored
  <1>9. Loose(L, {}, e, {Late})
    BY <1>1, <1>2, <1>3, <1>5, <1>6, <1>7, <1>8, Change
  <1>10. Fine(T, {}, e, {}) /\ Acts(L, T, e, {Late})
    <2>1. Late # F /\ Safe(L, {}, e) /\ {} \cup {Late} = {Late}
      BY HoldersDiffer DEF Safe
    <2>2. Loose(L, {}, e, {} \cup {Late})
      BY <1>9, <2>1
    <2>. QED
      BY <2>1, <2>2, storeUnlockObjectFine
  <1> HIDE DEF T
  <1>11. Acts(S, L, e, {})
    BY <1>2, <1>4, TouchesActs
  <1>12. Acts(S, T, e, {Late})
    BY <1>10, <1>11, ActsThen
  <1>13. Acts(S, T, e, {})
    BY <1>12 DEF Acts, Out
  <1>14. Whole(T, {}) /\ \A x \in Entries : Kept(S, T, x)
    BY <1>10, <1>13, FineWhole, ActsKept
  <1>. QED
    BY <1>14 DEF T, L

(* The phases of the rebuild                                                 *)
LEMMA PhaseWhole ==
  ASSUME NEW S, Whole(S, {}), NEW r \in {"reading", "validating", "done"}
  PROVE  LET T == [S EXCEPT !.rebuild = r]
         IN  Whole(T, {}) /\ \A x \in Entries : Kept(S, T, x)
  <1> DEFINE T == [S EXCEPT !.rebuild = r]
  <1>1. S \in Store /\ S.ok /\ Good(S, {})
    BY DEF Whole, Good
  <1>2. /\ T \in Store /\ T.key = S.key /\ T.url = S.url /\ T.lock = S.lock /\ T.flags = S.flags
        /\ T.status = S.status /\ T.swap = S.swap /\ T.filen = S.filen /\ T.mem = S.mem
        /\ T.sio = S.sio /\ T.clients = S.clients /\ T.abort = S.abort /\ T.map = S.map
        /\ T.log = S.log /\ T.size = S.size /\ T.late = S.late /\ T.ok = S.ok
    BY <1>1 DEF Store
  <1> HIDE DEF T
  <1>3. \A x : SameEntry(S, T, x)
    BY <1>2 DEF SameEntry
  <1>4. Good(T, {})
    <2>1. Quiet(S, T)
      BY <1>2 DEF Quiet
    <2>. QED
      BY <1>1, <2>1, QuietStep, StepGood
  <1>5. LogExact(T)
    <2>1. LogExact(S)
      BY DEF Whole
    <2>. QED
      BY <1>2, <2>1 DEF LogExact, Logged
  <1>6. SizeIs(T)
    <2>1. SizeIs(S)
      BY DEF Whole
    <2>. QED
      BY <1>2, <2>1 DEF SizeIs, Stored
  <1>7. \A x \in Entries : Entry(T, x, {})
    BY <1>3, SameStays DEF Whole, Raw
  <1>8. Whole(T, {}) /\ \A x \in Entries : Kept(S, T, x)
    BY <1>2, <1>3, <1>4, <1>5, <1>6, <1>7, <1>1, SameKept DEF Whole
  <1>. QED
    BY <1>8 DEF T

(* A hit: the entry is locked for the request, and what was not in memory    *)
(* gets a memory object.                                                     *)
Recall(S, e, c, k) ==
    LET L == storeLockObject(S, e, HttpLock(c))
    IN  IF L.mem[e] = "NULL" THEN [L EXCEPT !.mem[e] = "NOT_IN_MEMORY", !.url[e] = k] ELSE L

(* The request holds the entry, of which nothing else changes that the       *)
(* server side depends on.                                                   *)
Taken(S, T, e, c) ==
    /\ Elsewhere(S, T, e) /\ T.lock[e] = S.lock[e] \cup {HttpLock(c)}
    /\ T.status[e] = S.status[e] /\ T.flags[e] = S.flags[e] /\ T.clients[e] = S.clients[e]
    /\ T.key[e] = S.key[e]

LEMMA RecallFine ==
  ASSUME NEW S, NEW e \in Entries, Fine(S, {}, e, {}), NEW c \in Clients, NEW k \in Keys,
         S.key[e] = k, "RELEASE_REQUEST" \notin S.flags[e], HttpLock(c) \notin S.lock[e]
  PROVE  LET T == Recall(S, e, c, k) IN Fine(T, {}, e, {}) /\ Taken(S, T, e, c)
  <1> DEFINE h == HttpLock(c)
             L == storeLockObject(S, e, h)
             T == Recall(S, e, c, k)
  <1>1. /\ S \in Store /\ S.ok /\ Good(S, {}) /\ Loose(S, {}, e, {}) /\ LeakOK(S, e)
        /\ Shaped(S, e, {}) /\ S.key[e] # NoKey
    BY KeysAssumption DEF Fine, Loose, Good
  <1>2. h \in Foreign /\ h \in Holders /\ Late \notin S.lock[e]
    BY <1>1 DEF Foreign, Holders, Shaped, HoldOK
  <1>3. Touches(S, L, e, {"lock"}) /\ L.lock[e] = S.lock[e] \cup {h}
    BY <1>1, <1>2, LockTouches
  <1>4. L \in Store /\ L.mem[e] = S.mem[e] /\ L.ok
    BY <1>1, <1>3 DEF Touches, Elsewhere
  <1>5. CASE S.mem[e] # "NULL"
    <2>1. Fine(L, {}, e, {})
      <3> HIDE DEF h
      <3>. QED
        BY <1>1, <1>2, <1>5, LockFine DEF h
    <2>2. T = L
      BY <1>4, <1>5 DEF Recall
    <2>3. Taken(S, L, e, c)
      BY <1>3 DEF Touches, Taken
    <2>. QED
      BY <2>1, <2>2, <2>3
  <1>6. CASE S.mem[e] = "NULL"
    <2>1. Recalled(L, T, e, k)
      BY <1>4, <1>6 DEF Recall, Recalled
    <2>2. Good(L, {})
      <3>1. h # F
        BY <1>2, ForeignDiffer
      <3> HIDE DEF h
      <3>. QED
        BY <1>1, <1>2, <3>1, storeLockObjectStep, StepGood
    <2> HIDE DEF T, L
    <2>3. Touches(L, T, e, {"mem", "url"}) /\ T.mem[e] = "NOT_IN_MEMORY" /\ T.url[e] = k
      BY <1>4, <2>1, RecalledTouches
    <2>4. Good(T, {})
      <3>1. T \in Store
        BY <2>3 DEF Touches, Elsewhere
      <3>2. Quiet(L, T)
        BY <1>4, <2>1, <3>1 DEF Quiet, Recalled, Store
      <3>. QED
        BY <2>2, <3>2, QuietStep, StepGood
    <2>5. Touches(S, T, e, {"lock"} \cup {"mem", "url"})
      BY <1>3, <2>3, TouchesTrans
    <2>6. /\ T.key[e] = S.key[e] /\ T.flags[e] = S.flags[e] /\ T.status[e] = S.status[e]
          /\ T.swap[e] = S.swap[e] /\ T.filen[e] = S.filen[e] /\ T.sio[e] = S.sio[e]
          /\ T.clients[e] = S.clients[e] /\ T.abort[e] = S.abort[e]
          /\ (e \in T.late <=> e \in S.late) /\ T.ok /\ Elsewhere(S, T, e)
          /\ T.log = S.log /\ T.size = S.size
      BY <1>1, <2>5 DEF Touches
    <2>7. T.lock[e] = {h} /\ S.lock[e] = {}
      BY <1>1, <1>2, <1>3, <1>6, <2>3 DEF Shaped, MemOK, Touches
    <2>8. h # Swapout /\ h # Late /\ h # F /\ \A d \in Clients : h # ScLock(d)
      BY <1>2, ForeignDiffer
    <2>9. FreeOK(T, e) /\ MemOK(T, e)
      BY <1>1, <2>3, <2>6, <2>7, <2>8 DEF FreeOK, MemOK
    <2>10. HoldOK(T, e, {})
      <3>1. HoldOK(S, e, {})
        BY <1>1 DEF Shaped
      <3>2. S.swap[e] # "SWAPOUT_WRITING" /\ e \notin S.late /\ S.abort[e] = "unset" /\ ~S.sio[e]
        <4>1. S.abort[e] \in {"unset", "set", "queued"}
          BY <1>1 DEF Store
        <4>. QED
          BY <2>7, <3>1, <4>1 DEF HoldOK
      <3>3. S.clients[e] = {}
        <4>1. S.clients[e] \subseteq Clients
          BY <1>1 DEF Store
        <4>. QED
          BY <2>7, <3>1, <4>1 DEF HoldOK
      <3>. QED
        BY <2>6, <2>7, <2>8, <3>2, <3>3 DEF HoldOK
    <2>11. SwapOK(T, e) /\ AbortOK(T, e) /\ LeakOK(T, e)
      BY <1>1, <2>6, <2>7 DEF Shaped, SwapOK, AbortOK, LeakOK
    <2>12. LogOne(S, T, e) /\ SizeOne(S, T, e)
      BY <2>6 DEF LogOne, SizeOne, Logged, Stored
    <2>13. Shaped(T, e, {})
      BY <2>9, <2>10, <2>11 DEF Shaped
    <2>14. Loose(T, {}, e, {})
      BY <1>1, <2>4, <2>6, <2>12, <2>13, Change
    <2>15. Taken(S, T, e, c)
      BY <2>6, <2>7 DEF Taken, h
    <2>16. Fine(T, {}, e, {})
      BY <2>11, <2>14 DEF Fine
    <2>. QED
      BY <2>15, <2>16 DEF T
  <1>. QED
    BY <1>5, <1>6

Joined(S, T, e, c) ==
    /\ Elsewhere(S, T, e) /\ Out(T, e) = Out(S, e) \cup {HttpLock(c), ScLock(c)}
    /\ T.status[e] = S.status[e] /\ T.flags[e] = S.flags[e] /\ T.key[e] = S.key[e]

LEMMA HitFine ==
  ASSUME NEW S, NEW e \in Entries, Fine(S, {}, e, {}), NEW c \in Clients, NEW k \in Keys,
         S.key[e] = k, "RELEASE_REQUEST" \notin S.flags[e], HttpLock(c) \notin S.lock[e],
         "ENTRY_ABORTED" \notin S.flags[e]
  PROVE  LET T == storeClientRegister(Recall(S, e, c, k), e, c)
         IN  Fine(T, {}, e, {}) /\ Joined(S, T, e, c)
  <1> DEFINE R == Recall(S, e, c, k)
             T == storeClientRegister(R, e, c)
  <1>1. Fine(R, {}, e, {}) /\ Taken(S, R, e, c)
    BY RecallFine
  <1> HIDE DEF R
  <1>2. c \notin S.clients[e]
    BY DEF Fine, Loose, Shaped, HoldOK
  <1>3. HttpLock(c) \in R.lock[e] /\ c \notin R.clients[e] /\ "ENTRY_ABORTED" \notin R.flags[e]
    BY <1>1, <1>2 DEF Taken
  <1>4. /\ Fine(T, {}, e, {}) /\ Touches(R, T, e, {"lock", "clients"})
        /\ T.lock[e] = R.lock[e] \cup {ScLock(c)}
    BY <1>1, <1>3, storeClientRegisterFine
  <1> HIDE DEF T
  <1>5. Elsewhere(S, T, e)
    BY <1>1, <1>4 DEF Taken, Touches, Elsewhere, SameEntry
  <1>6. Out(T, e) = Out(S, e) \cup {HttpLock(c), ScLock(c)}
    BY <1>1, <1>4, HoldersDiffer DEF Taken, Out
  <1>7. T.status[e] = S.status[e] /\ T.flags[e] = S.flags[e] /\ T.key[e] = S.key[e]
    BY <1>1, <1>4 DEF Taken, Touches
  <1>. QED
    BY <1>4, <1>5, <1>6, <1>7 DEF T, R, Joined
-----------------------------------------------------------------------------
(***************************************************************************)
(* The inductive invariant: what the requests and the server sides refer    *)
(* to is what is locked for them, and an entry that is being fetched is     *)
(* pending until it is aborted, which takes that no client is left.         *)
(***************************************************************************)
Requests(S, h, x) ==
    \A c \in Clients : /\ HttpLock(c) \in Out(S, x) <=> h[c] = x
                       /\ ScLock(c) \in Out(S, x) <=> h[c] = x
Servers(S, f, x) ==
    /\ F \in Out(S, x) <=> f[x] # "none"
    /\ ServerLock \in Out(S, x) <=> f[x] \in {"sent", "body"}
    /\ AbortLock \notin Out(S, x) /\ ErrorLock \notin Out(S, x)
Fetched(S, f, x) ==
    /\ f[x] # "none" /\ "ENTRY_ABORTED" \notin S.flags[x] => S.status[x] = "STORE_PENDING"
    /\ f[x] \in {"connect", "sent"} => "ENTRY_FWD_HDR_WAIT" \in S.flags[x]
    /\ f[x] # "none" /\ S.status[x] = "STORE_OK" => S.clients[x] = {}
Linked(S, h, f, x) == Requests(S, h, x) /\ Servers(S, f, x) /\ Fetched(S, f, x)

Refd == Whole(st, {}) /\ \A x \in Entries : Linked(st, http, fwd, x)
StoreInv == IndInv /\ Refd

(* What a step keeps of an entry nobody takes or leaves stays linked.        *)
LEMMA KeptLinked ==
  ASSUME NEW S, NEW T, NEW h, NEW f, NEW h2, NEW f2, NEW x, Linked(S, h, f, x), Kept(S, T, x),
         f2[x] = f[x], \A c \in Clients : h2[c] = x <=> h[c] = x
  PROVE  Linked(T, h2, f2, x)
  <1>1. Requests(T, h2, x)
    BY DEF Linked, Requests, Kept
  <1>2. Servers(T, f2, x)
    BY DEF Linked, Servers, Kept
  <1>3. f2[x] # "none" => F \in T.lock[x]
    BY <1>2 DEF Servers, Out
  <1>4. Fetched(T, f2, x)
    BY <1>3 DEF Linked, Fetched, Kept, Fate
  <1>. QED
    BY <1>1, <1>2, <1>4 DEF Linked

LEMMA KeptRefd ==
  ASSUME StoreInv, Whole(st', {}), \A x \in Entries : Kept(st, st', x), UNCHANGED <<http, fwd>>
  PROVE  Refd'
  <1>1. ASSUME NEW x \in Entries PROVE Linked(st', http', fwd', x)
    BY <1>1, KeptLinked DEF StoreInv, Refd
  <1>. QED
    BY <1>1 DEF Refd

LEMMA AtOne ==
  ASSUME StoreInv, NEW e \in Entries, Whole(st', {}), Apart(st, st', e),
         \A x \in Entries \ {e} : /\ fwd'[x] = fwd[x]
                                  /\ \A c \in Clients : http'[c] = x <=> http[c] = x,
         Linked(st', http', fwd', e)
  PROVE  Refd'
  <1>1. ASSUME NEW x \in Entries PROVE Linked(st', http', fwd', x)
    <2>1. CASE x = e
      BY <2>1
    <2>2. CASE x # e
      <3>1. Linked(st, http, fwd, x) /\ Kept(st, st', x)
        BY <2>2 DEF StoreInv, Refd, Apart
      <3>. QED
        BY <2>2, <3>1, KeptLinked
    <2>. QED
      BY <2>1, <2>2
  <1>. QED
    BY <1>1 DEF Refd

LEMMA HereFine ==
  ASSUME StoreInv, NEW e \in Entries
  PROVE  /\ Fine(st, {}, e, {}) /\ Whole(st, {}) /\ Linked(st, http, fwd, e)
         /\ st \in Store /\ st.ok /\ AbortLock \notin st.lock[e] /\ ErrorLock \notin st.lock[e]
         /\ F \in st.lock[e] <=> fwd[e] # "none"
         /\ ServerLock \in st.lock[e] <=> fwd[e] \in {"sent", "body"}
  <1>1. Entry(st, e, {}) /\ Whole(st, {}) /\ Linked(st, http, fwd, e) /\ st \in Store /\ st.ok
    BY DEF StoreInv, Refd, Whole, Raw, Good
  <1>2. Fine(st, {}, e, {})
    BY <1>1, WholeFine
  <1>3. \A y \in {AbortLock, ErrorLock, ServerLock, F} : y \in st.lock[e] <=> y \in Out(st, e)
    BY HoldersDiffer DEF Out, AbortLock, ErrorLock, ServerLock
  <1>. QED
    BY <1>1, <1>2, <1>3 DEF Linked, Servers

(* A client the callback drops, if any: its references leave the entry.      *)
Drops(h, h2, gone) == h2 = IF gone = Null THEN h ELSE [h EXCEPT ![gone] = Null]
OthersStay(h, h2, e) == \A x \in Entries \ {e} : \A c \in Clients : h2[c] = x <=> h[c] = x

LEMMA GoneRequests ==
  ASSUME NEW S, NEW e \in Entries, Fine(S, {}, e, {}), NEW h \in [Clients -> Entries \cup {Null}],
         Requests(S, h, e), NEW gone, gone \in S.clients[e] \cup {Null},
         NEW T, NEW G, Out(T, e) = Out(S, e) \ (Leaving(S, e, gone) \cup G),
         \A c \in Clients : HttpLock(c) \notin G /\ ScLock(c) \notin G,
         NEW h2, Drops(h, h2, gone)
  PROVE  Requests(T, h2, e) /\ OthersStay(h, h2, e)
  <1>1. S.clients[e] \subseteq Clients /\ Null \notin Clients /\ Null # e
    BY NullAssumption DEF Fine, Loose, Good, Store
  <1>2. CASE gone = Null
    <2>1. Leaving(S, e, gone) = {} /\ h2 = h
      BY <1>1, <1>2 DEF Leaving, Drops
    <2>. QED
      BY <2>1 DEF Requests, OthersStay
  <1>3. CASE gone # Null
    <2>1. gone \in Clients /\ gone \in S.clients[e] /\ h2 = [h EXCEPT ![gone] = Null]
      BY <1>1, <1>3 DEF Drops
    <2>2. Leaving(S, e, gone) = {ScLock(gone), HttpLock(gone)}
      BY <2>1 DEF Leaving
    <2>3. ScLock(gone) \in S.lock[e]
      BY <2>1 DEF Fine, Loose, Shaped, HoldOK
    <2>4. h[gone] = e
      BY <2>1, <2>3, HoldersDiffer DEF Requests, Out
    <2>5. h2[gone] = Null /\ \A c \in Clients \ {gone} : h2[c] = h[c]
      BY <2>1
    <2>6. ASSUME NEW c \in Clients
          PROVE  /\ HttpLock(c) \in Out(T, e) <=> h2[c] = e
                 /\ ScLock(c) \in Out(T, e) <=> h2[c] = e
      <3>1. CASE c = gone
        BY <1>1, <2>2, <2>5, <3>1
      <3>2. CASE c # gone
        <4>1. HttpLock(c) \notin Leaving(S, e, gone) /\ ScLock(c) \notin Leaving(S, e, gone)
          BY <2>1, <2>2, <3>2, HoldersDiffer
        <4>2. h2[c] = h[c]
          BY <2>5, <3>2
        <4>. QED
          BY <4>1, <4>2 DEF Requests
      <3>. QED
        BY <3>1, <3>2
    <2>7. OthersStay(h, h2, e)
      BY <2>4, <2>5, NullAssumption DEF OthersStay
    <2>. QED
      BY <2>6, <2>7 DEF Requests
  <1>. QED
    BY <1>2, <1>3

LEMMA GoneServers ==
  ASSUME NEW S, NEW e \in Entries, S \in Store, NEW gone, NEW T, NEW G,
         Out(T, e) = Out(S, e) \ (Leaving(S, e, gone) \cup G)
  PROVE  \A y \in {F, ServerLock, AbortLock, ErrorLock} \ G : y \in Out(T, e) <=> y \in Out(S, e)
  <1>1. S.clients[e] \subseteq Clients
    BY DEF Store
  <1>2. \A y \in {F, ServerLock, AbortLock, ErrorLock} : y \notin Leaving(S, e, gone)
    BY <1>1, HoldersDiffer DEF Leaving, F, ServerLock, AbortLock, ErrorLock, Roles
  <1>. QED
    BY <1>2
-----------------------------------------------------------------------------
(* The actions that take no reference and leave none.                        *)
LEMMA PurgeRefd ==
  ASSUME StoreInv, NEW k \in Keys, Purge(k)
  PROVE  Refd'
  <1>1. PICK e \in Entries : st.key[e] = k /\ st' = storeRelease(st, e) /\ UNCHANGED <<http, fwd>>
    BY DEF Purge
  <1>2. Whole(st, {}) /\ st.key[e] # NoKey
    BY <1>1, KeysAssumption DEF StoreInv, Refd
  <1>3. Whole(st', {}) /\ \A x \in Entries : Kept(st, st', x)
    BY <1>1, <1>2, ReleaseWhole
  <1>. QED
    BY <1>1, <1>3, KeptRefd

LEMMA MaintainSwapSpaceRefd ==
  ASSUME StoreInv, NEW e \in Entries, MaintainSwapSpace(e)
  PROVE  Refd'
  <1>1. /\ st.key[e] # NoKey /\ st' = storeRelease(st, e) /\ UNCHANGED <<http, fwd>>
        /\ Whole(st, {})
    BY DEF MaintainSwapSpace, Live, StoreInv, Refd
  <1>2. Whole(st', {}) /\ \A x \in Entries : Kept(st, st', x)
    BY <1>1, ReleaseWhole
  <1>. QED
    BY <1>1, <1>2, KeptRefd

LEMMA PurgeMemRefd ==
  ASSUME StoreInv, NEW e \in Entries, PurgeMem(e)
  PROVE  Refd'
  <1>1. /\ st.mem[e] = "IN_MEMORY" /\ st.lock[e] = {} /\ st.status[e] # "STORE_PENDING"
        /\ st' = storePurgeMem(st, e) /\ UNCHANGED <<http, fwd>>
    BY DEF PurgeMem, storeEntryLocked
  <1>2. st \in Store /\ Fine(st, {}, e, {})
    BY HereFine
  <1>3. Loose(st, {}, e, {}) /\ LeakOK(st, e) /\ FreeOK(st, e)
    BY <1>2 DEF Fine, Loose, Shaped
  <1>4. st.status[e] = "STORE_OK" /\ "RELEASE_REQUEST" \notin st.flags[e]
    BY <1>1, <1>2, <1>3 DEF FreeOK, LeakOK, Store
  <1>5. Fine(st', {}, e, {}) /\ Acts(st, st', e, {})
    BY <1>1, <1>3, <1>4, storePurgeMemFine
  <1>6. Whole(st', {}) /\ \A x \in Entries : Kept(st, st', x)
    BY <1>5, FineWhole, ActsKept
  <1>. QED
    BY <1>1, <1>6, KeptRefd

LEMMA SwapFileClosedRefd ==
  ASSUME StoreInv, NEW e \in Entries, SwapFileClosed(e)
  PROVE  Refd'
  <1>1. PICK err \in BOOLEAN, fit \in BOOLEAN, keep \in Keep(e, Null) :
           /\ st.swap[e] = "SWAPOUT_WRITING" /\ UNCHANGED <<http, fwd>>
           /\ st' = storeSwapOutFileClosed(st, e, err, fit, keep)
    BY DEF SwapFileClosed
  <1>2. Loose(st, {}, e, {}) /\ Safe(st, {}, e)
    BY HereFine DEF Fine, Safe
  <1>3. Fine(st', {}, e, {}) /\ Acts(st, st', e, {})
    BY <1>1, <1>2, storeSwapOutFileClosedFine
  <1>4. Whole(st', {}) /\ \A x \in Entries : Kept(st, st', x)
    BY <1>3, FineWhole, ActsKept
  <1>. QED
    BY <1>1, <1>4, KeptRefd

LEMMA LateReleaseRefd ==
  ASSUME StoreInv, NEW e \in Entries, storeLateRelease(e)
  PROVE  Refd'
  <1> DEFINE keep == FALSE
  <1>1. /\ e \in st.late /\ Whole(st, {}) /\ UNCHANGED <<http, fwd>>
        /\ st' = storeUnlockObject([st EXCEPT !.late = @ \ {e}], e, Late, keep)
    BY DEF storeLateRelease, StoreInv, Refd, Late
  <1> HIDE DEF keep
  <1>2. Whole(st', {}) /\ \A x \in Entries : Kept(st, st', x)
    BY <1>1, LateReleasedWhole
  <1>. QED
    BY <1>1, <1>2, KeptRefd

LEMMA PhaseRefd ==
  ASSUME StoreInv, RebuildComplete \/ ValidationComplete
  PROVE  Refd'
  <1>1. PICK r \in {"reading", "validating", "done"} :
           st' = [st EXCEPT !.rebuild = r] /\ UNCHANGED <<http, fwd>>
    BY DEF RebuildComplete, ValidationComplete
  <1>2. Whole(st, {})
    BY DEF StoreInv, Refd
  <1>3. Whole(st', {}) /\ \A x \in Entries : Kept(st, st', x)
    BY <1>1, <1>2, PhaseWhole
  <1>. QED
    BY <1>1, <1>3, KeptRefd

LEMMA ValidateEntryRefd ==
  ASSUME StoreInv, NEW e \in Entries, ValidateEntry(e)
  PROVE  Refd'
  <1> DEFINE V == [SetFlag(st, e, "ENTRY_VALIDATED") EXCEPT !.size = @ + 1]
  <1>1. /\ e \in Unvalidated(st) /\ Whole(st, {}) /\ UNCHANGED <<http, fwd>>
        /\ st' = IF V.key[e] = Private THEN storeRelease(V, e) ELSE V
    BY DEF ValidateEntry, StoreInv, Refd
  <1>2. Whole(V, {}) /\ V.key[e] # NoKey /\ \A x \in Entries : Kept(st, V, x)
    BY <1>1, ValidatedFine
  <1> HIDE DEF V
  <1>3. CASE st' = V
    BY <1>1, <1>2, <1>3, KeptRefd
  <1>4. CASE st' = storeRelease(V, e)
    <2>1. Whole(st', {}) /\ \A x \in Entries : Kept(V, st', x)
      BY <1>2, <1>4, ReleaseWhole
    <2>2. \A x \in Entries : Kept(st, st', x)
      BY <1>2, <2>1, KeptTrans
    <2>. QED
      BY <1>1, <2>1, <2>2, KeptRefd
  <1>. QED
    BY <1>1, <1>3, <1>4

LEMMA RebuildEntryRefd ==
  ASSUME StoreInv, NEW k \in Keys, NEW f \in Files, RebuildEntry(k, f)
  PROVE  Refd'
  <1> DEFINE e2 == CHOOSE x \in Entries : st.key[x] = k
             S0 == IF \E x \in Entries : st.key[x] = k THEN storeRelease(st, e2) ELSE st
  <1>1. PICK e \in Entries : /\ f \notin st.map /\ ~Live(S0, e)
                             /\ st' = storeUfsDirAddDiskRestore(S0, e, k, f)
                             /\ UNCHANGED <<http, fwd>>
    BY DEF RebuildEntry
  <1>2. Whole(st, {}) /\ Good(st, {})
    BY DEF StoreInv, Refd, IndInv
  <1>3. /\ Whole(S0, {}) /\ S0.map \subseteq st.map
        /\ \A x \in Entries : S0.key[x] # k /\ Kept(st, S0, x)
    <2>1. CASE \E x \in Entries : st.key[x] = k
      <3>1. e2 \in Entries /\ st.key[e2] = k
        BY <2>1
      <3>2. S0 = storeRelease(st, e2)
        BY <2>1
      <3> HIDE DEF e2, S0
      <3>3. Step(st, S0, {}) /\ Hidden(st, S0, e2)
        BY <1>2, <3>1, <3>2, storeReleaseStep
      <3>4. ASSUME NEW x \in Entries PROVE S0.key[x] # k
        BY <1>2, <3>1, <3>3 DEF Step, Loses, Hidden, Good, KeysUnique
      <3>5. st.key[e2] # NoKey
        BY <3>1, KeysAssumption
      <3>6. Whole(S0, {}) /\ \A x \in Entries : Kept(st, S0, x)
        BY <1>2, <3>1, <3>2, <3>5, ReleaseWhole
      <3>. QED
        BY <3>3, <3>4, <3>6 DEF Hidden
    <2>2. CASE ~\E x \in Entries : st.key[x] = k
      <3>1. S0 = st
        BY <2>2
      <3>2. \A x \in Entries : Kept(st, st, x)
        BY SameKept DEF SameEntry
      <3>. QED
        BY <1>2, <2>2, <3>1, <3>2
    <2>. QED
      BY <2>1, <2>2
  <1> HIDE DEF S0
  <1>4. f \notin S0.map /\ S0.key[e] = NoKey
    BY <1>1, <1>3 DEF Live
  <1>5. Whole(st', {}) /\ \A x \in Entries : Kept(S0, st', x)
    BY <1>1, <1>3, <1>4, AddDiskRestoreWhole
  <1>6. \A x \in Entries : Kept(st, st', x)
    BY <1>3, <1>5, KeptTrans
  <1>. QED
    BY <1>1, <1>5, <1>6, KeptRefd
-----------------------------------------------------------------------------
(* The actions of the clients                                                *)
LEMMA ClientHitRefd ==
  ASSUME StoreInv, NEW c \in Clients, NEW k \in Keys, ClientHit(c, k)
  PROVE  Refd'
  <1>0. PICK e \in Entries :
           /\ http[c] = Null /\ st.key[e] = k
           /\ ~Has(st, e, "RELEASE_REQUEST") /\ ~Has(st, e, "ENTRY_ABORTED")
           /\ LET L == storeLockObject(st, e, HttpLock(c))
                  M == IF L.mem[e] = "NULL"
                         THEN [L EXCEPT !.mem[e] = "NOT_IN_MEMORY", !.url[e] = k] ELSE L
              IN  st' = storeClientRegister(M, e, c)
           /\ http' = [http EXCEPT ![c] = e] /\ fwd' = fwd
    BY Zenon DEF ClientHit
  <1>1. /\ http[c] = Null /\ st.key[e] = k
        /\ "RELEASE_REQUEST" \notin st.flags[e] /\ "ENTRY_ABORTED" \notin st.flags[e]
        /\ st' = storeClientRegister(Recall(st, e, c, k), e, c)
        /\ http' = [http EXCEPT ![c] = e] /\ fwd' = fwd
    BY <1>0 DEF Has, Recall
  <1>2. Fine(st, {}, e, {}) /\ Linked(st, http, fwd, e) /\ http \in [Clients -> Entries \cup {Null}]
    BY HereFine DEF StoreInv, IndInv, OthersTyped
  <1>3. http[c] # e
    BY <1>1, NullAssumption
  <1>4. HttpLock(c) \notin st.lock[e]
    BY <1>2, <1>3, HoldersDiffer DEF Linked, Requests, Out
  <1>5. /\ Fine(st', {}, e, {}) /\ Elsewhere(st, st', e)
        /\ Out(st', e) = Out(st, e) \cup {HttpLock(c), ScLock(c)}
        /\ st'.status[e] = st.status[e] /\ st'.flags[e] = st.flags[e]
    <2>1. Fine(st', {}, e, {}) /\ Joined(st, st', e, c)
      BY <1>1, <1>2, <1>4, HitFine
    <2>. QED
      BY <2>1 DEF Joined
  <1>6. http'[c] = e /\ \A d \in Clients \ {c} : http'[d] = http[d]
    BY <1>1, <1>2
  <1>7. Requests(st', http', e)
    <2>1. ASSUME NEW d \in Clients
          PROVE  /\ HttpLock(d) \in Out(st', e) <=> http'[d] = e
                 /\ ScLock(d) \in Out(st', e) <=> http'[d] = e
      <3>1. CASE d = c
        BY <1>5, <1>6, <3>1
      <3>2. CASE d # c
        <4>1. HttpLock(d) \notin {HttpLock(c), ScLock(c)} /\ ScLock(d) \notin {HttpLock(c), ScLock(c)}
          BY <3>2, HoldersDiffer
        <4>. QED
          BY <1>2, <1>5, <1>6, <3>2, <4>1 DEF Linked, Requests
      <3>. QED
        BY <3>1, <3>2
    <2>. QED
      BY <2>1 DEF Requests
  <1>8. Servers(st', fwd', e)
    <2>1. \A y \in {F, ServerLock, AbortLock, ErrorLock} : y \notin {HttpLock(c), ScLock(c)}
      BY HoldersDiffer DEF F, ServerLock, AbortLock, ErrorLock, Roles
    <2>. QED
      BY <1>1, <1>2, <1>5, <2>1 DEF Linked, Servers
  <1>9. Fetched(st', fwd', e)
    BY <1>1, <1>2, <1>5 DEF Linked, Fetched
  <1>10. \A x \in Entries \ {e} : \A d \in Clients : http'[d] = x <=> http[d] = x
    BY <1>1, <1>6, NullAssumption
  <1>11. Whole(st', {}) /\ Apart(st, st', e)
    BY <1>5, FineWhole, ElsewhereApart
  <1>. QED
    BY <1>1, <1>7, <1>8, <1>9, <1>10, <1>11, AtOne DEF Linked

(* A callback drops a client, if any, and the entry may be aborted.          *)
LEMMA GoneLinked ==
  ASSUME NEW S, NEW e \in Entries, Fine(S, {}, e, {}), NEW h \in [Clients -> Entries \cup {Null}],
         NEW f, Linked(S, h, f, e), NEW gone, gone \in S.clients[e] \cup {Null},
         NEW T, Acts(S, T, e, Leaving(S, e, gone)), NEW h2, Drops(h, h2, gone)
  PROVE  Linked(T, h2, f, e) /\ OthersStay(h, h2, e)
  <1> DEFINE G == {}
  <1>1. /\ Out(T, e) = Out(S, e) \ (Leaving(S, e, gone) \cup G)
        /\ F \in T.lock[e] => Fate(S, T, e)
    BY DEF Acts
  <1>2. Requests(T, h2, e) /\ OthersStay(h, h2, e)
    <2>1. \A d \in Clients : HttpLock(d) \notin G /\ ScLock(d) \notin G
      OBVIOUS
    <2>2. Requests(S, h, e)
      BY DEF Linked
    <2> HIDE DEF G
    <2>. QED
      BY <1>1, <2>1, <2>2, GoneRequests
  <1>3. Servers(T, f, e)
    <2>1. S \in Store
      BY DEF Fine, Loose, Good
    <2>2. \A y \in {F, ServerLock, AbortLock, ErrorLock} \ G : y \in Out(T, e) <=> y \in Out(S, e)
      BY <1>1, <2>1, GoneServers
    <2>. QED
      BY <2>2 DEF Linked, Servers
  <1>4. Fetched(T, f, e)
    <2>1. f[e] # "none" => F \in T.lock[e]
      BY <1>3 DEF Servers, Out
    <2>. QED
      BY <1>1, <2>1 DEF Linked, Fetched, Fate
  <1>. QED
    BY <1>2, <1>3, <1>4 DEF Linked

LEMMA ClientCloseRefd ==
  ASSUME StoreInv, NEW c \in Clients, ClientClose(c)
  PROVE  Refd'
  <1>1. PICK e \in Entries : \E quick, keep, o :
           /\ http[c] = e /\ fwd' = fwd /\ st' = ClientLeave(st, e, c, o, quick, keep)
           /\ Drops(http, http', c)
    BY DEF ClientClose, DropClient, Drops
  <1>2. PICK quick, keep, o : st' = ClientLeave(st, e, c, o, quick, keep)
    BY <1>1
  <1>3. /\ Fine(st, {}, e, {}) /\ Linked(st, http, fwd, e) /\ http \in [Clients -> Entries \cup {Null}]
        /\ AbortLock \notin st.lock[e]
    BY HereFine DEF StoreInv, IndInv, OthersTyped
  <1>4. c \in st.clients[e]
    <2>1. ScLock(c) \in st.lock[e]
      BY <1>1, <1>3 DEF Linked, Requests, Out
    <2>. QED
      BY <1>3, <2>1 DEF Fine, Loose, Shaped, HoldOK
  <1>5. Fine(st', {}, e, {}) /\ Acts(st, st', e, {ScLock(c), HttpLock(c)})
    <2>1. Swapout \notin {} /\ Safe(st, {}, e)
      BY DEF Safe
    <2>. QED
      BY <1>2, <1>3, <1>4, <2>1, ClientLeaveFine
  <1>6. Acts(st, st', e, Leaving(st, e, c)) /\ Elsewhere(st, st', e)
    BY <1>4, <1>5 DEF Acts, Leaving
  <1>7. Linked(st', http', fwd, e) /\ OthersStay(http, http', e)
    BY <1>1, <1>3, <1>4, <1>6, GoneLinked
  <1>8. Whole(st', {}) /\ Apart(st, st', e)
    BY <1>5, <1>6, FineWhole, ElsewhereApart
  <1>. QED
    BY <1>1, <1>7, <1>8, AtOne DEF OthersStay
-----------------------------------------------------------------------------
(* The actions of the server side.  It ends: its locks are dropped, and a    *)
(* client may leave with it.                                                 *)
LEMMA FreedRefd ==
  ASSUME StoreInv, NEW e \in Entries, Fine(st', {}, e, {}), NEW gone, gone \in Gone(e),
         NEW server, server = (fwd[e] # "connect"), fwd[e] # "none",
         Goes(st, st', e, Leaving(st, e, gone) \cup Freed(server)),
         FwdBecomes(e, "none"), Drops(http, http', gone)
  PROVE  Refd'
  <1> DEFINE G == Freed(server)
  <1>1. /\ Fine(st, {}, e, {}) /\ Linked(st, http, fwd, e) /\ http \in [Clients -> Entries \cup {Null}]
        /\ fwd \in [Entries -> {"none", "connect", "sent", "body"}] /\ st \in Store
        /\ gone \in st.clients[e] \cup {Null}
    BY HereFine DEF StoreInv, IndInv, OthersTyped, Gone
  <1>2. Elsewhere(st, st', e) /\ Out(st', e) = Out(st, e) \ (Leaving(st, e, gone) \cup G)
    BY DEF Goes
  <1>3. fwd'[e] = "none" /\ \A x \in Entries \ {e} : fwd'[x] = fwd[x]
    BY <1>1 DEF FwdBecomes
  <1>4. \A c \in Clients : HttpLock(c) \notin G /\ ScLock(c) \notin G
    BY HoldersDiffer DEF Freed, F, ServerLock, Roles
  <1>5. F \in G /\ (fwd[e] \in {"sent", "body"} => ServerLock \in G)
        /\ AbortLock \notin G /\ ErrorLock \notin G
    BY HoldersDiffer DEF Freed, ServerLock, AbortLock, ErrorLock
  <1> HIDE DEF G
  <1>6. Requests(st', http', e) /\ OthersStay(http, http', e)
    <2>1. Requests(st, http, e)
      BY <1>1 DEF Linked
    <2>. QED
      BY <1>1, <1>2, <1>4, <2>1, GoneRequests
  <1>7. Servers(st', fwd', e)
    <2>1. \A y \in {F, ServerLock, AbortLock, ErrorLock} \ G : y \in Out(st', e) <=> y \in Out(st, e)
      BY <1>1, <1>2, GoneServers
    <2>2. F \notin Out(st', e)
      BY <1>2, <1>5
    <2>3. ServerLock \notin Out(st', e)
      <3>1. CASE fwd[e] \in {"sent", "body"}
        BY <1>2, <1>5, <3>1
      <3>2. CASE fwd[e] \notin {"sent", "body"}
        BY <1>1, <1>2, <3>2 DEF Linked, Servers
      <3>. QED
        BY <3>1, <3>2
    <2>4. AbortLock \notin Out(st', e) /\ ErrorLock \notin Out(st', e)
      BY <1>1, <1>2 DEF Linked, Servers
    <2>. QED
      BY <1>3, <2>2, <2>3, <2>4 DEF Servers
  <1>8. Fetched(st', fwd', e)
    BY <1>3 DEF Fetched
  <1>9. Whole(st', {}) /\ Apart(st, st', e)
    BY <1>2, FineWhole, ElsewhereApart
  <1>. QED
    BY <1>3, <1>6, <1>7, <1>8, <1>9, AtOne DEF Linked, OthersStay

LEMMA FreeRefd ==
  ASSUME StoreInv, NEW e \in Entries, NEW gone, gone \in Gone(e),
         NEW server, server = (fwd[e] # "connect"), fwd[e] # "none", NEW data, NEW quick, NEW keep,
         st' = fwdStateFree(st, e, server, data, gone, quick, keep),
         FwdBecomes(e, "none"), Drops(http, http', gone)
  PROVE  Refd'
  <1>1. /\ Fine(st, {}, e, {}) /\ F \in st.lock[e] /\ AbortLock \notin st.lock[e]
        /\ ErrorLock \notin st.lock[e] /\ Linked(st, http, fwd, e)
        /\ fwd \in [Entries -> {"none", "connect", "sent", "body"}]
    BY HereFine DEF StoreInv, IndInv, OthersTyped
  <1>2. server => ServerLock \in st.lock[e]
    BY <1>1, HereFine
  <1>3. st.status[e] = "STORE_OK" => gone \notin st.clients[e]
    BY <1>1 DEF Linked, Fetched
  <1>4. Fine(st', {}, e, {}) /\ Goes(st, st', e, Leaving(st, e, gone) \cup Freed(server))
    BY <1>1, <1>2, <1>3, fwdStateFreeFine
  <1>. QED
    BY <1>4, FreedRefd

LEMMA ServerUnreachableRefd ==
  ASSUME StoreInv, NEW e \in Entries, ServerUnreachable(e)
  PROVE  Refd'
  <1> DEFINE server == FALSE
             data == FALSE
  <1>1. PICK gone \in Gone(e) : \E quick, keep :
           /\ fwd[e] = "connect" /\ st' = fwdStateFree(st, e, server, data, gone, quick, keep)
           /\ FwdBecomes(e, "none") /\ Drops(http, http', gone)
    BY DEF ServerUnreachable, DropClient, Drops
  <1>2. server = (fwd[e] # "connect") /\ fwd[e] # "none"
    BY <1>1
  <1> HIDE DEF server, data
  <1>. QED
    BY <1>1, <1>2, FreeRefd

LEMMA FwdAbortRefd ==
  ASSUME StoreInv, NEW e \in Entries, FwdAbort(e)
  PROVE  Refd'
  <1> DEFINE server == fwd[e] # "connect"
             data == TRUE
             quick == FALSE
  <1>1. PICK keep :
           /\ st.abort[e] = "queued" /\ st' = fwdStateFree(st, e, server, data, Null, quick, keep)
           /\ FwdBecomes(e, "none") /\ Drops(http, http', Null)
    BY DEF FwdAbort, Drops
  <1>2. fwd[e] # "none"
    <2>1. F \in st.lock[e]
      BY <1>1, HereFine DEF Fine, Loose, Shaped, HoldOK
    <2>. QED
      BY <2>1, HereFine
  <1>3. server = (fwd[e] # "connect") /\ Null \in Gone(e)
    BY GoneNull
  <1> HIDE DEF server, data, quick
  <1>. QED
    BY <1>1, <1>2, <1>3, FreeRefd

LEMMA ServerCompleteRefd ==
  ASSUME StoreInv, NEW e \in Entries, ServerComplete(e)
  PROVE  Refd'
  <1> DEFINE server == TRUE
             data == TRUE
             A == Must(st, st.status[e] = "STORE_PENDING")
             B == ClrFlag(A, e, "ENTRY_FWD_HDR_WAIT")
  <1>0. PICK gone \in Gone(e), o \in Outcomes(st, e), valid \in BOOLEAN :
          \E quick \in Quick(e, gone), keep \in Keep(e, gone) :
           /\ fwd[e] = "body" /\ ~Has(st, e, "ENTRY_ABORTED")
           /\ st' = fwdStateFree(storeComplete(B, e, valid, gone, o, quick, keep),
                                 e, TRUE, TRUE, Null, quick, keep)
           /\ FwdBecomes(e, "none") /\ DropClient(gone)
    BY Zenon DEF ServerComplete
  <1>1. /\ fwd[e] = "body" /\ "ENTRY_ABORTED" \notin st.flags[e]
        /\ FwdBecomes(e, "none") /\ Drops(http, http', gone)
    BY <1>0 DEF DropClient, Drops, Has
  <1>2. PICK quick, keep :
           st' = fwdStateFree(storeComplete(B, e, valid, gone, o, quick, keep),
                              e, server, data, Null, quick, keep)
    BY <1>0
  <1> DEFINE C == storeComplete(B, e, valid, gone, o, quick, keep)
  <1>3. /\ Fine(st, {}, e, {}) /\ F \in st.lock[e] /\ AbortLock \notin st.lock[e]
        /\ ErrorLock \notin st.lock[e] /\ Linked(st, http, fwd, e) /\ st \in Store /\ st.ok
        /\ ServerLock \in st.lock[e]
    BY <1>1, HereFine
  <1>4. st.status[e] = "STORE_PENDING" /\ A = st
    BY <1>1, <1>3, MustTrue DEF Linked, Fetched
  <1>5. st.key[e] # NoKey /\ Loose(st, {}, e, {}) /\ LeakOK(st, e)
    BY <1>3 DEF Fine, Loose, Shaped, FreeOK
  <1>6. Fine(B, {}, e, {}) /\ Touches(st, B, e, {"flags"}) /\ "ENTRY_FWD_HDR_WAIT" \notin B.flags[e]
    <2>1. /\ Loose(B, {}, e, {}) /\ Touches(st, B, e, {"flags"})
          /\ B.flags[e] = st.flags[e] \ {"ENTRY_FWD_HDR_WAIT"} /\ LeakOK(B, e)
      BY <1>4, <1>5, ClrHdrFine
    <2>. QED
      BY <2>1 DEF Fine
  <1> HIDE DEF B, A
  <1>7. /\ B.lock[e] = st.lock[e] /\ B.status[e] = "STORE_PENDING" /\ B.clients[e] = st.clients[e]
        /\ Out(B, e) = Out(st, e) /\ Elsewhere(st, B, e) /\ Leaving(B, e, gone) = Leaving(st, e, gone)
    BY <1>4, <1>6 DEF Touches, Out, Leaving
  <1>8. Fine(C, {}, e, {}) /\ Goes(B, C, e, Leaving(B, e, gone)) /\ C.status[e] = "STORE_OK"
    <2>1. Out(B, e) # {} /\ Swapout \notin {}
      BY <1>3, <1>7, HoldersDiffer DEF Out
    <2>. QED
      BY <1>6, <1>7, <2>1, storeCompleteFine
  <1> HIDE DEF C
  <1>9. /\ \A y \in {F, ServerLock, AbortLock, ErrorLock} : y \in C.lock[e] <=> y \in st.lock[e]
    <2>1. Out(C, e) = Out(st, e) \ (Leaving(st, e, gone) \cup {})
      BY <1>7, <1>8 DEF Goes
    <2>2. \A y \in {F, ServerLock, AbortLock, ErrorLock} : y \in Out(C, e) <=> y \in Out(st, e)
      BY <1>3, <2>1, GoneServers
    <2>3. \A y \in {F, ServerLock, AbortLock, ErrorLock} : y # Swapout /\ y # Late
      BY HoldersDiffer DEF ServerLock, AbortLock, ErrorLock
    <2>. QED
      BY <2>2, <2>3 DEF Out
  <1>10. Null \notin C.clients[e] /\ Leaving(C, e, Null) = {}
    BY <1>8, NullAssumption DEF Goes, Elsewhere, Store, Leaving
  <1>11. server /\ server = (fwd[e] # "connect") /\ fwd[e] # "none"
    BY <1>1
  <1>12. st' = fwdStateFree(C, e, server, data, Null, quick, keep)
    BY <1>2 DEF C
  <1> HIDE DEF server, data
  <1>13. Fine(st', {}, e, {}) /\ Goes(C, st', e, Leaving(C, e, Null) \cup Freed(server))
    <2>1. F \in C.lock[e] /\ ServerLock \in C.lock[e] /\ AbortLock \notin C.lock[e] /\ ErrorLock \notin C.lock[e]
      BY <1>3, <1>9
    <2>. QED
      BY <1>8, <1>10, <1>12, <2>1, fwdStateFreeFine
  <1>14. Goes(st, st', e, Leaving(st, e, gone) \cup Freed(server))
    <2>1. Elsewhere(st, st', e)
      BY <1>7, <1>8, <1>13 DEF Goes, Elsewhere, SameEntry
    <2>2. Out(st', e) = (Out(st, e) \ Leaving(st, e, gone)) \ Freed(server)
      BY <1>7, <1>8, <1>10, <1>13 DEF Goes
    <2>. QED
      BY <2>1, <2>2 DEF Goes
  <1>. QED
    BY <1>1, <1>11, <1>13, <1>14, FreedRefd

LEMMA ServerConnectedRefd ==
  ASSUME StoreInv, NEW e \in Entries, ServerConnected(e)
  PROVE  Refd'
  <1> DEFINE L == storeLockObject(st, e, ServerLock)
  <1>1. /\ fwd[e] = "connect" /\ http' = http /\ fwd' = [fwd EXCEPT ![e] = "sent"]
        /\ st' = L \/ st' = storeReleaseRequest(L, e)
    BY DEF ServerConnected, FwdBecomes, ServerLock
  <1>2. /\ Fine(st, {}, e, {}) /\ F \in st.lock[e] /\ ServerLock \notin st.lock[e]
        /\ Linked(st, http, fwd, e)
    BY <1>1, HereFine
  <1>3. ServerLock \in Foreign /\ st.mem[e] # "NULL" /\ Late \notin st.lock[e] /\ Loose(st, {}, e, {})
        /\ st.key[e] # NoKey
    <2>1. ServerLock \in Foreign
      BY DEF ServerLock, Foreign
    <2>2. Loose(st, {}, e, {}) /\ FreeOK(st, e) /\ MemOK(st, e) /\ HoldOK(st, e, {})
      BY <1>2 DEF Fine, Loose, Shaped
    <2>3. st.mem[e] # "NULL" /\ Late \notin st.lock[e] /\ st.key[e] # NoKey
      BY <1>2, <2>2, HoldersDiffer DEF FreeOK, MemOK, HoldOK
    <2>. QED
      BY <2>1, <2>2, <2>3
  <1>4. /\ Fine(L, {}, e, {}) /\ Touches(st, L, e, {"lock"})
        /\ L.lock[e] = st.lock[e] \cup {ServerLock} /\ Out(L, e) = Out(st, e) \cup {ServerLock}
    BY <1>2, <1>3, LockFine
  <1> HIDE DEF L
  <1>5. /\ Elsewhere(st, L, e) /\ L.key[e] = st.key[e] /\ L.flags[e] = st.flags[e]
        /\ L.status[e] = st.status[e] /\ L.clients[e] = st.clients[e]
    BY <1>4 DEF Touches
  <1>6. Fine(st', {}, e, {}) /\ Acts(L, st', e, {})
    <2>1. CASE st' = L
      <3>1. L \in Store
        BY <1>5 DEF Elsewhere
      <3>2. Acts(L, L, e, {})
        BY <3>1, ActsRefl
      <3>. QED
        BY <1>4, <2>1, <3>2
    <2>2. CASE st' = storeReleaseRequest(L, e)
      <3>1. Loose(L, {}, e, {}) /\ L.key[e] # NoKey /\ L.lock[e] # {}
        BY <1>2, <1>3, <1>4, <1>5 DEF Fine
      <3>2. Loose(st', {}, e, {}) /\ LeakOK(st', e) /\ Acts(L, st', e, {})
        BY <2>2, <3>1, ReleaseRequestLoose
      <3>. QED
        BY <3>2 DEF Fine
    <2>. QED
      BY <1>1, <2>1, <2>2
  <1>7. Out(st', e) = Out(st, e) \cup {ServerLock} /\ (F \in st'.lock[e] => Fate(L, st', e))
        /\ Elsewhere(st, st', e)
    BY <1>4, <1>5, <1>6 DEF Acts, Elsewhere, SameEntry
  <1>8. fwd'[e] = "sent" /\ \A x \in Entries \ {e} : fwd'[x] = fwd[x]
    BY <1>1 DEF StoreInv, IndInv, OthersTyped
  <1>9. Requests(st', http', e)
    BY <1>1, <1>2, <1>7, HoldersDiffer DEF Linked, Requests, ServerLock, Roles
  <1>10. Servers(st', fwd', e)
    BY <1>1, <1>2, <1>7, <1>8, HoldersDiffer DEF Linked, Servers, ServerLock, AbortLock, ErrorLock
  <1>11. Fetched(st', fwd', e)
    <2>1. F \in st'.lock[e]
      BY <1>8, <1>10 DEF Servers, Out
    <2>. QED
      BY <1>1, <1>2, <1>5, <1>7, <1>8, <2>1 DEF Linked, Fetched, Fate
  <1>12. Whole(st', {}) /\ Apart(st, st', e)
    BY <1>6, <1>7, FineWhole, ElsewhereApart
  <1>. QED
    BY <1>1, <1>8, <1>9, <1>10, <1>11, <1>12, AtOne DEF Linked

LEMMA HeadsLinked ==
  ASSUME NEW S, NEW e \in Entries, NEW T, Heads(S, T, e), NEW h, NEW f, Linked(S, h, f, e)
  PROVE  Linked(T, h, f, e)
  BY DEF Heads, Stays, Linked, Requests, Servers, Fetched

LEMMA ServerHeaderRefd ==
  ASSUME StoreInv, NEW e \in Entries, ServerHeader(e)
  PROVE  Refd'
  <1> DEFINE keep == TRUE
  <1>1. PICK verdict \in {"public", "private", "negative", "expired"}, remove \in BOOLEAN,
             again \in BOOLEAN, gone \in Gone(e), o \in Outcomes(st, e) :
          \E quick \in Quick(e, gone) :
           /\ fwd[e] = "sent" /\ ~Has(st, e, "ENTRY_ABORTED")
           /\ again => verdict # "public"
           /\ remove => \E pe \in Entries : st.key[pe] = st.url[e]
           /\ st' = storeBufferFlush(
                      HeaderSeen(httpProcessReplyHeader(st, e, verdict, remove), e, again),
                      e, gone, o, quick, TRUE)
           /\ FwdBecomes(e, "body") /\ DropClient(gone)
    BY DEF ServerHeader
  <1> DEFINE P == httpProcessReplyHeader(st, e, verdict, remove)
             C == ClrFlag(P, e, "ENTRY_FWD_HDR_WAIT")
             H == HeaderSeen(P, e, again)
  <1>2. PICK quick : st' = storeBufferFlush(H, e, gone, o, quick, keep)
    BY <1>1
  <1> HIDE DEF keep
  <1>3. /\ fwd[e] = "sent" /\ "ENTRY_ABORTED" \notin st.flags[e] /\ Drops(http, http', gone)
        /\ fwd' = [fwd EXCEPT ![e] = "body"]
    BY <1>1 DEF DropClient, Drops, Has, FwdBecomes
  <1>4. /\ Fine(st, {}, e, {}) /\ F \in st.lock[e] /\ AbortLock \notin st.lock[e]
        /\ Linked(st, http, fwd, e) /\ http \in [Clients -> Entries \cup {Null}]
        /\ gone \in st.clients[e] \cup {Null}
    BY <1>3, HereFine DEF StoreInv, IndInv, OthersTyped, Gone
  <1>5. Waiting(st, e) /\ st.status[e] = "STORE_PENDING"
    BY <1>3, <1>4 DEF Waiting, Linked, Fetched
  <1>6. Heads(st, P, e)
    BY <1>5, httpProcessReplyHeaderHeads
  <1>7. HeaderSeen(P, e, again) = P \/ HeaderSeen(P, e, again) = C
    BY DEF HeaderSeen
  <1> HIDE DEF P, H
  <1>8. /\ Fine(P, {}, e, {}) /\ Apart(st, P, e) /\ Linked(P, http, fwd, e) /\ F \in P.lock[e]
        /\ P.clients[e] = st.clients[e] /\ AbortLock \notin P.lock[e] /\ P.status[e] = "STORE_PENDING"
    <2>1. Linked(P, http, fwd, e)
      BY <1>4, <1>6, HeadsLinked
    <2>2. F \in Out(P, e) /\ AbortLock \notin Out(P, e) /\ AbortLock # Swapout /\ AbortLock # Late
      BY <1>3, <2>1, HoldersDiffer DEF Linked, Servers, AbortLock
    <2>. QED
      BY <1>5, <1>6, <2>1, <2>2 DEF Heads, Stays, Out
  <1>9. Loose(P, {}, e, {}) /\ LeakOK(P, e) /\ P.key[e] # NoKey
    BY <1>8 DEF Fine, Loose, Shaped, FreeOK
  <1>10. /\ Fine(C, {}, e, {}) /\ Elsewhere(P, C, e) /\ C.lock[e] = P.lock[e]
         /\ C.clients[e] = P.clients[e] /\ C.status[e] = P.status[e]
    <2>1. Loose(C, {}, e, {}) /\ Touches(P, C, e, {"flags"}) /\ LeakOK(C, e)
      BY <1>9, ClrHdrFine
    <2>. QED
      BY <2>1 DEF Fine, Touches
  <1> HIDE DEF C
  <1>11. /\ Fine(H, {}, e, {}) /\ Apart(st, H, e) /\ H.lock[e] = P.lock[e]
         /\ H.clients[e] = st.clients[e] /\ H.status[e] = "STORE_PENDING"
    <2>1. CASE H = P
      BY <1>8, <2>1
    <2>2. CASE H = C
      <3>1. Apart(P, C, e)
        BY <1>10, ElsewhereApart
      <3>. QED
        BY <1>8, <1>10, <2>2, <3>1, ApartTrans
    <2>. QED
      BY <1>7, <2>1, <2>2 DEF H
  <1>12. fwd'[e] = "body" /\ \A x \in Entries \ {e} : fwd'[x] = fwd[x]
    BY <1>3 DEF StoreInv, IndInv, OthersTyped
  <1>13. Linked(H, http, fwd', e)
    <2>1. Out(H, e) = Out(P, e)
      BY <1>11 DEF Out
    <2>. QED
      BY <1>3, <1>8, <1>11, <1>12, <2>1 DEF Linked, Requests, Servers, Fetched
  <1>14. Fine(st', {}, e, {}) /\ Acts(H, st', e, Leaving(H, e, gone))
    BY <1>2, <1>8, <1>11, storeBufferFlushFine
  <1>15. Linked(st', http', fwd', e) /\ OthersStay(http, http', e)
    <2>1. gone \in H.clients[e] \cup {Null}
      BY <1>4, <1>11
    <2>. QED
      BY <1>3, <1>4, <1>11, <1>13, <1>14, <2>1, GoneLinked
  <1>16. Whole(st', {}) /\ Apart(st, st', e)
    <2>1. Apart(H, st', e)
      BY <1>14, ElsewhereApart DEF Acts
    <2>. QED
      BY <1>11, <1>14, <2>1, ApartTrans, FineWhole
  <1>. QED
    BY <1>12, <1>15, <1>16, AtOne DEF OthersStay

LEMMA ServerBodyRefd ==
  ASSUME StoreInv, NEW e \in Entries, ServerBody(e)
  PROVE  Refd'
  <1> DEFINE keep == TRUE
             A == Must(st, st.status[e] = "STORE_PENDING")
  <1>1. PICK gone \in Gone(e), o \in Outcomes(st, e) : \E quick \in Quick(e, gone) :
           /\ fwd[e] = "body" /\ ~Has(st, e, "ENTRY_ABORTED")
           /\ st' = storeBufferFlush(A, e, gone, o, quick, keep)
           /\ DropClient(gone) /\ UNCHANGED <<fwd, orig>>
    BY Zenon DEF ServerBody
  <1> HIDE DEF keep
  <1>2. PICK quick : st' = storeBufferFlush(A, e, gone, o, quick, keep)
    BY <1>1
  <1>3. /\ fwd[e] = "body" /\ "ENTRY_ABORTED" \notin st.flags[e] /\ Drops(http, http', gone)
        /\ fwd' = fwd
    BY <1>1 DEF DropClient, Drops, Has
  <1>4. /\ Fine(st, {}, e, {}) /\ F \in st.lock[e] /\ AbortLock \notin st.lock[e]
        /\ Linked(st, http, fwd, e) /\ http \in [Clients -> Entries \cup {Null}]
        /\ gone \in st.clients[e] \cup {Null} /\ st \in Store /\ st.ok
    BY <1>3, HereFine DEF StoreInv, IndInv, OthersTyped, Gone
  <1>5. A = st
    BY <1>3, <1>4, MustTrue DEF Linked, Fetched
  <1> HIDE DEF A
  <1>6. Fine(st', {}, e, {}) /\ Acts(st, st', e, Leaving(st, e, gone))
    BY <1>2, <1>4, <1>5, storeBufferFlushFine
  <1>7. Linked(st', http', fwd, e) /\ OthersStay(http, http', e)
    BY <1>3, <1>4, <1>6, GoneLinked
  <1>8. Whole(st', {}) /\ Apart(st, st', e)
    BY <1>6, FineWhole, ElsewhereApart DEF Acts
  <1>. QED
    BY <1>3, <1>7, <1>8, AtOne DEF OthersStay

(* The connection is closed and the next server is tried.                    *)
LEMMA DisconnectLinked ==
  ASSUME NEW S, NEW e \in Entries, Fine(S, {}, e, {}), NEW h, NEW f, Linked(S, h, f, e),
         f[e] \in {"sent", "body"}, "ENTRY_FWD_HDR_WAIT" \in S.flags[e],
         NEW keep, NEW f2, f2[e] = "connect"
  PROVE  LET T == storeUnlockObject(S, e, ServerLock, keep)
         IN  Fine(T, {}, e, {}) /\ Elsewhere(S, T, e) /\ Linked(T, h, f2, e)
  <1> DEFINE T == storeUnlockObject(S, e, ServerLock, keep)
  <1>1. ServerLock \in Out(S, e) /\ F \in Out(S, e)
    BY DEF Linked, Servers
  <1>2. ServerLock \in S.lock[e] /\ Safe(S, {}, e)
    BY <1>1 DEF Out, Safe
  <1>3. Fine(T, {}, e, {}) /\ Acts(S, T, e, {ServerLock})
    BY <1>2, UnlockForeign
  <1> HIDE DEF T
  <1>4. Elsewhere(S, T, e) /\ Out(T, e) = Out(S, e) \ {ServerLock} /\ (F \in T.lock[e] => Fate(S, T, e))
    BY <1>3 DEF Acts
  <1>5. Requests(T, h, e)
    BY <1>4, HoldersDiffer DEF Linked, Requests, ServerLock, Roles
  <1>6. Servers(T, f2, e)
    BY <1>4, HoldersDiffer DEF Linked, Servers, ServerLock, AbortLock, ErrorLock
  <1>7. Fetched(T, f2, e)
    <2>1. F \in T.lock[e]
      BY <1>6 DEF Servers, Out
    <2>. QED
      BY <1>4, <2>1 DEF Linked, Fetched, Fate
  <1>. QED
    BY <1>3, <1>4, <1>5, <1>6, <1>7 DEF Linked, T

LEMMA ServerReforwardRefd ==
  ASSUME StoreInv, NEW e \in Entries, ServerReforward(e)
  PROVE  Refd'
  <1> DEFINE R == Reforward(st, e)
  <1>1. PICK keep : /\ fwd[e] = "body" /\ "ENTRY_FWD_HDR_WAIT" \in st.flags[e]
                    /\ "ENTRY_ABORTED" \notin st.flags[e]
                    /\ st' = storeUnlockObject(R, e, ServerLock, keep)
                    /\ fwd' = [fwd EXCEPT ![e] = "connect"] /\ http' = http
    BY DEF ServerReforward, Has, FwdBecomes, ServerLock
  <1>2. Fine(st, {}, e, {}) /\ F \in st.lock[e] /\ Linked(st, http, fwd, e)
    BY <1>1, HereFine
  <1>3. Waiting(st, e) /\ st.status[e] = "STORE_PENDING"
    BY <1>1, <1>2 DEF Waiting, Linked, Fetched
  <1>4. Heads(st, R, e)
    BY <1>1, <1>3, ReforwardHeads
  <1> HIDE DEF R
  <1>5. Fine(R, {}, e, {}) /\ Apart(st, R, e) /\ Linked(R, http, fwd, e) /\ "ENTRY_FWD_HDR_WAIT" \in R.flags[e]
    BY <1>1, <1>2, <1>4, HeadsLinked DEF Heads, Stays
  <1>6. fwd'[e] = "connect" /\ \A x \in Entries \ {e} : fwd'[x] = fwd[x]
    BY <1>1 DEF StoreInv, IndInv, OthersTyped
  <1>7. Fine(st', {}, e, {}) /\ Elsewhere(R, st', e) /\ Linked(st', http, fwd', e)
    <2>1. fwd[e] \in {"sent", "body"}
      BY <1>1
    <2>. QED
      BY <1>1, <1>5, <1>6, <2>1, DisconnectLinked
  <1>8. Whole(st', {}) /\ Apart(st, st', e)
    BY <1>5, <1>7, FineWhole, ElsewhereApart, ApartTrans
  <1>. QED
    BY <1>1, <1>6, <1>7, <1>8, AtOne

LEMMA ServerClosedRefd ==
  ASSUME StoreInv, NEW e \in Entries, ServerClosed(e)
  PROVE  Refd'
  <1> DEFINE server == TRUE
             data == fwd[e] = "body"
  <1>1. PICK retry \in BOOLEAN, gone \in Gone(e) : \E quick \in Quick(e, gone), keep \in Keep(e, gone) :
           /\ fwd[e] \in {"sent", "body"}
           /\ retry => st.status[e] = "STORE_PENDING" /\ ~data /\ gone = Null
           /\ st' = IF retry THEN storeUnlockObject(st, e, RoleLock("server"), keep)
                    ELSE fwdStateFree(st, e, TRUE, data, gone, quick, keep)
           /\ FwdBecomes(e, IF retry THEN "connect" ELSE "none")
           /\ DropClient(gone)
    BY DEF ServerClosed
  <1>2. PICK quick, keep :
           st' = IF retry THEN storeUnlockObject(st, e, ServerLock, keep)
                 ELSE fwdStateFree(st, e, server, data, gone, quick, keep)
    BY <1>1 DEF ServerLock
  <1>3. fwd[e] \in {"sent", "body"} /\ Drops(http, http', gone) /\ (retry => fwd[e] = "sent" /\ gone = Null)
    BY <1>1 DEF DropClient, Drops
  <1>4. CASE ~retry
    <2>1. FwdBecomes(e, "none")
      BY <1>1, <1>4
    <2>2. server = (fwd[e] # "connect") /\ fwd[e] # "none"
      BY <1>3
    <2>3. st' = fwdStateFree(st, e, server, data, gone, quick, keep)
      BY <1>2, <1>4
    <2> HIDE DEF server, data
    <2>. QED
      BY <1>3, <2>1, <2>2, <2>3, FreeRefd
  <1>5. CASE retry
    <2>1. /\ st' = storeUnlockObject(st, e, ServerLock, keep) /\ fwd[e] = "sent" /\ http' = http
          /\ fwd' = [fwd EXCEPT ![e] = "connect"]
      BY <1>1, <1>2, <1>3, <1>5 DEF Drops, FwdBecomes
    <2>2. fwd'[e] = "connect" /\ \A x \in Entries \ {e} : fwd'[x] = fwd[x]
      BY <2>1 DEF StoreInv, IndInv, OthersTyped
    <2>3. Fine(st, {}, e, {}) /\ Linked(st, http, fwd, e) /\ "ENTRY_FWD_HDR_WAIT" \in st.flags[e]
      BY <2>1, HereFine DEF Linked, Fetched
    <2>4. Fine(st', {}, e, {}) /\ Elsewhere(st, st', e) /\ Linked(st', http, fwd', e)
      BY <1>3, <2>1, <2>2, <2>3, DisconnectLinked
    <2>5. Whole(st', {}) /\ Apart(st, st', e)
      BY <2>4, FineWhole, ElsewhereApart
    <2>. QED
      BY <2>1, <2>2, <2>4, <2>5, AtOne
  <1>. QED
    BY <1>4, <1>5
-----------------------------------------------------------------------------
(* A miss.  The hit that turned out unusable, if any, is dropped first.      *)
LEMMA LeaveLinked ==
  ASSUME StoreInv, NEW c \in Clients, NEW quick, NEW keep, NEW S, S = LeaveHit(c, quick, keep)
  PROVE  /\ Whole(S, {}) /\ \A x \in Entries : Linked(S, [http EXCEPT ![c] = Null], fwd, x)
         /\ \A x \in Entries : x # http[c] => S.key[x] = st.key[x]
  <1> DEFINE h == [http EXCEPT ![c] = Null]
             w == <<"wait", -1>>
  <1>1. http \in [Clients -> Entries \cup {Null}] /\ c # Null
    BY NullAssumption DEF StoreInv, IndInv, OthersTyped
  <1>2. CASE http[c] = Null
    <2>1. S = st /\ h = http
      BY <1>1, <1>2 DEF LeaveHit
    <2>. QED
      BY <2>1 DEF StoreInv, Refd
  <1>3. CASE http[c] # Null
    <2>1. PICK a \in Entries : a = http[c]
      BY <1>1, <1>3
    <2>2. S = ClientLeave(st, a, c, w, quick, keep)
      BY <1>3, <2>1 DEF LeaveHit
    <2> HIDE DEF w
    <2>3. Fine(st, {}, a, {}) /\ Linked(st, http, fwd, a) /\ AbortLock \notin st.lock[a]
      BY HereFine
    <2>4. c \in st.clients[a]
      <3>1. ScLock(c) \in st.lock[a]
        BY <2>1, <2>3 DEF Linked, Requests, Out
      <3>. QED
        BY <2>3, <3>1 DEF Fine, Loose, Shaped, HoldOK
    <2>5. Fine(S, {}, a, {}) /\ Acts(st, S, a, {ScLock(c), HttpLock(c)})
      <3>1. Swapout \notin {} /\ Safe(st, {}, a)
        BY DEF Safe
      <3>. QED
        BY <2>2, <2>3, <2>4, <3>1, ClientLeaveFine
    <2>6. Acts(st, S, a, Leaving(st, a, c)) /\ Elsewhere(st, S, a)
      BY <2>4, <2>5 DEF Acts, Leaving
    <2>7. Drops(http, h, c)
      BY <1>1 DEF Drops
    <2> HIDE DEF h
    <2>8. Linked(S, h, fwd, a) /\ OthersStay(http, h, a)
      BY <1>1, <2>3, <2>4, <2>6, <2>7, GoneLinked
    <2>9. ASSUME NEW x \in Entries, x # a PROVE Linked(S, h, fwd, x)
      <3>1. Linked(st, http, fwd, x)
        BY DEF StoreInv, Refd
      <3>2. Kept(st, S, x)
        BY <2>6, <2>9, SameKept DEF Elsewhere
      <3>3. \A d \in Clients : h[d] = x <=> http[d] = x
        BY <2>8, <2>9 DEF OthersStay
      <3>. QED
        BY <3>1, <3>2, <3>3, KeptLinked
    <2>10. \A x \in Entries : Linked(S, h, fwd, x)
      BY <2>8, <2>9
    <2>11. Whole(S, {})
      BY <2>5, FineWhole
    <2>12. \A x \in Entries : x # http[c] => S.key[x] = st.key[x]
      BY <2>1, <2>6 DEF Elsewhere, SameEntry
    <2>. QED
      BY <2>10, <2>11, <2>12 DEF h
  <1>. QED
    BY <1>2, <1>3

Answer(S, T, e, denied, quick, keep) ==
    T = IF denied THEN errorAppendEntry(S, e, Null, quick, keep) ELSE fwdStart(S, e)
OnlyOf(h, e, c) == \A d \in Clients : h[d] = e <=> d = c
Begun(f, e, denied) == (denied => f[e] = "none") /\ (~denied => f[e] = "connect")

(* The new entry gets its error page or its server side.                     *)
LEMMA AnswerLinked ==
  ASSUME NEW S, NEW e \in Entries, NEW k \in Keys, NEW c \in Clients, Fine(S, {e}, e, {}),
         Made(S, e, k, c), Ready(S, e, c),
         NEW denied \in BOOLEAN, NEW quick, NEW keep, NEW h, OnlyOf(h, e, c),
         NEW f, Begun(f, e, denied),
         NEW T, Answer(S, T, e, denied, quick, keep)
  PROVE  Fine(T, {}, e, {}) /\ Elsewhere(S, T, e) /\ Linked(T, h, f, e)
  <1>1. Out(S, e) = {HttpLock(c), ScLock(c)}
    BY HoldersDiffer DEF Out, Ready
  <1>2. \A y \in {F, ServerLock, AbortLock, ErrorLock} : y \notin {HttpLock(c), ScLock(c)}
    BY HoldersDiffer DEF F, ServerLock, AbortLock, ErrorLock, Roles
  <1>3. \A d \in Clients : /\ HttpLock(d) \in {HttpLock(c), ScLock(c)} <=> d = c
                           /\ ScLock(d) \in {HttpLock(c), ScLock(c)} <=> d = c
    BY HoldersDiffer
  <1>4. CASE denied
    <2>1. T = errorAppendEntry(S, e, Null, quick, keep) /\ f[e] = "none"
      BY <1>4 DEF Answer, Begun
    <2>2. Out(S, e) # {} /\ S.status[e] = "STORE_PENDING" /\ ErrorLock \notin S.lock[e]
      BY <1>1, <1>2 DEF Made, Ready
    <2>3. Fine(T, {e}, e, {}) /\ Goes(S, T, e, {}) /\ T.status[e] = "STORE_OK"
      BY <2>1, <2>2, errorAppendEntryFine
    <2>4. Fine(T, {}, e, {}) /\ Elsewhere(S, T, e) /\ Out(T, e) = {HttpLock(c), ScLock(c)}
      BY <1>1, <2>3, OverWhole DEF Goes
    <2>5. Requests(T, h, e)
      BY <1>3, <2>4 DEF Requests, OnlyOf
    <2>6. Servers(T, f, e)
      BY <1>2, <2>1, <2>4 DEF Servers
    <2>. QED
      BY <2>1, <2>4, <2>5, <2>6 DEF Linked, Fetched
  <1>5. CASE ~denied
    <2>1. T = fwdStart(S, e) /\ f[e] = "connect"
      BY <1>5 DEF Answer, Begun
    <2>2. /\ Fine(T, {}, e, {}) /\ Elsewhere(S, T, e) /\ Out(T, e) = {HttpLock(c), ScLock(c), F}
          /\ T.status[e] = "STORE_PENDING" /\ "ENTRY_FWD_HDR_WAIT" \in T.flags[e]
          /\ "ENTRY_ABORTED" \notin T.flags[e]
      BY <2>1, fwdStartFine DEF Ready
    <2>3. \A d \in Clients : HttpLock(d) # F /\ ScLock(d) # F
      BY HoldersDiffer DEF F, Roles
    <2>4. Requests(T, h, e)
      BY <1>3, <2>2, <2>3 DEF Requests, OnlyOf
    <2>5. Servers(T, f, e)
      BY <1>2, <2>1, <2>2, HoldersDiffer DEF Servers, ServerLock, AbortLock, ErrorLock
    <2>6. Fetched(T, f, e)
      BY <2>1, <2>2 DEF Fetched
    <2>. QED
      BY <2>2, <2>4, <2>5, <2>6 DEF Linked
  <1>. QED
    BY <1>4, <1>5

LEMMA ClientMissRefd ==
  ASSUME StoreInv, NEW c \in Clients, NEW k \in Keys, ClientMiss(c, k)
  PROVE  Refd'
  <1>1. PICK e \in Entries, cachable \in BOOLEAN, hierarchical \in BOOLEAN, collapse \in BOOLEAN,
             denied \in BOOLEAN :
               \E quick, keep :
                 /\ collapse => cachable
                 /\ OnFreeEntry(LeaveHit(c, quick, keep), c, k, e, cachable, hierarchical, collapse,
                                denied, keep)
    BY DEF ClientMiss
  <1>2. PICK quick, keep :
                 /\ collapse => cachable
                 /\ OnFreeEntry(LeaveHit(c, quick, keep), c, k, e, cachable, hierarchical, collapse,
                                denied, keep)
    BY <1>1
  <1> DEFINE S == LeaveHit(c, quick, keep)
             h == [http EXCEPT ![c] = Null]
             M == MissEntry(S, c, k, e, cachable, hierarchical, collapse)
             q == FALSE
  <1>3. S.key[e] = NoKey /\ AnswerMiss(M, c, e, denied, keep)
    BY <1>2 DEF OnFreeEntry, Live
  <1>4. Whole(S, {}) /\ \A x \in Entries : Linked(S, h, fwd, x)
    BY LeaveLinked
  <1> HIDE DEF S, M
  <1>5. /\ Answer(M, st', e, denied, q, keep)
        /\ fwd' = [fwd EXCEPT ![e] = IF denied THEN "none" ELSE "connect"]
        /\ http' = [http EXCEPT ![c] = e]
    BY <1>3 DEF AnswerMiss, Answer
  <1> HIDE DEF q
  <1>6. Fine(M, {e}, e, {}) /\ Apart(S, M, e) /\ Made(M, e, k, c) /\ Ready(M, e, c)
    BY <1>2, <1>3, <1>4, MissEntryFine DEF M
  <1>7. Begun(fwd', e, denied) /\ \A x \in Entries \ {e} : fwd'[x] = fwd[x]
    BY <1>5 DEF StoreInv, IndInv, OthersTyped, Begun
  <1>8. \A d \in Clients : h[d] # e
    <2>1. S.lock[e] = {}
      BY <1>3, <1>4 DEF Whole, Raw, Entry, Shaped, FreeOK
    <2> HIDE DEF h
    <2>. QED
      BY <1>4, <2>1 DEF Linked, Requests, Out
  <1>9. http'[c] = e /\ h[c] = Null /\ \A d \in Clients \ {c} : http'[d] = h[d]
    BY <1>5 DEF StoreInv, IndInv, OthersTyped
  <1> HIDE DEF h
  <1>10. OnlyOf(http', e, c)
    BY <1>8, <1>9 DEF OnlyOf
  <1>11. Fine(st', {}, e, {}) /\ Elsewhere(M, st', e) /\ Linked(st', http', fwd', e)
    BY <1>5, <1>6, <1>7, <1>10, AnswerLinked
  <1>12. ASSUME NEW x \in Entries, x # e PROVE Linked(st', http', fwd', x)
    <2>1. Apart(S, st', e)
      BY <1>6, <1>11, ElsewhereApart, ApartTrans
    <2>2. Kept(S, st', x) /\ Linked(S, h, fwd, x)
      BY <1>4, <1>12, <2>1 DEF Apart
    <2>3. fwd'[x] = fwd[x] /\ \A d \in Clients : http'[d] = x <=> h[d] = x
      BY <1>7, <1>9, <1>12, NullAssumption
    <2>. QED
      BY <2>2, <2>3, KeptLinked
  <1>13. Whole(st', {})
    BY <1>11, FineWhole
  <1>. QED
    BY <1>11, <1>12, <1>13 DEF Refd
-----------------------------------------------------------------------------
LEMMA InitRefd == Init => Refd
  <1> SUFFICES ASSUME Init PROVE Refd
    OBVIOUS
  <1>1. Good(st, {})
    BY InitInd DEF IndInv
  <1>2. \A x \in Entries :
           /\ st.key[x] = NoKey /\ st.lock[x] = {} /\ st.flags[x] = {} /\ st.status[x] = "STORE_OK"
           /\ st.swap[x] = "SWAPOUT_NONE" /\ st.filen[x] = -1 /\ st.mem[x] = "NULL"
           /\ ~st.sio[x] /\ st.clients[x] = {} /\ st.abort[x] = "unset" /\ fwd[x] = "none"
    BY DEF Init
  <1>3. st.log = {} /\ st.late = {} /\ st.size = 0 /\ st.ok /\ \A c \in Clients : http[c] = Null
    BY DEF Init
  <1>4. \A x \in Entries : Entry(st, x, {})
    BY <1>2, <1>3 DEF Entry, Shaped, FreeOK, MemOK, HoldOK, SwapOK, AbortOK, LeakOK
  <1>5. LogExact(st)
    BY <1>2, <1>3 DEF LogExact, Logged
  <1>6. SizeIs(st)
    <2>1. {x \in Entries : Stored(st, x)} = {}
      BY <1>2 DEF Stored
    <2>. QED
      BY <1>3, <2>1, FS_EmptySet DEF SizeIs
  <1>7. \A x \in Entries : Linked(st, http, fwd, x)
    BY <1>2, <1>3, NullAssumption DEF Linked, Requests, Servers, Fetched, Out
  <1>. QED
    BY <1>1, <1>3, <1>4, <1>5, <1>6, <1>7 DEF Refd, Whole

LEMMA NextRefd == StoreInv /\ [Next]_vars => Refd'
  <1> SUFFICES ASSUME StoreInv, [Next]_vars PROVE Refd'
    OBVIOUS
  <1>1. CASE UNCHANGED vars
    BY <1>1 DEF vars, StoreInv, Refd
  <1>2. CASE ClientStep
    BY <1>2, ClientCloseRefd, ClientHitRefd, ClientMissRefd DEF ClientStep
  <1>3. ASSUME NEW k \in Keys, Purge(k) PROVE Refd'
    BY <1>3, PurgeRefd
  <1>4. ASSUME NEW e \in Entries, ServerStep(e) PROVE Refd'
    BY <1>4, ServerConnectedRefd, ServerUnreachableRefd, ServerHeaderRefd, ServerBodyRefd,
       ServerCompleteRefd, ServerReforwardRefd, ServerClosedRefd, FwdAbortRefd DEF ServerStep
  <1>5. ASSUME NEW e \in Entries, StoreStep(e) PROVE Refd'
    BY <1>5, SwapFileClosedRefd, PurgeMemRefd, MaintainSwapSpaceRefd, LateReleaseRefd DEF StoreStep
  <1>6. CASE RebuildStep
    BY <1>6, PhaseRefd, ValidateEntryRefd, RebuildEntryRefd DEF RebuildStep
  <1>. QED
    BY <1>1, <1>2, <1>3, <1>4, <1>5, <1>6 DEF Next

(* The store, its requests and its server sides agree, always.               *)
THEOREM StoreInductive == Spec => []StoreInv
  <1>1. Init => StoreInv
    BY InitInd, InitRefd DEF StoreInv
  <1>2. StoreInv /\ [Next]_vars => StoreInv'
    BY NextInd, NextRefd DEF StoreInv
  <1>. QED
    BY <1>1, <1>2, PTL DEF Spec

(* lock_count is exactly the references: the store clients and their         *)
(* requests, the server side, the open swap file and the late-release stack. *)
THEOREM LocksAreReferences == Spec => []LocksExact
  <1>1. ASSUME StoreInv, NEW e \in Entries
        PROVE  st.clients[e] = {c \in Clients : http[c] = e}
    <2>1. Fine(st, {}, e, {}) /\ Linked(st, http, fwd, e) /\ st \in Store
      BY <1>1, HereFine
    <2>2. st.clients[e] \subseteq Clients
      BY <2>1 DEF Store
    <2>3. \A c \in Clients : c \in st.clients[e] <=> ScLock(c) \in st.lock[e]
      BY <2>1 DEF Fine, Loose, Shaped, HoldOK
    <2>4. \A c \in Clients : ScLock(c) \in st.lock[e] <=> http[c] = e
      BY <2>1, HoldersDiffer DEF Linked, Requests, Out
    <2>. QED
      BY <2>2, <2>3, <2>4
  <1>2. ASSUME StoreInv, NEW e \in Entries
        PROVE  st.lock[e] =
                 {HttpLock(c) : c \in st.clients[e]} \cup {ScLock(c) : c \in st.clients[e]}
                 \cup {RoleLock(r) : r \in
                         {x \in Roles : \/ x = "fwd" /\ fwd[e] # "none"
                                        \/ x = "server" /\ fwd[e] \in {"sent", "body"}
                                        \/ x = "swapout" /\ st.swap[e] = "SWAPOUT_WRITING"
                                        \/ x = "late" /\ e \in st.late}}
    <2> DEFINE Q(x) == \/ x = "fwd" /\ fwd[e] # "none"
                       \/ x = "server" /\ fwd[e] \in {"sent", "body"}
                       \/ x = "swapout" /\ st.swap[e] = "SWAPOUT_WRITING"
                       \/ x = "late" /\ e \in st.late
    <2>1. /\ Fine(st, {}, e, {}) /\ Linked(st, http, fwd, e) /\ st \in Store
          /\ F \in st.lock[e] <=> fwd[e] # "none"
          /\ ServerLock \in st.lock[e] <=> fwd[e] \in {"sent", "body"}
          /\ AbortLock \notin st.lock[e] /\ ErrorLock \notin st.lock[e]
      BY <1>2, HereFine
    <2>2. /\ Swapout \in st.lock[e] <=> st.swap[e] = "SWAPOUT_WRITING"
          /\ Late \in st.lock[e] <=> e \in st.late
      BY <2>1 DEF Fine, Loose, Shaped, HoldOK
    <2>3. ASSUME NEW r \in Roles PROVE RoleLock(r) \in st.lock[e] <=> Q(r)
      BY <2>1, <2>2 DEF Roles, F, ServerLock, AbortLock, ErrorLock, Swapout, Late
    <2>4. ASSUME NEW c \in Clients
          PROVE  /\ HttpLock(c) \in st.lock[e] <=> c \in st.clients[e]
                 /\ ScLock(c) \in st.lock[e] <=> c \in st.clients[e]
      <3>1. HttpLock(c) \in st.lock[e] <=> http[c] = e
        BY <2>1, HoldersDiffer DEF Linked, Requests, Out
      <3>2. ScLock(c) \in st.lock[e] <=> http[c] = e
        BY <2>1, HoldersDiffer DEF Linked, Requests, Out
      <3>3. c \in st.clients[e] <=> http[c] = e
        BY <1>1, <1>2
      <3>. QED
        BY <3>1, <3>2, <3>3
    <2>5. st.lock[e] \subseteq Holders /\ st.clients[e] \subseteq Clients
      BY <2>1 DEF Store
    <2> HIDE DEF Q
    <2>6. st.lock[e] = {HttpLock(c) : c \in st.clients[e]} \cup {ScLock(c) : c \in st.clients[e]}
                       \cup {RoleLock(r) : r \in {x \in Roles : Q(x)}}
      <3>1. ASSUME NEW y \in st.lock[e]
            PROVE  y \in {HttpLock(c) : c \in st.clients[e]} \cup {ScLock(c) : c \in st.clients[e]}
                         \cup {RoleLock(r) : r \in {x \in Roles : Q(x)}}
        <4>1. CASE \E r \in Roles : y = RoleLock(r)
          BY <2>3, <4>1
        <4>2. CASE \E c \in Clients : y = HttpLock(c)
          BY <2>4, <4>2
        <4>3. CASE \E c \in Clients : y = ScLock(c)
          BY <2>4, <4>3
        <4>. QED
          BY <2>5, <4>1, <4>2, <4>3 DEF Holders
      <3>2. /\ \A c \in st.clients[e] : HttpLock(c) \in st.lock[e] /\ ScLock(c) \in st.lock[e]
            /\ \A r \in {x \in Roles : Q(x)} : RoleLock(r) \in st.lock[e]
        BY <2>3, <2>4, <2>5
      <3>. QED
        BY <3>1, <3>2
    <2>. QED
      BY <2>6 DEF Q
  <1>3. ASSUME StoreInv, NEW e \in Entries
        PROVE  st.lock[e] # {} => Live(st, e)
    BY <1>3, HereFine DEF Fine, Loose, Shaped, FreeOK, Live
  <1>4. StoreInv => LocksExact
    BY <1>1, <1>2, <1>3 DEF LocksExact
  <1>. QED
    BY <1>4, StoreInductive, PTL

(* What nobody holds is complete, not released, and in memory or on disk.    *)
THEOREM NothingLeaksOut == Spec => []NothingLeaks
  <1>1. StoreInv => NothingLeaks
    BY HereFine DEF NothingLeaks, Fine, LeakOK, Live, Has
  <1>. QED
    BY <1>1, StoreInductive, PTL

(* A restart reads back from the swap log what can be found and is stored.   *)
THEOREM LogMatches == Spec => []SwapLogMatches
  <1>1. StoreInv => SwapLogMatches
    <2> SUFFICES ASSUME StoreInv PROVE SwapLogMatches
      OBVIOUS
    <2>1. LogExact(st)
      BY DEF StoreInv, Refd, Whole
    <2>. QED
      BY <2>1 DEF LogExact, Logged, SwapLogMatches, Public
  <1>. QED
    BY <1>1, StoreInductive, PTL

(* The disk account counts each stored and validated object once.            *)
THEOREM SizeCounts == Spec => []SizeExact
  <1>1. StoreInv => SizeExact
    BY DEF StoreInv, Refd, Whole, SizeIs, Stored, SizeExact, Has
  <1>. QED
    BY <1>1, StoreInductive, PTL

(* No assert() fails, in any order of events and callbacks.                  *)
THEOREM AssertsHold == Spec => []NoAssertFails
  <1>1. StoreInv => NoAssertFails
    BY DEF StoreInv, Refd, Whole, NoAssertFails
  <1>. QED
    BY <1>1, StoreInductive, PTL
-----------------------------------------------------------------------------
(* A request that arrives.  A keyword-list URL, a cache that does not keep   *)
(* its misses private and collapsed forwarding make the new entry public at  *)
(* once, at the expense of the old one; otherwise the others stay.           *)
Plain == VideoKeys = {} /\ NeighborsDoPrivateKeys /\ ~CollapsedForwarding

LEMMA PlainMiss ==
  ASSUME Plain, NEW S, Whole(S, {}), NEW e \in Entries, S.key[e] = NoKey, NEW k \in Keys,
         NEW c \in Clients, NEW cachable \in BOOLEAN, NEW hierarchical \in BOOLEAN,
         NEW collapse \in BOOLEAN, ~collapse
  PROVE  Elsewhere(S, MissEntry(S, c, k, e, cachable, hierarchical, collapse), e)
  <1> DEFINE N == new_StoreEntry(S, e, k, c)
             K == storeSetPrivateKey(N, e)
             C == StartCachable(K, e, cachable)
             V == SetFlag(C, e, "ENTRY_VALIDATED")
             T == [V EXCEPT !.status[e] = "STORE_PENDING"]
             R == storeClientRegister(T, e, c)
  <1>1. T = storeCreateEntry(S, e, k, cachable, hierarchical, c)
    BY DEF storeCreateEntry, Plain
  <1>2. R = MissEntry(S, c, k, e, cachable, hierarchical, collapse)
    BY <1>1 DEF MissEntry, CollapsedKey
  <1>3. /\ Whole(N, {e}) /\ Elsewhere(S, N, e) /\ N.key[e] = NoKey /\ Blank(N, e, k, c)
    BY new_StoreEntryWhole
  <1> HIDE DEF N
  <1>4. N \in Store /\ N.ok /\ N.filen[e] = -1 /\ N.flags[e] = {}
    BY <1>3 DEF Whole, Good, Blank
  <1>5. Touches(N, K, e, {"key", "log"}) /\ K.key[e] = Private
    BY <1>4, SetPrivateTouches
  <1> HIDE DEF K
  <1>6. /\ K \in Store /\ K.ok /\ K.filen[e] = -1 /\ K.flags[e] = {}
        /\ K.key[e] \in Keys \cup {Private}
    BY <1>4, <1>5 DEF Touches, Elsewhere
  <1>7. Touches(K, C, e, {"key", "log", "flags"})
    BY <1>6, StartTouches
  <1> HIDE DEF C
  <1>8. C \in Store
    BY <1>7 DEF Touches, Elsewhere
  <1>9. Touches(C, V, e, {"flags"})
    BY <1>8, FlagTouches DEF Flags
  <1> HIDE DEF V
  <1>10. V \in Store
    BY <1>9 DEF Touches, Elsewhere
  <1>11. Touches(V, T, e, {"status"})
    <2>1. ASSUME NEW v \in {"STORE_OK", "STORE_PENDING"}
          PROVE  LET U == [V EXCEPT !.status[e] = v] IN Touches(V, U, e, {"status"})
      BY <1>10, PutStatus
    <2>. QED
      BY <2>1
  <1> HIDE DEF T
  <1>12. Fine(T, {e}, e, {}) /\ Made(T, e, k, c) /\ Alone(T, e, c)
    BY <1>1, storeCreateEntryWhole
  <1>13. HttpLock(c) \in T.lock[e] /\ c \notin T.clients[e] /\ "ENTRY_ABORTED" \notin T.flags[e]
    BY <1>12 DEF Made, Alone
  <1>14. Touches(T, R, e, {"lock", "clients"})
    BY <1>12, <1>13, storeClientRegisterFine
  <1> HIDE DEF R
  <1>15. Elsewhere(S, V, e)
    BY <1>3, <1>5, <1>7, <1>9 DEF Touches, Elsewhere, SameEntry
  <1>16. Elsewhere(S, R, e)
    BY <1>11, <1>14, <1>15 DEF Touches, Elsewhere, SameEntry
  <1>. QED
    BY <1>2, <1>16

(* A client that ends up with another entry than it had.                     *)
Arrives(c) == http'[c] \notin {http[c], Null}

LEMMA HitKeeps ==
  ASSUME StoreInv, NEW d \in Clients, NEW k \in Keys, ClientHit(d, k), NEW x \in Entries
  PROVE  st'.key[x] = st.key[x]
  <1>0. PICK e \in Entries :
           /\ http[d] = Null /\ st.key[e] = k
           /\ ~Has(st, e, "RELEASE_REQUEST") /\ ~Has(st, e, "ENTRY_ABORTED")
           /\ LET L == storeLockObject(st, e, HttpLock(d))
                  M == IF L.mem[e] = "NULL"
                         THEN [L EXCEPT !.mem[e] = "NOT_IN_MEMORY", !.url[e] = k] ELSE L
              IN  st' = storeClientRegister(M, e, d)
           /\ http' = [http EXCEPT ![d] = e] /\ fwd' = fwd
    BY Zenon DEF ClientHit
  <1>1. /\ http[d] = Null /\ st.key[e] = k
        /\ "RELEASE_REQUEST" \notin st.flags[e] /\ "ENTRY_ABORTED" \notin st.flags[e]
        /\ st' = storeClientRegister(Recall(st, e, d, k), e, d)
    BY <1>0 DEF Has, Recall
  <1>2. Fine(st, {}, e, {}) /\ Linked(st, http, fwd, e)
    BY HereFine
  <1>3. HttpLock(d) \notin st.lock[e]
    BY <1>1, <1>2, HoldersDiffer, NullAssumption DEF Linked, Requests, Out
  <1>4. Joined(st, st', e, d)
    BY <1>1, <1>2, <1>3, HitFine
  <1>. QED
    BY <1>4 DEF Joined, Elsewhere, SameEntry

LEMMA MissKeeps ==
  ASSUME Plain, StoreInv, NEW c \in Clients, NEW k \in Keys, ClientMiss(c, k),
         NEW x \in Entries, x # http[c], Public(st, x)
  PROVE  st'.key[x] = st.key[x]
  <1>1. PICK e \in Entries, cachable \in BOOLEAN, hierarchical \in BOOLEAN, collapse \in BOOLEAN,
             denied \in BOOLEAN :
               \E quick, keep :
                 /\ collapse => CollapsedForwarding /\ cachable
                 /\ OnFreeEntry(LeaveHit(c, quick, keep), c, k, e, cachable, hierarchical, collapse,
                                denied, keep)
    BY DEF ClientMiss
  <1>2. PICK quick, keep :
                 /\ collapse => CollapsedForwarding /\ cachable
                 /\ OnFreeEntry(LeaveHit(c, quick, keep), c, k, e, cachable, hierarchical, collapse,
                                denied, keep)
    BY <1>1
  <1> DEFINE S == LeaveHit(c, quick, keep)
             h == [http EXCEPT ![c] = Null]
             M == MissEntry(S, c, k, e, cachable, hierarchical, collapse)
             q == FALSE
  <1>3. S.key[e] = NoKey /\ AnswerMiss(M, c, e, denied, keep) /\ ~collapse
    BY <1>2 DEF OnFreeEntry, Live, Plain
  <1>4. Whole(S, {}) /\ (\A y \in Entries : Linked(S, h, fwd, y)) /\ S.key[x] = st.key[x]
    BY LeaveLinked
  <1> HIDE DEF S
  <1>5. Elsewhere(S, M, e)
    BY <1>3, <1>4, PlainMiss
  <1>6. Fine(M, {e}, e, {}) /\ Made(M, e, k, c) /\ Ready(M, e, c)
    BY <1>3, <1>4, MissEntryFine
  <1> HIDE DEF M
  <1>7. /\ Answer(M, st', e, denied, q, keep)
        /\ fwd' = [fwd EXCEPT ![e] = IF denied THEN "none" ELSE "connect"]
        /\ http' = [http EXCEPT ![c] = e]
    BY <1>3 DEF AnswerMiss, Answer
  <1> HIDE DEF q
  <1>8. Begun(fwd', e, denied)
    BY <1>7 DEF StoreInv, IndInv, OthersTyped, Begun
  <1>9. \A d \in Clients : h[d] # e
    <2>1. S.lock[e] = {}
      BY <1>3, <1>4 DEF Whole, Raw, Entry, Shaped, FreeOK
    <2> HIDE DEF h
    <2>. QED
      BY <1>4, <2>1 DEF Linked, Requests, Out
  <1>10. OnlyOf(http', e, c)
    BY <1>7, <1>9 DEF StoreInv, IndInv, OthersTyped, OnlyOf
  <1>11. Elsewhere(M, st', e)
    BY <1>6, <1>7, <1>8, <1>10, AnswerLinked
  <1>12. x # e
    BY <1>3, <1>4, KeysAssumption DEF Public
  <1>. QED
    BY <1>4, <1>5, <1>11, <1>12 DEF Elsewhere, SameEntry

(* Only a hit or a miss gives a client an entry.                             *)
LEMMA DropsNone ==
  ASSUME StoreInv, NEW c \in Clients, http' = http \/ \E gone : DropClient(gone)
  PROVE  ~Arrives(c)
  BY DEF StoreInv, IndInv, OthersTyped, DropClient, Arrives

LEMMA OthersNone ==
  ASSUME StoreInv, NEW c \in Clients,
         \/ \E d \in Clients : ClientClose(d)
         \/ \E k \in Keys : Purge(k)
         \/ \E e \in Entries : ServerStep(e) \/ StoreStep(e)
         \/ RebuildStep
  PROVE  ~Arrives(c)
  <1>1. ASSUME NEW e \in Entries, ServerStep(e) PROVE http' = http \/ \E gone : DropClient(gone)
    BY <1>1 DEF ServerStep, ServerConnected, ServerUnreachable, ServerHeader, ServerBody,
                ServerComplete, ServerReforward, ServerClosed, FwdAbort
  <1>2. ASSUME NEW e \in Entries, StoreStep(e) PROVE http' = http
    BY <1>2 DEF StoreStep, SwapFileClosed, PurgeMem, MaintainSwapSpace, storeLateRelease
  <1>3. ASSUME RebuildStep PROVE http' = http
    BY <1>3 DEF RebuildStep, RebuildComplete, ValidationComplete, ValidateEntry, RebuildEntry
  <1>4. ASSUME NEW k \in Keys, Purge(k) PROVE http' = http
    BY <1>4 DEF Purge
  <1>5. ASSUME NEW d \in Clients, ClientClose(d) PROVE \E gone : DropClient(gone)
    BY <1>5 DEF ClientClose
  <1>. QED
    BY <1>1, <1>2, <1>3, <1>4, <1>5, DropsNone

(* In a cache without a keyword list, with private misses and no collapsed   *)
(* forwarding, a request takes no complete object away from the others.      *)
THEOREM RequestsKeepObjects == Plain => (Spec => RequestKeepsCached)
  <1> SUFFICES ASSUME Plain PROVE Spec => RequestKeepsCached
    OBVIOUS
  <1>1. ASSUME StoreInv, Next, NEW c \in Clients, NEW e \in Entries, Arrives(c), e # http[c], Public(st, e)
        PROVE  st'.key[e] = st.key[e]
    <2>1. PICK d \in Clients, k \in Keys : ClientHit(d, k) \/ ClientMiss(d, k)
      BY <1>1, OthersNone DEF Next, ClientStep
    <2>2. CASE ClientHit(d, k)
      BY <1>1, <2>2, HitKeeps
    <2>3. CASE ClientMiss(d, k)
      <3>1. http' = [http EXCEPT ![d] = http'[d]]
        BY <1>1, <2>3 DEF ClientMiss, OnFreeEntry, AnswerMiss, StoreInv, IndInv, OthersTyped
      <3>2. c = d
        BY <1>1, <3>1 DEF Arrives, StoreInv, IndInv, OthersTyped
      <3>. QED
        BY <1>1, <2>3, <3>2, MissKeeps
    <2>. QED
      BY <2>1, <2>2, <2>3
  <1>2. StoreInv /\ [Next]_vars =>
          [\A c \in Clients, e \in Entries :
              /\ http'[c] \notin {http[c], Null}
              /\ e # http[c] /\ Public(st, e) /\ st.status[e] = "STORE_OK"
              => st'.key[e] = st.key[e]]_vars
    BY <1>1 DEF Arrives
  <1>. QED
    BY <1>2, StoreInductive, PTL DEF Spec, RequestKeepsCached
=============================================================================
