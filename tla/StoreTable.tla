----------------------------- MODULE StoreTable -----------------------------
(***************************************************************************)
(* The storage manager's index: which StoreEntry answers to which key, who  *)
(* holds it, which swap file it owns and what the swap log says about it    *)
(* (store.c, store_swapout.c, store_dir.c), driven by the client side       *)
(* (client_side.c), the server side (forward.c, http.c), the disk layer and *)
(* the maintenance events.                                                  *)
(*                                                                          *)
(* Squid is one process with an event loop: an event handler runs to its    *)
(* end, with every call it makes, before the next one starts.  The store    *)
(* functions are therefore operators from a store record S to a store       *)
(* record, composed in the order of the code; an action of Next is one      *)
(* event.  Object bytes are abstracted: what depends on them is a choice    *)
(* among the outcomes the code has.                                         *)
(***************************************************************************)
EXTENDS Integers, FiniteSets

CONSTANTS
    Entries,                  \* StoreEntry structures the memory pool can hand out
    Keys,                     \* public cache keys
    VideoKeys,                \* keys of URLs the keyword list matches
    Clients,                  \* client-side requests (clientHttpRequest)
    Files,                    \* swap file numbers, 0 among them
    NeighborsDoPrivateKeys,   \* neighbors_do_private_keys
    CollapsedForwarding,      \* Config.onoff.collapsed_forwarding
    SyncClose,                \* storeClose() calls back at once (ufs) or later (aufs, diskd)
    Private, NoKey, Null      \* a private key, no key, no pointer

ASSUME KeysAssumption ==
    /\ Private \notin Keys /\ NoKey \notin Keys /\ Private # NoKey
    /\ VideoKeys \subseteq Keys
ASSUME NullAssumption == Null \notin Entries /\ Null \notin Clients
ASSUME EntriesAssumption == IsFiniteSet(Entries)
ASSUME FilesAssumption == Files \subseteq Nat
ASSUME ConfigAssumption ==
    /\ NeighborsDoPrivateKeys \in BOOLEAN
    /\ CollapsedForwarding \in BOOLEAN
    /\ SyncClose \in BOOLEAN

VARIABLES
    st,       \* the store: one record, its fields functions of the entry
    http,     \* http->entry of each client request
    hit,      \* the request found that entry, it did not create it
    fwd,      \* FwdState of each entry: none, connecting, request sent, reading the body
    orig      \* fwdState->orig_entry_flags has ENTRY_CACHABLE

vars == <<st, http, hit, fwd, orig>>

(***************************************************************************)
(* The store record.  A StoreEntry that is not allocated has NoKey and      *)
(* everything else at its initial value.  lock is lock_count with the       *)
(* holders named: its size is the count.  log is the set of swap-log ADD    *)
(* records no DEL record has cancelled; ok is FALSE once an assert fails.   *)
(***************************************************************************)
Flags == {"RELEASE_REQUEST", "ENTRY_CACHABLE", "KEY_EARLY_PUBLIC", "ENTRY_NEGCACHED",
          "ENTRY_ABORTED", "ENTRY_FWD_HDR_WAIT", "ENTRY_VALIDATED"}

Roles == {"fwd", "server", "swapout", "abort", "error", "late"}
RoleLock(r) == <<r, "squid">>
HttpLock(c) == <<"http", c>>
ScLock(c)   == <<"sc", c>>
Holders == {RoleLock(r) : r \in Roles} \cup {HttpLock(c) : c \in Clients}
           \cup {ScLock(c) : c \in Clients}

Store ==
    [key     : [Entries -> Keys \cup {Private, NoKey}],   \* e->hash.key and KEY_PRIVATE
     url     : [Entries -> Keys \cup {NoKey}],            \* the key mem->url is public under
     lock    : [Entries -> SUBSET Holders],               \* e->lock_count, by holder
     flags   : [Entries -> SUBSET Flags],                 \* e->flags
     status  : [Entries -> {"STORE_OK", "STORE_PENDING"}],
     swap    : [Entries -> {"SWAPOUT_NONE", "SWAPOUT_WRITING", "SWAPOUT_DONE"}],
     filen   : [Entries -> Files \cup {-1}],              \* e->swap_filen
     mem     : [Entries -> {"NULL", "NOT_IN_MEMORY", "IN_MEMORY"}],  \* e->mem_obj, e->mem_status
     sio     : [Entries -> BOOLEAN],                      \* mem->swapout.sio # NULL
     clients : [Entries -> SUBSET Clients],               \* mem->clients
     abort   : [Entries -> {"unset", "set", "queued"}],   \* mem->abort.callback, or its event
     map     : SUBSET Files,                              \* the file map's set bits
     log     : SUBSET (Keys \X Files),
     late    : SUBSET Entries,                            \* LateReleaseStack
     size    : Int,                                       \* n_disk_objects
     rebuild : {"reading", "validating", "done"},         \* store_dirs_rebuilding is 2, 1, 0
     ok      : BOOLEAN]

Public(S, e) == S.key[e] \in Keys
Live(S, e) == S.key[e] # NoKey
Has(S, e, f) == f \in S.flags[e]

\* assert(p): the process aborts when p does not hold
Must(S, p) == [S EXCEPT !.ok = @ /\ p]

SetFlag(S, e, f) == [S EXCEPT !.flags[e] = @ \cup {f}]
ClrFlag(S, e, f) == [S EXCEPT !.flags[e] = @ \ {f}]

(***************************************************************************)
(* Keys, the swap log and release (store.c, store_dir.c)                    *)
(***************************************************************************)
LogRecord(S, e) == {<<S.key[e], S.filen[e]>>}

\* storeDirSwapLog: the entry must be public and have a file
storeDirSwapLog(S, e, op) ==
    LET T == Must(S, Public(S, e) /\ S.filen[e] \in Files)
    IN  IF ~(Public(S, e) /\ S.filen[e] \in Files) THEN T
        ELSE [T EXCEPT !.log = IF op = "ADD" THEN @ \cup LogRecord(S, e)
                                             ELSE @ \ LogRecord(S, e)]

\* Mutation of storeSetPrivateKey: the swap log keeps the old key's record.
storeSetPrivateKeyNoLog(S, e) == [S EXCEPT !.key[e] = Private]

\* A fresh counter value makes every private key a new one, so one value stands for all.
storeSetPrivateKey(S, e) ==
    IF S.key[e] = Private THEN S
    ELSE [(IF Live(S, e) /\ S.filen[e] # -1 THEN storeDirSwapLog(S, e, "DEL") ELSE S)
            EXCEPT !.key[e] = Private]

\* Mutations of storeReleaseRequest: the entry stays cachable; it stays in the hash table.
storeReleaseRequestCachable(S, e) ==
    storeSetPrivateKey(SetFlag(S, e, "RELEASE_REQUEST"), e)
storeReleaseRequestFindable(S, e) ==
    SetFlag(ClrFlag(S, e, "ENTRY_CACHABLE"), e, "RELEASE_REQUEST")

storeReleaseRequest(S, e) ==
    IF Has(S, e, "RELEASE_REQUEST") THEN S
    ELSE storeSetPrivateKey(
           SetFlag(ClrFlag(S, e, "ENTRY_CACHABLE"), e, "RELEASE_REQUEST"), e)

storeEntryLocked(S, e) ==
    \/ S.lock[e] # {}
    \/ S.swap[e] = "SWAPOUT_WRITING"
    \/ S.status[e] = "STORE_PENDING"

destroy_MemObject(S, e) ==
    [Must(S, ~S.sio[e]) EXCEPT !.mem[e] = "NULL", !.sio[e] = FALSE,
                               !.url[e] = NoKey, !.clients[e] = {}, !.abort[e] = "unset"]

\* The structure goes back to the pool, its memory object and hash link with it.
destroy_StoreEntry(S, e) ==
    [destroy_MemObject(S, e) EXCEPT
        !.key[e] = NoKey, !.lock[e] = {}, !.flags[e] = {}, !.status[e] = "STORE_OK",
        !.swap[e] = "SWAPOUT_NONE", !.filen[e] = -1]

\* storeUnlink: the disk object and its bit in the file map
storeUnlink(S, e) == [S EXCEPT !.map = @ \ {S.filen[e]}]

\* While the index is being rebuilt a swap file must not be reused: the entry
\* waits on the stack under a lock of its own.
FreeMem(S, e) == IF S.mem[e] # "NULL" THEN destroy_MemObject(S, e) ELSE S

LateRelease(S, e) ==
    [SetFlag(FreeMem(storeSetPrivateKey(S, e), e), e, "RELEASE_REQUEST") EXCEPT
        !.lock[e] = @ \cup {RoleLock("late")}, !.late = @ \cup {e}]

\* Mutation of Discard: the size of the object is not given back.
DiscardNoSize(S, e) ==
    LET U == IF S.filen[e] # -1 THEN storeUnlink(S, e) ELSE S
    IN  destroy_StoreEntry(IF S.filen[e] # -1 /\ S.key[e] # Private
                             THEN storeDirSwapLog(U, e, "DEL") ELSE U, e)

Discard(S, e) ==
    LET U == IF S.filen[e] # -1
               THEN [storeUnlink(S, e) EXCEPT
                       !.size = IF S.swap[e] = "SWAPOUT_DONE" /\ Has(S, e, "ENTRY_VALIDATED")
                                  THEN @ - 1 ELSE @]
               ELSE S
    IN  destroy_StoreEntry(IF S.filen[e] # -1 /\ S.key[e] # Private
                             THEN storeDirSwapLog(U, e, "DEL") ELSE U, e)

storeRelease(S, e) ==
    IF storeEntryLocked(S, e) THEN storeReleaseRequest(S, e)
    ELSE IF S.rebuild # "done" /\ S.filen[e] # -1 THEN LateRelease(S, e)
    ELSE Discard(S, e)

storePurgeMem(S, e) ==
    IF S.mem[e] = "NULL" THEN S
    ELSE LET D == destroy_MemObject(S, e)
         IN  IF S.swap[e] # "SWAPOUT_DONE" THEN storeRelease(D, e) ELSE D

storeLockObject(S, e, h) == [Must(S, h \notin S.lock[e]) EXCEPT !.lock[e] = @ \cup {h}]

\* storeUnlockObject: the last unlock frees the entry or leaves it to the
\* replacement policies.  keep is storeKeepInMemory(): data from offset 0 is there.
DropLock(S, e, h) == [Must(S, h \in S.lock[e]) EXCEPT !.lock[e] = @ \ {h}]

\* Mutation of LastUnlock: RELEASE_REQUEST is not looked at.
LastUnlockKeeps(S, e, keep) ==
    IF keep /\ S.mem[e] # "NULL" THEN [S EXCEPT !.mem[e] = "IN_MEMORY"] ELSE storePurgeMem(S, e)

LastUnlock(S, e, keep) ==
    LET A == Must(S, S.clients[e] = {})
    IN  IF Has(A, e, "RELEASE_REQUEST") THEN storeRelease(A, e)
        ELSE IF keep /\ A.mem[e] # "NULL" THEN [A EXCEPT !.mem[e] = "IN_MEMORY"]
        ELSE storePurgeMem(A, e)

storeUnlockObject(S, e, h, keep) ==
    LET U == DropLock(S, e, h)
    IN  IF U.lock[e] # {} THEN U
        ELSE LastUnlock(IF U.status[e] = "STORE_PENDING"
                          THEN SetFlag(U, e, "RELEASE_REQUEST") ELSE U, e, keep)

\* Mutation of KickOut: the old entry is left alone.
KickOutNobody(S, k) == S

\* The entry found under the new key is made private and released first.
KickOut(S, k) ==
    IF \E e \in Entries : S.key[e] = k
      THEN LET e2 == CHOOSE e \in Entries : S.key[e] = k
           IN  storeRelease(storeSetPrivateKey(S, e2), e2)
      ELSE S

MayBePublic(S, e) == Must(S, S.mem[e] # "NULL" /\ ~Has(S, e, "RELEASE_REQUEST"))
LogNewKey(S, e) == IF S.filen[e] # -1 THEN storeDirSwapLog(S, e, "ADD") ELSE S

storeSetPublicKey(S, e) ==
    LET early == Public(S, e) /\ Has(S, e, "KEY_EARLY_PUBLIC")
    IN  IF Public(S, e) /\ ~early THEN S
        ELSE LogNewKey(
               [KickOut(
                  MayBePublic(
                    IF early THEN storeSetPrivateKey(ClrFlag(S, e, "KEY_EARLY_PUBLIC"), e)
                             ELSE S, e), S.url[e])
                EXCEPT !.key[e] = S.url[e]], e)

\* A zeroed structure with a memory object, locked for its creator
new_StoreEntry(S, e, k, c) ==
    [S EXCEPT !.flags[e] = {}, !.status[e] = "STORE_OK", !.swap[e] = "SWAPOUT_NONE",
              !.filen[e] = -1, !.mem[e] = "NOT_IN_MEMORY", !.url[e] = k,
              !.lock[e] = {HttpLock(c)}]

\* A request that is not cachable has its entry released from the start.
StartCachable(S, e, cachable) ==
    IF cachable THEN SetFlag(S, e, "ENTRY_CACHABLE") ELSE storeReleaseRequest(S, e)

\* Mutation of storeCreateEntry: every entry is public from the start.
storeCreateEntryPublic(S, e, k, cachable, hierarchical, c) ==
    [SetFlag(StartCachable(storeSetPublicKey(new_StoreEntry(S, e, k, c), e), e, cachable),
             e, "ENTRY_VALIDATED") EXCEPT !.status[e] = "STORE_PENDING"]

\* storeCreateEntry on a free structure.  A URL the keyword list matches is
\* public from here on, before a server has been asked for it.
storeCreateEntry(S, e, k, cachable, hierarchical, c) ==
    LET N == new_StoreEntry(S, e, k, c)
    IN  [SetFlag(StartCachable(IF k \in VideoKeys THEN storeSetPublicKey(N, e)
                               ELSE IF NeighborsDoPrivateKeys \/ ~hierarchical
                                 THEN storeSetPrivateKey(N, e)
                               ELSE storeSetPublicKey(N, e), e, cachable),
                 e, "ENTRY_VALIDATED") EXCEPT !.status[e] = "STORE_PENDING"]

(***************************************************************************)
(* Swapping out (store_swapout.c).  What the object's bytes and the disk    *)
(* decide is the outcome o = <<kind, f>> of a call of storeSwapOut:         *)
(*   wait      no full block to write yet, or nothing left to write         *)
(*   big       storeSwapOutAble refuses: the object grew past               *)
(*             maximum_object_size, or its head has left memory unwritten   *)
(*   unfit     storeCheckCachable refuses it: too small, too many open files*)
(*   nofile    no cache_dir takes it                                        *)
(*   openfail  file number f is taken but its file cannot be created        *)
(*   write     blocks are given to the file (f, if it has none yet)         *)
(*   werr      the same, and the write fails at once                        *)
(***************************************************************************)
Outcomes(S, e) ==
    IF S.sio[e]
      THEN ({"wait", "big", "write"} \cup (IF SyncClose THEN {"werr"} ELSE {})) \X {-1}
    ELSE IF S.swap[e] = "SWAPOUT_NONE"
      THEN ({"wait", "big", "unfit", "nofile"} \X {-1})
           \cup (({"openfail", "write"} \cup (IF SyncClose THEN {"werr"} ELSE {}))
                   \X (Files \ S.map))
    ELSE {"wait", "big"} \X {-1}

Cachable(S, e, fit) ==
    /\ ~Has(S, e, "RELEASE_REQUEST") /\ Has(S, e, "ENTRY_CACHABLE")
    /\ ~Has(S, e, "ENTRY_NEGCACHED") /\ fit /\ S.key[e] # Private

\* storeCheckCachable: a refused entry is released, unless it is negatively cached
storeCheckCachable(S, e, fit) ==
    IF \/ Cachable(S, e, fit)
       \/ Has(S, e, "ENTRY_CACHABLE") /\ Has(S, e, "ENTRY_NEGCACHED")
            /\ ~Has(S, e, "RELEASE_REQUEST")
      THEN S
      ELSE ClrFlag(storeReleaseRequest(S, e), e, "ENTRY_CACHABLE")

SwapOutAble(S, e, fit) ==
    S.mem[e] = "IN_MEMORY" \/ (fit /\ Has(S, e, "ENTRY_CACHABLE"))

\* Mutation of SwapFailed: the entry keeps the number of the file given up.
SwapFailedNumbered(S, e) ==
    LET U == IF S.filen[e] > 0 THEN storeUnlink(S, e) ELSE S
    IN  storeReleaseRequest([U EXCEPT !.swap[e] = "SWAPOUT_NONE"], e)

\* storeSwapOutFileClosed, the close callback of the swap file.  After an error
\* file number 0 is left in the map.
SwapFailed(S, e) ==
    LET U == IF S.filen[e] > 0 THEN storeUnlink(S, e) ELSE S
    IN  storeReleaseRequest([U EXCEPT !.filen[e] = -1, !.swap[e] = "SWAPOUT_NONE"], e)

SwapDone(S, e, fit) ==
    LET D == [S EXCEPT !.swap[e] = "SWAPOUT_DONE", !.size = @ + 1]
    IN  IF Cachable(D, e, fit) THEN storeDirSwapLog(D, e, "ADD")
        ELSE storeCheckCachable(D, e, fit)

\* storeSwapOutMaintainMemObject, with no file open
KeepOrRelease(S, e, fit) == IF SwapOutAble(S, e, fit) THEN S ELSE storeReleaseRequest(S, e)

storeSwapOutFileClosed(S, e, err, fit, keep) ==
    LET A == Must(S, S.swap[e] = "SWAPOUT_WRITING")
    IN  storeUnlockObject(
          KeepOrRelease([(IF err THEN SwapFailed(A, e) ELSE SwapDone(A, e, fit))
                           EXCEPT !.sio[e] = FALSE], e, fit),
          e, RoleLock("swapout"), keep)

storeSwapOutFileClose(S, e, fit, keep) ==
    LET C == [S EXCEPT !.sio[e] = FALSE]
    IN  IF ~S.sio[e] THEN S
        ELSE IF SyncClose THEN storeSwapOutFileClosed(C, e, FALSE, fit, keep) ELSE C

storeSwapOutMaintainMemObject(S, e, fit, keep) ==
    IF SwapOutAble(S, e, fit) THEN S
    ELSE storeSwapOutFileClose(storeReleaseRequest(S, e), e, fit, keep)

storeSwapOutStart(S, e, f) ==
    [storeLockObject(S, e, RoleLock("swapout")) EXCEPT
        !.swap[e] = "SWAPOUT_WRITING", !.filen[e] = f, !.sio[e] = TRUE, !.map = @ \cup {f}]

\* The blocks go to the open file; a complete object's file is closed after them.
WriteBlocks(S, e, o, keep) ==
    IF ~S.sio[e] THEN S
    ELSE IF o[1] = "werr" THEN storeSwapOutFileClosed(S, e, TRUE, TRUE, keep)
    ELSE IF S.status[e] = "STORE_OK" THEN storeSwapOutFileClose(S, e, TRUE, keep)
    ELSE S

BeginSwapOut(S, e, o, keep) ==
    LET fit == o[1] # "unfit"
        A == Must(S, ~S.sio[e])
    IN  IF ~Cachable(A, e, fit)
          THEN storeSwapOutMaintainMemObject(storeCheckCachable(A, e, fit), e, TRUE, keep)
        ELSE IF o[2] \notin Files \ A.map THEN A
        ELSE IF o[1] = "openfail" THEN [A EXCEPT !.map = @ \cup {o[2]}]
        ELSE WriteBlocks(storeSwapOutStart(A, e, o[2]), e, o, keep)

SwapOutBlocks(S, e, o, keep) ==
    IF o[1] = "wait"
      THEN IF S.status[e] = "STORE_OK" THEN storeSwapOutFileClose(S, e, TRUE, keep) ELSE S
    ELSE IF S.swap[e] = "SWAPOUT_NONE" /\ ~Has(S, e, "ENTRY_FWD_HDR_WAIT")
      THEN BeginSwapOut(S, e, o, keep)
    ELSE WriteBlocks(S, e, o, keep)

storeSwapOut(S, e, o, keep) ==
    LET fit == o[1] # "big"
    IN  IF S.mem[e] = "NULL" THEN S
        ELSE IF Has(S, e, "ENTRY_ABORTED")
          THEN storeSwapOutFileClose(Must(S, Has(S, e, "RELEASE_REQUEST")), e, FALSE, keep)
        ELSE IF ~SwapOutAble(S, e, fit) THEN storeSwapOutMaintainMemObject(S, e, fit, keep)
        ELSE SwapOutBlocks(storeSwapOutMaintainMemObject(S, e, fit, keep), e, o, keep)

(***************************************************************************)
(* Store clients, abort and completion (store_client.c, store.c)            *)
(***************************************************************************)
storeClientRegister(S, e, c) ==
    [storeLockObject(Must(S, S.mem[e] # "NULL"), e, ScLock(c)) EXCEPT
        !.clients[e] = @ \cup {c}]

\* storeAbort and storeRequestFailed: the pending entry is held and released
GiveUp(S, e) ==
    LET A == Must(S, S.status[e] = "STORE_PENDING" /\ S.mem[e] # "NULL")
    IN  storeReleaseRequest(storeLockObject(A, e, RoleLock("abort")), e)

\* Mutation of storeAbort: a status of its own.
storeAbortStatus(S, e, keep) ==
    [SetFlag(GiveUp(S, e), e, "ENTRY_ABORTED") EXCEPT !.status[e] = "STORE_ABORTED"]

\* The server side is told through an event, not called.
storeAbort(S, e, keep) ==
    storeUnlockObject(
      storeSwapOutFileClose(
        [SetFlag(GiveUp(S, e), e, "ENTRY_ABORTED") EXCEPT
            !.status[e] = "STORE_OK",
            !.abort[e] = IF @ = "set" THEN "queued" ELSE @],
        e, FALSE, keep),
      e, RoleLock("abort"), keep)

\* quick is CheckQuickAbort2(): what is left is not worth fetching
CheckQuickAbort(S, e, quick, keep) ==
    IF S.clients[e] = {} /\ S.status[e] = "STORE_PENDING" /\ quick
      THEN storeAbort(S, e, keep) ELSE S

storeClientUnregister(S, e, c, o, quick, keep) ==
    LET R == [S EXCEPT !.clients[e] = @ \ {c}]
    IN  storeUnlockObject(
          CheckQuickAbort(
            storeSwapOutMaintainMemObject(
              IF R.status[e] = "STORE_OK" /\ R.swap[e] # "SWAPOUT_DONE"
                THEN storeSwapOut(R, e, o, keep) ELSE R,
              e, o[1] # "big", keep),
            e, quick, keep),
          e, ScLock(c), keep)

\* Mutation of ClientLeave: http->entry is dropped without unlocking.
ClientLeaveLocked(S, e, c, o, quick, keep) == storeClientUnregister(S, e, c, o, quick, keep)

\* The client's end of a request: httpRequestFree, or a hit turned into a miss.
ClientLeave(S, e, c, o, quick, keep) ==
    storeUnlockObject(storeClientUnregister(S, e, c, o, quick, keep), e, HttpLock(c), keep)

\* A client whose callback closes its connection leaves from inside the loop.
InvokeHandlers(S, e, gone, o, quick, keep) ==
    IF gone \in S.clients[e] THEN ClientLeave(S, e, gone, o, quick, keep) ELSE S

storeComplete(S, e, valid, gone, o, quick, keep) ==
    LET T == [Must(S, S.mem[e] = "NOT_IN_MEMORY") EXCEPT !.status[e] = "STORE_OK"]
    IN  IF S.status[e] # "STORE_PENDING"
          THEN Must(S, Has(S, e, "ENTRY_ABORTED") /\ S.clients[e] = {})
          ELSE InvokeHandlers(
                 storeSwapOut(IF valid THEN T ELSE storeReleaseRequest(T, e), e, o, keep),
                 e, gone, o, quick, keep)

errorAppendEntry(S, e, gone, quick, keep) ==
    LET L == storeLockObject(S, e, RoleLock("error"))
    IN  IF S.status[e] # "STORE_PENDING"
          THEN Must(S, Has(S, e, "ENTRY_ABORTED") /\ S.clients[e] = {})
          ELSE storeUnlockObject(
                 storeComplete(storeReleaseRequest(ClrFlag(L, e, "ENTRY_FWD_HDR_WAIT"), e),
                               e, TRUE, gone, <<"wait", -1>>, quick, keep),
                 e, RoleLock("error"), keep)

\* data: part of the reply has been stored; if not, an error page takes its place
CutOrReplace(S, e, data, quick, keep) ==
    IF data THEN ClrFlag(SetFlag(S, e, "ENTRY_ABORTED"), e, "ENTRY_FWD_HDR_WAIT")
    ELSE errorAppendEntry(S, e, Null, quick, keep)

storeRequestFailed(S, e, data, gone, quick, keep) ==
    storeUnlockObject(
      storeSwapOutFileClose(
        InvokeHandlers([CutOrReplace(GiveUp(S, e), e, data, quick, keep)
                          EXCEPT !.status[e] = "STORE_OK"],
                       e, gone, <<"wait", -1>>, quick, keep),
        e, FALSE, keep),
      e, RoleLock("abort"), keep)

(***************************************************************************)
(* The server side (forward.c, http.c)                                      *)
(***************************************************************************)
fwdStart(S, e) ==
    [SetFlag(storeLockObject(S, e, RoleLock("fwd")), e, "ENTRY_FWD_HDR_WAIT") EXCEPT
        !.abort[e] = "set"]

\* server: an httpState exists, freed by the close of its connection
httpStateFree(S, e, server, keep) ==
    IF server THEN storeUnlockObject(S, e, RoleLock("server"), keep) ELSE S

Unregister(S, e) ==
    [Must(S, S.clients[e] # {} => ~Has(S, e, "ENTRY_FWD_HDR_WAIT")) EXCEPT !.abort[e] = "unset"]

fwdStateFree(S, e, server, data, gone, quick, keep) ==
    LET M == Must(S, S.mem[e] # "NULL")
    IN  httpStateFree(
          storeUnlockObject(
            Unregister(IF S.status[e] = "STORE_PENDING"
                         THEN storeRequestFailed(M, e, data, gone, quick, keep) ELSE M, e),
            e, RoleLock("fwd"), keep),
          e, server, keep)

httpMakePublic(S, e) == IF Has(S, e, "ENTRY_CACHABLE") THEN storeSetPublicKey(S, e) ELSE S

httpMakePrivate(S, e) == storeReleaseRequest(S, e)

ReleaseExpired(S, e, expired) == IF expired THEN storeRelease(S, e) ELSE S

httpCacheNegatively(S, e, expired) ==
    ReleaseExpired(httpMakePublic(SetFlag(S, e, "ENTRY_NEGCACHED"), e), e, expired)

\* A private reply to the same URL outdates the public copy.
httpMaybeRemovePublic(S, e, remove) ==
    IF remove /\ S.key[e] = Private /\ \E pe \in Entries : S.key[pe] = S.url[e]
      THEN storeRelease(S, CHOOSE pe \in Entries : S.key[pe] = S.url[e])
      ELSE S

\* verdict is httpCachableReply(), an expired negative reply told apart
ApplyVerdict(S, e, verdict) ==
    CASE verdict = "public"  -> httpMakePublic(S, e)
      [] verdict = "private" -> httpMakePrivate(S, e)
      [] verdict = "negative" -> httpCacheNegatively(S, e, FALSE)
      [] verdict = "expired" -> httpCacheNegatively(S, e, TRUE)

RemoveOutdated(S, e, remove) ==
    IF NeighborsDoPrivateKeys /\ ~CollapsedForwarding
      THEN httpMaybeRemovePublic(S, e, remove) ELSE S

httpProcessReplyHeader(S, e, verdict, remove) ==
    RemoveOutdated(ApplyVerdict(Must(S, S.status[e] = "STORE_PENDING"), e, verdict), e, remove)

storeBufferFlush(S, e, gone, o, quick, keep) ==
    storeSwapOut(InvokeHandlers(S, e, gone, <<"wait", -1>>, quick, keep), e, o, keep)

\* fwdComplete, re-forwarding: the entry is emptied and tried with the next server
Reforward(S, e) ==
    LET R == Must(S, S.status[e] = "STORE_PENDING" /\ ~S.sio[e])
        N == IF Has(R, e, "ENTRY_NEGCACHED")
               THEN ClrFlag(ClrFlag(storeSetPrivateKey(R, e), e, "ENTRY_NEGCACHED"),
                            e, "KEY_EARLY_PUBLIC")
               ELSE R
        Q == IF Has(N, e, "RELEASE_REQUEST")
               THEN ClrFlag(ClrFlag(N, e, "RELEASE_REQUEST"), e, "KEY_EARLY_PUBLIC")
               ELSE N
    IN  IF orig[e] THEN SetFlag(Q, e, "ENTRY_CACHABLE") ELSE Q

(***************************************************************************)
(* Events.  gone is the client a callback drops, if any.                    *)
(***************************************************************************)
Gone(e) == st.clients[e] \cup {Null}

\* CheckQuickAbort2() and storeKeepInMemory() have a say once no client is left.
Last(e, gone) == st.clients[e] \subseteq {gone}
Quick(e, gone) == IF gone # Null /\ Last(e, gone) THEN BOOLEAN ELSE {FALSE}
Keep(e, gone) == IF Last(e, gone) THEN BOOLEAN ELSE {TRUE}

DropClient(c) ==
    /\ http' = IF c = Null THEN http ELSE [http EXCEPT ![c] = Null]
    /\ hit'  = IF c = Null THEN hit ELSE [hit EXCEPT ![c] = FALSE]

\* A freed FwdState forgets the flags it started with.
FwdBecomes(e, s) ==
    /\ fwd' = [fwd EXCEPT ![e] = s]
    /\ orig' = IF s = "none" THEN [orig EXCEPT ![e] = FALSE] ELSE orig

\* clientProcessRequest, hit: a new store client on an entry found under its key
ClientHit(c, k) ==
    \E e \in Entries :
        /\ http[c] = Null
        /\ st.key[e] = k
        /\ ~Has(st, e, "RELEASE_REQUEST") /\ ~Has(st, e, "ENTRY_ABORTED")
        /\ LET L == storeLockObject(st, e, HttpLock(c))
               M == IF L.mem[e] = "NULL"
                      THEN [L EXCEPT !.mem[e] = "NOT_IN_MEMORY", !.url[e] = k] ELSE L
           IN  st' = storeClientRegister(M, e, c)
        /\ http' = [http EXCEPT ![c] = e]
        /\ hit' = [hit EXCEPT ![c] = TRUE]
        /\ UNCHANGED <<fwd, orig>>

\* A hit that turned out unusable is dropped first.
LeaveHit(c, quick, keep) ==
    IF http[c] = Null THEN st ELSE ClientLeave(st, http[c], c, <<"wait", -1>>, quick, keep)

\* Other requests may find the entry while it is being fetched.
CollapsedKey(S, e, collapse) ==
    IF collapse THEN storeSetPublicKey(SetFlag(S, e, "KEY_EARLY_PUBLIC"), e) ELSE S

MissEntry(S, c, k, e, cachable, hierarchical, collapse) ==
    CollapsedKey(storeClientRegister(storeCreateEntry(S, e, k, cachable, hierarchical, c), e, c),
                 e, collapse)

\* Access is denied and the entry gets an error page, or the request is forwarded.
AnswerMiss(S, c, e, denied, keep) ==
    /\ st' = IF denied THEN errorAppendEntry(S, e, Null, FALSE, keep) ELSE fwdStart(S, e)
    /\ fwd' = [fwd EXCEPT ![e] = IF denied THEN "none" ELSE "connect"]
    /\ orig' = [orig EXCEPT ![e] = ~denied /\ Has(S, e, "ENTRY_CACHABLE")]
    /\ http' = [http EXCEPT ![c] = e]
    /\ hit' = [hit EXCEPT ![c] = FALSE]

OnFreeEntry(S, c, k, e, cachable, hierarchical, collapse, denied, keep) ==
    /\ ~Live(S, e)
    /\ AnswerMiss(MissEntry(S, c, k, e, cachable, hierarchical, collapse), c, e, denied, keep)

\* clientProcessMiss.  A denied request's entry is made with null_request_flags; a
\* cachable request that asks for no validation is collapsed.
ClientMiss(c, k) ==
    \E e \in Entries, cachable, hierarchical, collapse, denied \in BOOLEAN,
       quick, keep \in IF http[c] = Null THEN {FALSE} ELSE BOOLEAN :
        /\ http[c] # Null => hit[c] /\ k = st.url[http[c]]
        /\ denied => ~cachable /\ ~hierarchical
        /\ collapse => CollapsedForwarding /\ cachable
        /\ OnFreeEntry(LeaveHit(c, quick, keep), c, k, e, cachable, hierarchical, collapse,
                       denied, keep)

\* httpRequestFree: the client connection is gone
ClientClose(c) ==
    \E e \in Entries : \E quick \in Quick(e, c), keep \in Keep(e, c), o \in Outcomes(st, e) :
        /\ http[c] = e
        /\ st.status[e] = "STORE_OK" \/ o[1] \in {"wait", "big"}   \* storeClientUnregister
        /\ st' = ClientLeave(st, e, c, o, quick, keep)
        /\ DropClient(c)
        /\ UNCHANGED <<fwd, orig>>

\* clientPurgeRequest, an HTCP CLR, and a swap-in that cannot open its file
Purge(k) ==
    \E e \in Entries :
        /\ st.key[e] = k
        /\ st' = storeRelease(st, e)
        /\ UNCHANGED <<http, hit, fwd, orig>>

\* httpStart: the connection is up; a proxy-only peer's reply is not kept
ServerConnected(e) ==
    \E proxyOnly \in BOOLEAN :
        /\ fwd[e] = "connect"
        /\ LET L == storeLockObject(st, e, RoleLock("server"))
           IN  st' = IF proxyOnly THEN storeReleaseRequest(L, e) ELSE L
        /\ FwdBecomes(e, "sent")
        /\ UNCHANGED <<http, hit>>

\* No connection and no server left to try
ServerUnreachable(e) ==
    \E gone \in Gone(e) : \E quick \in Quick(e, gone), keep \in Keep(e, gone) :
        /\ fwd[e] = "connect"
        /\ st' = fwdStateFree(st, e, FALSE, FALSE, gone, quick, keep)
        /\ FwdBecomes(e, "none")
        /\ DropClient(gone)

\* again: the status is one another server may better, so clients go on waiting
HeaderSeen(S, e, again) == IF again THEN S ELSE ClrFlag(S, e, "ENTRY_FWD_HDR_WAIT")

\* httpReadReply, the reply header: cachability, then the first flush
ServerHeader(e) ==
    \E verdict \in {"public", "private", "negative", "expired"}, remove, again \in BOOLEAN,
       gone \in Gone(e), o \in Outcomes(st, e) : \E quick \in Quick(e, gone) :
        /\ fwd[e] = "sent" /\ ~Has(st, e, "ENTRY_ABORTED")
        /\ again => verdict # "public"    \* fwdReforwardableStatus: errors only
        /\ remove => \E pe \in Entries : st.key[pe] = st.url[e]
        /\ st' = storeBufferFlush(
                   HeaderSeen(httpProcessReplyHeader(st, e, verdict, remove), e, again),
                   e, gone, o, quick, TRUE)
        /\ FwdBecomes(e, "body")
        /\ DropClient(gone)

\* httpReadReply, body data: storeAppend and the flush
ServerBody(e) ==
    \E gone \in Gone(e), o \in Outcomes(st, e) : \E quick \in Quick(e, gone) :
        /\ fwd[e] = "body" /\ ~Has(st, e, "ENTRY_ABORTED")
        /\ st' = storeBufferFlush(Must(st, st.status[e] = "STORE_PENDING"),
                                  e, gone, o, quick, TRUE)
        /\ DropClient(gone)
        /\ UNCHANGED <<fwd, orig>>

\* fwdComplete without another try; httpState and fwdState are freed
ServerComplete(e) ==
    \E gone \in Gone(e), o \in Outcomes(st, e), valid \in BOOLEAN :
      \E quick \in Quick(e, gone), keep \in Keep(e, gone) :
        LET A == Must(st, st.status[e] = "STORE_PENDING")
        IN  /\ fwd[e] = "body" /\ ~Has(st, e, "ENTRY_ABORTED")
            /\ st' = fwdStateFree(storeComplete(ClrFlag(A, e, "ENTRY_FWD_HDR_WAIT"),
                                               e, valid, gone, o, quick, keep),
                                  e, TRUE, TRUE, Null, quick, keep)
            /\ FwdBecomes(e, "none")
            /\ DropClient(gone)

\* fwdComplete, the reply is an error another server may not give
ServerReforward(e) ==
    \E keep \in Keep(e, Null) :
        /\ fwd[e] = "body" /\ Has(st, e, "ENTRY_FWD_HDR_WAIT") /\ ~Has(st, e, "ENTRY_ABORTED")
        /\ st' = storeUnlockObject(Reforward(st, e), e, RoleLock("server"), keep)
        /\ FwdBecomes(e, "connect")
        /\ UNCHANGED <<http, hit>>

\* comm_close of the server connection before the end: retried while nothing was stored
ServerClosed(e) ==
    \E retry \in BOOLEAN, gone \in Gone(e) : \E quick \in Quick(e, gone), keep \in Keep(e, gone) :
        LET data == fwd[e] = "body"
        IN  /\ fwd[e] \in {"sent", "body"}
            /\ retry => st.status[e] = "STORE_PENDING" /\ ~data /\ gone = Null
            /\ st' = IF retry THEN storeUnlockObject(st, e, RoleLock("server"), keep)
                     ELSE fwdStateFree(st, e, TRUE, data, gone, quick, keep)
            /\ FwdBecomes(e, IF retry THEN "connect" ELSE "none")
            /\ DropClient(gone)

\* The event storeAbort queued: fwdAbort
FwdAbort(e) ==
    \E keep \in Keep(e, Null) :
        /\ st.abort[e] = "queued"
        /\ st' = fwdStateFree(st, e, fwd[e] # "connect", TRUE, Null, FALSE, keep)
        /\ FwdBecomes(e, "none")
        /\ UNCHANGED <<http, hit>>

\* The disk layer's close callback, of a close asked for or of a failed write
SwapFileClosed(e) ==
    \E err, fit \in BOOLEAN, keep \in Keep(e, Null) :
        /\ st.swap[e] = "SWAPOUT_WRITING"
        /\ ~SyncClose /\ (~st.sio[e] \/ err)
        /\ st' = storeSwapOutFileClosed(st, e, err, fit, keep)
        /\ UNCHANGED <<http, hit, fwd, orig>>

\* storeGetMemSpace purges a hot object, storeUfsDirMaintain a stored one
PurgeMem(e) ==
    /\ st.mem[e] = "IN_MEMORY" /\ ~storeEntryLocked(st, e)
    /\ st' = storePurgeMem(st, e)
    /\ UNCHANGED <<http, hit, fwd, orig>>

MaintainSwapSpace(e) ==
    /\ st.rebuild = "done" /\ Live(st, e) /\ st.filen[e] # -1 /\ ~storeEntryLocked(st, e)
    /\ st' = storeRelease(st, e)
    /\ UNCHANGED <<http, hit, fwd, orig>>

(***************************************************************************)
(* Rebuilding the index at start-up (fs/ufs/store_dir_ufs.c, store_rebuild.c)*)
(***************************************************************************)
storeUfsDirAddDiskRestore(S, e, k, f) ==
    storeDirSwapLog(
        [S EXCEPT !.key[e] = k, !.filen[e] = f, !.swap[e] = "SWAPOUT_DONE",
                  !.flags[e] = {"ENTRY_CACHABLE"}, !.map = @ \cup {f}],
        e, "ADD")

\* A file of the cache_dir whose entry is newer than the one in memory, if any
RebuildEntry(k, f) ==
    \E e \in Entries :
        LET S0 == IF \E e2 \in Entries : st.key[e2] = k
                    THEN storeRelease(st, CHOOSE e2 \in Entries : st.key[e2] = k) ELSE st
        IN  /\ st.rebuild = "reading" /\ f \notin st.map /\ ~Live(S0, e)
            /\ st' = storeUfsDirAddDiskRestore(S0, e, k, f)
            /\ UNCHANGED <<http, hit, fwd, orig>>

RebuildComplete ==
    /\ st.rebuild = "reading"
    /\ st' = [st EXCEPT !.rebuild = "validating"]
    /\ UNCHANGED <<http, hit, fwd, orig>>

Unvalidated(S) == {e \in Entries : /\ Live(S, e) /\ S.filen[e] # -1
                                   /\ ~Has(S, e, "ENTRY_VALIDATED")}

\* storeCleanup, one entry
ValidateEntry(e) ==
    LET V == [SetFlag(st, e, "ENTRY_VALIDATED") EXCEPT !.size = @ + 1]
    IN  /\ st.rebuild = "validating" /\ e \in Unvalidated(st)
        /\ st' = IF V.key[e] = Private THEN storeRelease(V, e) ELSE V
        /\ UNCHANGED <<http, hit, fwd, orig>>

ValidationComplete ==
    /\ st.rebuild = "validating" /\ Unvalidated(st) = {}
    /\ st' = [st EXCEPT !.rebuild = "done"]
    /\ UNCHANGED <<http, hit, fwd, orig>>

\* Mutation of storeLateRelease: the stack is emptied, the lock stays.
storeLateReleaseLocked(e) ==
    /\ st.rebuild = "done" /\ e \in st.late
    /\ st' = [st EXCEPT !.late = @ \ {e}]
    /\ UNCHANGED <<http, hit, fwd, orig>>

storeLateRelease(e) ==
    /\ st.rebuild = "done" /\ e \in st.late
    /\ st' = storeUnlockObject([st EXCEPT !.late = @ \ {e}], e, RoleLock("late"), FALSE)
    /\ UNCHANGED <<http, hit, fwd, orig>>

-----------------------------------------------------------------------------
Init ==
    /\ st = [key |-> [e \in Entries |-> NoKey], url |-> [e \in Entries |-> NoKey],
             lock |-> [e \in Entries |-> {}], flags |-> [e \in Entries |-> {}],
             status |-> [e \in Entries |-> "STORE_OK"],
             swap |-> [e \in Entries |-> "SWAPOUT_NONE"],
             filen |-> [e \in Entries |-> -1], mem |-> [e \in Entries |-> "NULL"],
             sio |-> [e \in Entries |-> FALSE], clients |-> [e \in Entries |-> {}],
             abort |-> [e \in Entries |-> "unset"], map |-> {}, log |-> {}, late |-> {},
             size |-> 0, rebuild |-> "reading", ok |-> TRUE]
    /\ http = [c \in Clients |-> Null] /\ hit = [c \in Clients |-> FALSE]
    /\ fwd = [e \in Entries |-> "none"] /\ orig = [e \in Entries |-> FALSE]

ClientStep == \E c \in Clients : ClientClose(c) \/ \E k \in Keys : ClientHit(c, k) \/ ClientMiss(c, k)
ServerStep(e) ==
    \/ ServerConnected(e) \/ ServerUnreachable(e) \/ ServerHeader(e) \/ ServerBody(e)
    \/ ServerComplete(e) \/ ServerReforward(e) \/ ServerClosed(e) \/ FwdAbort(e)
StoreStep(e) == SwapFileClosed(e) \/ PurgeMem(e) \/ MaintainSwapSpace(e) \/ storeLateRelease(e)
RebuildStep ==
    \/ RebuildComplete \/ ValidationComplete
    \/ \E e \in Entries : ValidateEntry(e)
    \/ \E k \in Keys, f \in Files : RebuildEntry(k, f)

Next ==
    \/ ClientStep
    \/ \E k \in Keys : Purge(k)
    \/ \E e \in Entries : ServerStep(e) \/ StoreStep(e)
    \/ RebuildStep

Spec == Init /\ [][Next]_vars

(***************************************************************************)
(* What the code's scheduling guarantees, as weak fairness of the actions    *)
(* that end a wait; each is enabled exactly while the state it ends lasts,   *)
(* so WF is that the state does not last forever:                            *)
(*   - a client's connection ends: the data is sent or its lifetime timeout  *)
(*     comes (ClientClose);                                                  *)
(*   - a server side ends: n_tries and the connect and read timeouts bound   *)
(*     it (ServerUnreachable, ServerComplete, ServerClosed without retry);   *)
(*   - a queued event runs (FwdAbort), the disk answers a close              *)
(*     (SwapFileClosed), the late-release event reschedules itself until the *)
(*     stack is empty;                                                       *)
(*   - the rebuild and validation events reschedule themselves until done.   *)
(***************************************************************************)
FairSpec ==
    /\ Spec
    /\ \A c \in Clients : []<>(http[c] = Null)
    /\ \A e \in Entries : /\ []<>(fwd[e] = "none")
                           /\ []<>(st.abort[e] # "queued")
                           /\ []<>(st.swap[e] # "SWAPOUT_WRITING" \/ st.sio[e])
                           /\ []<>(e \notin st.late)
    /\ <>(st.rebuild = "done")

(***************************************************************************)
(* Correctness                                                              *)
(***************************************************************************)

\* Every field has its type.
TypeOK ==
    /\ st \in Store
    /\ http \in [Clients -> Entries \cup {Null}]
    /\ hit \in [Clients -> BOOLEAN]
    /\ fwd \in [Entries -> {"none", "connect", "sent", "body"}]
    /\ orig \in [Entries -> BOOLEAN]

\* No assert() of the store, of the forwarding code or of the swap log fails,
\* whatever the order of events and of callbacks inside them.
NoAssertFails == st.ok

\* A public key finds at most one entry: storeSetPublicKey and the rebuild
\* both remove the old one before the new one is inserted.
PublicKeyUnique ==
    \A e1, e2 \in Entries : Public(st, e1) /\ st.key[e1] = st.key[e2] => e1 = e2

\* lock_count is exactly the references held: no reference outlives its entry
\* and no lock outlives its reference, through every abort, retry and close.
LocksExact ==
    \A e \in Entries :
        /\ st.clients[e] = {c \in Clients : http[c] = e}
        /\ st.lock[e] =
             {HttpLock(c) : c \in st.clients[e]} \cup {ScLock(c) : c \in st.clients[e]}
             \cup {RoleLock(r) : r \in
                     {x \in Roles : \/ x = "fwd" /\ fwd[e] # "none"
                                    \/ x = "server" /\ fwd[e] \in {"sent", "body"}
                                    \/ x = "swapout" /\ st.swap[e] = "SWAPOUT_WRITING"
                                    \/ x = "late" /\ e \in st.late}}
        /\ st.lock[e] # {} => Live(st, e)

\* An entry asked to be released cannot be found any more, whichever of the many
\* paths to storeReleaseRequest and storeUnlockObject it took.
ReleasedNotFindable ==
    \A e \in Entries : Has(st, e, "RELEASE_REQUEST") => ~Public(st, e)

\* Nothing leaks: an entry asked to be released is held by somebody whose unlock
\* will free it, and an entry nobody holds is complete and its data is in memory
\* or on disk, where the replacement policies find it.
NothingLeaks ==
    \A e \in Entries : Live(st, e) /\ st.lock[e] = {} =>
        /\ ~Has(st, e, "RELEASE_REQUEST")
        /\ st.status[e] = "STORE_OK"
        /\ st.swap[e] = "SWAPOUT_DONE" \/ st.mem[e] = "IN_MEMORY"

\* The swap log lists exactly the complete files of findable entries: a restart
\* brings back every stored object and none that was released.
SwapLogMatches ==
    st.log = {<<st.key[e], st.filen[e]>> :
                e \in {x \in Entries : Public(st, x) /\ st.swap[x] = "SWAPOUT_DONE"}}

\* A swap file belongs to one entry and its number is not free for another.
FileOwnership ==
    \A e \in Entries : st.filen[e] # -1 =>
        /\ st.filen[e] \in st.map
        /\ \A e2 \in Entries \ {e} : st.filen[e2] # st.filen[e]

\* The disk space account counts every stored, validated object exactly once.
SizeExact ==
    st.size = Cardinality({e \in Entries : /\ st.swap[e] = "SWAPOUT_DONE"
                                           /\ Has(st, e, "ENTRY_VALIDATED")})

\* A request that arrives, whatever becomes of it, leaves alone the complete
\* objects that other requests can find: only a reply replaces one.
RequestKeepsCached ==
    [][\A c \in Clients, e \in Entries :
          /\ http'[c] \notin {http[c], Null}
          /\ e # http[c] /\ Public(st, e) /\ st.status[e] = "STORE_OK"
          => st'.key[e] = st.key[e]]_vars

\* An entry asked to be released is freed in the end, or fetched anew by a
\* re-forward: no combination of aborts, failed writes and the rebuild strands it.
ReleaseHappens ==
    \A e \in Entries : Has(st, e, "RELEASE_REQUEST") ~> ~Has(st, e, "RELEASE_REQUEST")

=============================================================================
