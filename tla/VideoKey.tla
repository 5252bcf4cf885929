------------------------------ MODULE VideoKey ------------------------------
(***************************************************************************)
(* The video cache: which URL is stored under which key (store_key_md5.c,   *)
(* libvideoreg/src/videoreg.c), and what a request gets from a store that   *)
(* is looked up by these keys (store.c, client_side.c).                     *)
(*                                                                          *)
(* A URL is the sequence of the words it is put together from, so that the  *)
(* two keyword lists, strstr() and the extraction of an id act on it as     *)
(* they do on the string.  MD5 is taken to be injective: a key is what is   *)
(* hashed.  URLs fit their buffers, a youku URL has a path element and the  *)
(* suffix after /youku/, a letv URL has ver_ before .ts; store_url rewriting*)
(* and Vary are left out.                                                   *)
(***************************************************************************)
EXTENDS Keywords, FiniteSets

CONSTANTS
    Urls,          \* the URLs requested: [str: what is requested, file: what the site serves]
    xlatcase,      \* toupper() on words
    Keyword,       \* acsm_cap[0], keyword.txt
    Exclusion,     \* acsm_cap[1], exclusions.txt
    MaxEntries,    \* bound: entries in the table
    Null

ASSUME UrlsAssumption == \A u \in Urls : u.str # <<>>

VARIABLES
    table,     \* entries with a public key: [key, of: the URL fetched, mem: mem_obj->url or
               \* Null, heard: a reply for it has come]
    fetching   \* entries with a private key, waiting for the reply, by URL

vars == <<table, fetching>>

(***************************************************************************)
(* The id of a video file                                                   *)
(***************************************************************************)

\* strstr(): the places where w begins
At(w, s) == {i \in 1 .. Len(s) : IsPrefix(w, SubSeq(s, i, Len(s)))}
First(S) == CHOOSE i \in S : \A j \in S : i <= j

\* Mutation of youkuExtractID: the id ends before the suffix.
youkuExtractIDNoSuffix(s) ==
    LET site == At(<<"/", "youku", "/">>, s)
        Ends == IF At(<<".flv">>, s) # {} THEN At(<<".flv">>, s) ELSE At(<<".mp4">>, s)
        slash == {i \in At(<<"/">>, s) : i > First(site) + 2}
    IN  IF site = {} \/ Ends = {} THEN <<>> ELSE SubSeq(s, First(slash) + 1, First(Ends) - 1)

\* From after the path element that follows /youku/ to the end of the suffix
youkuExtractID(s) ==
    LET site == At(<<"/", "youku", "/">>, s)
        Ends == IF At(<<".flv">>, s) # {} THEN At(<<".flv">>, s) ELSE At(<<".mp4">>, s)
        slash == {i \in At(<<"/">>, s) : i > First(site) + 2}
    IN  IF \/ site = {} \/ Ends = {}
           \/ At(<<".flv", "?nk=">>, s) # {} \/ At(<<".mp4", "?nk=">>, s) # {}
          THEN <<>>
          ELSE SubSeq(s, First(slash) + 1, First(Ends))

letvExtractID(s) ==
    IF \/ At(<<"/", "letv-uts", "/">>, s) = {} \/ At(<<"ver_">>, s) = {} \/ At(<<".ts">>, s) = {}
      THEN <<>>
      ELSE SubSeq(s, First(At(<<"ver_">>, s)), First(At(<<".ts">>, s)))

\* The empty id stands for 0, nothing extracted
selectFunc(s, flag) ==
    CASE flag = 100 -> youkuExtractID(s)
      [] flag = 101 -> letvExtractID(s)
      [] OTHER -> <<>>

ConvertCaseEX(s) == [i \in DOMAIN s |-> xlatcase[s[i]]]

Excluded(s) == Search(Exclusion, ConvertCaseEX(s)) \in 1 .. 99
InKeywords(s) == Search(Keyword, ConvertCaseEX(s)) >= 100

\* Mutation of storeKeyPublic: the exclusions are not looked at.
storeKeyPublicAll(s) ==
    LET id == selectFunc(s, Search(Keyword, ConvertCaseEX(s)))
    IN  IF InKeywords(s) /\ id # <<>> THEN id ELSE s

\* The key of an entry that has no request yet, and of one looked up by URL
storeKeyPublic(s) ==
    LET id == selectFunc(s, Search(Keyword, ConvertCaseEX(s)))
    IN  IF ~Excluded(s) /\ InKeywords(s) /\ id # <<>> THEN id ELSE s

\* The key a request is looked up by, and the one its reply is stored under
storeKeyPublicByRequestMethod(s) ==
    LET id == selectFunc(s, Search(Keyword, ConvertCaseEX(s)))
    IN  IF ~Excluded(s) /\ InKeywords(s) /\ id # <<>> THEN id ELSE s

(***************************************************************************)
(* The store                                                                *)
(***************************************************************************)

\* The keys of the URLs, computed once
RequestKey == [u \in Urls |-> storeKeyPublicByRequestMethod(u.str)]
UrlKey     == [u \in Urls |-> storeKeyPublic(u.str)]
KeywordUrls  == {u \in Urls : InKeywords(u.str)}
ExcludedUrls == {u \in Urls : Excluded(u.str)}

Under(k) == {e \in table : e.key = k}
Found(u) == Under(RequestKey[u])

\* storeSetPublicKey: the entry under the key is kicked out
SetPublicKey(k, u, heard) ==
    /\ Cardinality(table \ Under(k)) < MaxEntries
    /\ table' = (table \ Under(k)) \cup {[key |-> k, of |-> u, mem |-> u, heard |-> heard]}

\* clientProcessMiss and storeCreateEntry: only the keyword list decides here
Miss(u) ==
    IF u \in KeywordUrls
      THEN SetPublicKey(UrlKey[u], u, FALSE) /\ UNCHANGED fetching
      ELSE fetching' = fetching \cup {u} /\ UNCHANGED table

\* clientProcessRequest2: an entry that has no memory object gets one with this URL
Hit(u, e) ==
    /\ table' = (table \ {e}) \cup {[e EXCEPT !.mem = u]}
    /\ UNCHANGED fetching

\* clientCacheHit: the memory object's URL is compared with the request's
Matches(e, u) == e.mem \in {u, Null}

Request(u) ==
    \/ \E e \in Found(u) : Matches(e, u) /\ Hit(u, e)
    \/ (\A e \in Found(u) : ~Matches(e, u)) /\ Miss(u)

\* httpMakePublic, or the reply was not cachable
Reply(u) ==
    /\ u \in fetching
    /\ fetching' = fetching \ {u}
    /\ SetPublicKey(RequestKey[u], u, TRUE) \/ UNCHANGED table

\* httpMakePublic of an entry that is public already
ReplyEarly(e) ==
    /\ ~e.heard
    /\ table' = (table \ {e}) \cup {[e EXCEPT !.heard = TRUE]}
    /\ UNCHANGED fetching

\* storePurgeMem of an entry that is on disk
PurgeMem(e) ==
    /\ e.heard /\ e.mem # Null
    /\ table' = (table \ {e}) \cup {[e EXCEPT !.mem = Null]}
    /\ UNCHANGED fetching

\* storeRelease: a purge, a reply that is not cachable, the replacement policy
Release(e) == table' = table \ {e} /\ UNCHANGED fetching

-----------------------------------------------------------------------------
Init == table = {} /\ fetching = {}

Next ==
    \/ \E u \in Urls : Request(u) \/ Reply(u)
    \/ \E e \in table : ReplyEarly(e) \/ PurgeMem(e) \/ Release(e)

Spec == Init /\ [][Next]_vars

(***************************************************************************)
(* Correctness                                                              *)
(***************************************************************************)

\* The entry a request is answered from
Answers(e, u) == e \in Found(u) /\ Matches(e, u)

\* A request is answered with the file it asked for, whatever was requested before,
\* purged from memory or replaced: the id a key is computed from tells files apart.
AnsweredWithItsFile ==
    \A u \in Urls, e \in table : Answers(e, u) => e.of.file = u.file

\* "If those words in the url, we not do video cache" (etc/exclusions.txt): an excluded
\* URL is answered from its own fetch only, and no other URL is answered from it.
ExcludedAlone ==
    \A u \in Urls, e \in table :
        Answers(e, u) /\ (u \in ExcludedUrls \/ e.of \in ExcludedUrls) => e.of = u

\* An entry is where the next request for its URL looks: the key a keyword URL's entry is
\* given at its creation, from the URL, is the one a request for it is looked up by.
CreatedIsFound == \A e \in table : e \in Found(e.of)

\* The two functions that compute a key, and the lists they consult, agree.
KeysAgree == CreatedIsFound /\ ExcludedAlone

=============================================================================
