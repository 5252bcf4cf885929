---------------------------- MODULE MC_VideoKey ----------------------------
(* An instance of VideoKey for TLC: the lists of etc/ and an exclusion of more. *)
EXTENDS VideoKey

Youku(h, n, x, q) ==
    [str |-> <<"http://", h, "/", "youku", "/", "dir", "/", n, x>> \o q,
     file |-> <<"youku", n, x>> \o (IF q = <<"?nk=">> THEN <<h, q>> ELSE <<>>)]
Letv(h, n) ==
    [str |-> <<"http://", h, "/", "letv-uts", "/", "dir", "/", "ver_", n, ".ts">>,
     file |-> <<"letv", n>>]
Other(s) ==
    [str |-> <<"http://", "h1", "/", s, "/", "dir", "/", "n1", ".flv">>, file |-> <<s, "n1">>]

MC_Urls ==
    {Youku(h, "n1", ".flv", <<>>) : h \in {"h1", "h2"}}
    \cup {Youku("h1", "n1", ".mp4", q) : q \in {<<>>, <<"?nk=">>}}
    \cup {Youku("h1", "n1", ".flv", q) : q \in {<<"?nk=">>, <<"?ad=">>}}
    \cup {Letv(h, "n1") : h \in {"h1", "h2"}} \cup {Letv("h1", "n2")}
    \cup {Other(s) : s \in {"YOUKU", "news"}}
MC_xlatcase == [w \in UNION {ToSet(u.str) : u \in MC_Urls} |->
                  CASE w = "youku" -> "YOUKU" [] w = "letv-uts" -> "LETV-UTS" [] OTHER -> w]
MC_Keyword == <<[word |-> <<"/", "LETV-UTS", "/">>, flag |-> 101],
                [word |-> <<"/", "YOUKU", "/">>, flag |-> 100]>>
MC_Exclusion == <<[word |-> <<"?ad=">>, flag |-> 98], [word |-> <<".flv", "?nk=">>, flag |-> 99]>>
=============================================================================
