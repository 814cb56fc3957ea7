--------------------------- MODULE MCProxyStream ---------------------------
(* Proxies that grant, refuse, ask for a password, answer nonsense or never  *)
(* end their answer, and apps with the requests of one or two kept-alive     *)
(* exchanges.                                                                *)
EXTENDS ProxyStream

Head0 == <<"HTTP", "SP">>
Rest == <<"SP", "reason", "CR", "LF", "header", "CR", "LF", "CR", "LF">>
\* The origin's first bytes may look like the end of a head.
Origin == <<"o1", "CR", "LF", "CR", "LF">>
Http(head, grant, port80, behind) ==
    [kind |-> "http", user |-> FALSE, port80 |-> port80, bytes |-> head \o behind,
     grant |-> grant, origin |-> Len(head) + 1, bound |-> <<>>, told |-> <<"CONNECT">>]

HttpReplies ==
    { Http(Head0 \o <<"200">> \o Rest, TRUE, FALSE, Origin),
      Http(Head0 \o <<"204", "CR", "LF", "CR", "LF">>, TRUE, FALSE, <<>>),
      Http(Head0 \o <<"403">> \o Rest, FALSE, TRUE, <<>>),
      Http(Head0 \o <<"407">> \o Rest, FALSE, FALSE, <<"body">>),
      Http(<<"HTTP", "CR", "LF", "CR", "LF">>, FALSE, TRUE, <<>>),
      Http([i \in 1..(HANDSHAKE_BUF_CAP + 1) |-> "header"], FALSE, FALSE, <<>>) }

V4 == <<1, 10, 0, 0, 1, 4, 56>>
V6 == <<4, 32, 1, 0, 0, 0, 0, 0, 0, 0, 0, 0, 0, 0, 0, 0, 5, 4, 56>>
Domain == <<3, 1, 99, 4, 56>>
Socks(user, asks, head, grant, bound, told) ==
    [kind |-> "socks5", user |-> user, port80 |-> FALSE,
     bytes |-> asks \o head \o (IF grant THEN <<5, 0>> ELSE <<>>),
     grant |-> grant, origin |-> Len(asks \o head) + 1, bound |-> bound,
     told |-> <<socks5_greeting(user)>> \o told]
Open == <<5, 0>>
Asks == <<5, 2, 1, 0>>

SocksReplies ==
    { Socks(FALSE, Open, <<5, 0, 0>> \o V4, TRUE, Tail(V4), <<"request">>),
      Socks(TRUE, Asks, <<5, 0, 0>> \o V6, TRUE, Tail(V6), <<"password", "request">>),
      Socks(TRUE, Open, <<5, 0, 0>> \o Domain, TRUE, <<>>, <<"request">>),
      Socks(FALSE, Open, <<5, 5, 0>> \o V4, FALSE, <<>>, <<"request">>),
      Socks(FALSE, Open, <<5, 0, 0, 9>>, FALSE, <<>>, <<"request">>),
      Socks(FALSE, Open, <<4, 0, 0>> \o V4, FALSE, <<>>, <<"request">>),
      Socks(FALSE, <<5, 2>>, <<>>, FALSE, <<>>, <<>>),
      Socks(FALSE, <<4, 0>>, <<>>, FALSE, <<>>, <<>>),
      Socks(TRUE, <<5, 2, 1, 1>>, <<>>, FALSE, <<>>, <<"password">>) }

MCReplies == HttpReplies \cup SocksReplies

Get == [line |-> "origin-form", headers |-> <<"host">>, body |-> <<>>]
Old == [line |-> "origin-form", headers |-> <<>>, body |-> <<>>]
Post == [line |-> "origin-form", headers |-> <<"length 2", "host">>, body |-> <<"CRLF", "CRLF">>]
Put == [line |-> "absolute-form", headers |-> <<"length 2", "length 1">>, body |-> <<"b">>]
Bad == [line |-> "hello", headers |-> <<"host">>, body |-> <<>>]
Chunked == [line |-> "origin-form", headers |-> <<"chunked">>, body |-> <<"b">>]
Large == [line |-> "origin-form", headers |-> <<"host", "h", "h", "h">>, body |-> <<>>]
Junk == [line |-> "origin-form", headers |-> <<"length junk">>, body |-> <<"origin-form", "CRLF", "CRLF">>]

MCTokens == Forms \cup Lengths \cup {"absolute, host", "absolute, dialed", "CRLF", "host", "h",
                                   "chunked", "hello", "b"}
MCRequests == {<<Get, Post, Get>>, <<Put, Old>>, <<Post, Bad>>, <<Get, Chunked, Get>>, <<Large, Get>>}
JunkRequests == {<<Junk>>}
=============================================================================
