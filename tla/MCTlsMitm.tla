----------------------------- MODULE MCTlsMitm -----------------------------
(***************************************************************************)
(* Small conversations for TlsMitm.  Each names what is to come of it,     *)
(* written out by hand.                                                    *)
(***************************************************************************)
EXTENDS TlsMitm

MCQuestions == {"qa", "qb", "qc"}
MCNameOf == [q \in MCQuestions |-> CASE q = "qa" -> "a" [] q = "qb" -> "ads" [] q = "qc" -> "c"]
MCRequestLines ==
    {"GET", "HEAD", "POST"} \cup {dns_param(q) : q \in MCQuestions} \cup {name_param(q) : q \in MCQuestions}

OK == "HTTP 200"
Quiet ==
    [kind |-> "http", sni |-> TRUE, trusts |-> TRUE, payload |-> TRUE, early |-> FALSE,
     whole |-> FALSE, app |-> <<>>, replies |-> <<>>, asked |-> <<>>, shown |-> <<>>,
     answers |-> {}, logged |-> <<>>]

\* Three requests in a row, the second for a head only; a page with a policy, whose
\* length grows, and a response behind an interim one.
Pages == [Quiet EXCEPT
    !.app = <<"GET", "accept-encoding", "END", "HEAD", "END", "POST", "length 2", "END", "u", "v">>,
    !.asked = <<"GET", "identity", "END", "HEAD", "identity", "END",
                "POST", "length 2", "identity", "END", "u", "v">>,
    !.replies = <<<<OK, "html", "csp", "length 5", "END", "<head", ">", "x", "y", "z">>,
                  <<OK, "length 5", "END">>,
                  <<"HTTP 100", "END", "HTTP 204", "END">>>>,
    !.shown = <<OK, "html", "length 6", "END", "<head", ">", "mark", "x", "y", "z",
                OK, "length 5", "END", "HTTP 100", "END", "HTTP 204", "END">>,
    !.logged = <<<<"GET", <<>>, OK, <<"<head", ">", "x", "y">>, 5>>,
                 <<"HEAD", <<>>, OK, <<>>, 0>>, <<"POST", <<"u", "v">>, "HTTP 204", <<>>, 0>>>>]

\* A page in chunks, with a place to inject in the second; one that is compressed, in
\* chunks and with a trailer.
InChunks == [Quiet EXCEPT
    !.app = <<"GET", "END", "GET", "END">>,
    !.asked = <<"GET", "identity", "END", "GET", "identity", "END">>,
    !.replies = <<<<OK, "html", "chunked", "END", "2", "CRLF", "<html", ">", "CRLF",
                    "3", "CRLF", "<body", " ", "z", "CRLF", "0", "CRLF", "CRLF">>,
                  <<OK, "html", "gzip", "chunked", "END", "1", "CRLF", "g", "CRLF",
                    "0", "CRLF", "trailer", "CRLF", "CRLF">>>>,
    !.shown = <<OK, "html", "chunked", "END", "<html", ">", "mark", "<body", " ", "z",
                OK, "html", "gzip", "chunked", "END", "g">>,
    !.logged = <<<<"GET", <<>>, OK, <<"<html", ">", "<body", " ">>, 5>>,
                 <<"GET", <<>>, OK, <<"g">>, 1>>>>]

\* Documents without the usual tags: a doctype only, and none within what is searched;
\* then one that the close ends.
Bare == [Quiet EXCEPT
    !.app = <<"GET", "END", "GET", "END", "GET", "END">>,
    !.asked = <<"GET", "identity", "END", "GET", "identity", "END", "GET", "identity", "END">>,
    !.replies = <<<<OK, "html", "length 3", "END", "<!doctype", ">", "x">>,
                  <<OK, "html", "csp", "length 5", "END", "a", "b", "c", "d", "e">>,
                  <<OK, "html", "END", "<head", " ", ">", "x">>>>,
    !.shown = <<OK, "html", "length 4", "END", "<!doctype", ">", "mark", "x",
                OK, "html", "csp", "length 5", "END", "a", "b", "c", "d", "e",
                OK, "html", "END", "<head", " ", ">", "mark", "x">>,
    !.logged = <<<<"GET", <<>>, OK, <<"<!doctype", ">", "x">>, 3>>,
                 <<"GET", <<>>, OK, <<"a", "b", "c", "d">>, 5>>,
                 <<"GET", <<>>, OK, <<"<head", " ", ">", "x">>, 4>>>>]

\* A chunked upload, answered when it is complete: no longer rewritten.
Upload == [Quiet EXCEPT
    !.app = <<"POST", "chunked", "END", "2", "CRLF", "u", "v", "CRLF", "0", "CRLF", "CRLF">>,
    !.asked = <<"POST", "chunked", "identity", "END", "2", "CRLF", "u", "v", "CRLF", "0", "CRLF", "CRLF">>,
    !.replies = <<<<OK, "html", "length 3", "END", "<head", ">", "x">>>>,
    !.shown = <<OK, "html", "length 3", "END", "<head", ">", "x">>,
    !.logged = <<<<"POST", <<"u", "v">>, OK, <<"<head", ">", "x">>, 3>>>>]

\* An upgrade, and a payload of nothing; a partial and an unchanged document.
Upgrade == [Quiet EXCEPT
    !.payload = FALSE, !.app = <<"GET", "accept-encoding", "END">>, !.asked = <<"GET", "accept-encoding", "END">>,
    !.replies = <<<<"HTTP 101", "END", "ws", "END">>>>,
    !.shown = <<"HTTP 101", "END", "ws", "END">>,
    !.logged = <<<<"GET", <<>>, "HTTP 101", <<>>, 0>>>>]
Unchanged == [Quiet EXCEPT
    !.app = <<"GET", "END", "GET", "END">>,
    !.asked = <<"GET", "identity", "END", "GET", "identity", "END">>,
    !.replies = <<<<"HTTP 304", "length 3", "END">>, <<"HTTP 206", "html", "length 2", "END", "<head", ">">>>>,
    !.shown = <<"HTTP 304", "length 3", "END", "HTTP 206", "html", "length 2", "END", "<head", ">">>,
    !.logged = <<<<"GET", <<>>, "HTTP 304", <<>>, 0>>, <<"GET", <<>>, "HTTP 206", <<"<head", ">">>, 2>>>>]

\* A server that answers before it has the request's body; nothing is logged.
Early == [Quiet EXCEPT
    !.early = TRUE, !.app = <<"POST", "length 2", "END", "u", "v">>,
    !.asked = <<"POST", "length 2", "identity", "END", "u", "v">>,
    !.replies = <<<<OK, "length 1", "END", "e">>>>, !.shown = <<OK, "length 1", "END", "e">>,
    !.logged = <<<<"POST", <<"u", "v">>, OK, <<"e">>, 1>>>>]

\* An app that refuses the leaf, and one that names no server.
Distrust == [Quiet EXCEPT !.trusts = FALSE]
Nameless == [Quiet EXCEPT !.sni = FALSE]

\* DNS over TLS: a blocked question between two others.
Dot == [Quiet EXCEPT
    !.kind = "dot", !.whole = TRUE,
    !.app = framed(query("qa")) \o framed(query("qb")) \o framed(query("qc")),
    !.asked = <<"0", "2", "qa", "end", "0", "2", "qc", "end">>,
    !.replies = <<framed(answer("qa")), framed(answer("qc"))>>,
    !.answers = {<<"0", "2", "answer qa", "end">>, <<"0", "2", "nxdomain qb", "end">>,
                 <<"0", "2", "answer qc", "end">>}]

\* DNS over HTTP/1.1: one blocked, one not, one that is not understood.
DohOverH1 == [Quiet EXCEPT
    !.kind = "doh",
    !.app = post_wire(query("qb")) \o get_path(name_param("qa")) \o <<"GET", "END">>,
    !.asked = <<"GET ?name=qa", "END", "GET", "END">>,
    !.replies = <<<<OK, "length 2", "END", "answer qa", "end">>, <<"HTTP 304", "END">>>>,
    !.shown = <<OK, "length 2", "END", "nxdomain qb", "end",
                OK, "length 2", "END", "answer qa", "end", "HTTP 304", "END">>]

\* DNS over HTTP/2: a POST with trailers, a blocked GET in two frames of headers, a GET by
\* name that is reset behind the request; answers with a length and in chunks.
Stream1 == <<[head |-> FrameHeader("HEADERS", {"END_HEADERS"}, 1, 1, TRUE), payload |-> <<OK>>],
             [head |-> FrameHeader("DATA", {}, 1, 1, TRUE), payload |-> <<"answer qa">>],
             [head |-> FrameHeader("DATA", {"END_STREAM"}, 1, 1, TRUE), payload |-> <<"end">>]>>
AsStream(sid, body) ==
    [i \in DOMAIN Stream1 |-> [head |-> [Stream1[i].head EXCEPT !.stream_id = sid],
                               payload |-> IF i = 1 THEN <<OK>> ELSE <<body[i - 1]>>]]
DohOverH2 == [Quiet EXCEPT
    !.kind = "doh",
    !.app = PREFACE \o Frame("SETTINGS", {}, 0, <<>>)
        \o Frame("HEADERS", {"END_HEADERS"}, 1, <<"POST", "dns-message">>)
        \o Frame("DATA", {}, 1, query("qa"))
        \o Frame("HEADERS", {"END_STREAM", "END_HEADERS"}, 1, <<"trailer">>)
        \o Frame("HEADERS", {"END_STREAM"}, 3, <<dns_param("qb")>>)
        \o Frame("CONTINUATION", {"END_HEADERS"}, 3, <<"accept">>)
        \o Frame("PING", {}, 0, <<"p">>)
        \o Frame("HEADERS", {"END_STREAM", "END_HEADERS"}, 5, <<name_param("qc")>>)
        \o Frame("RST_STREAM", {}, 5, <<"cancel">>),
    !.asked = <<"POST", "dns-message", "length 2", "END", "qa", "end", "GET ?name=qc", "END">>,
    !.replies = <<<<OK, "length 2", "END", "answer qa", "end">>,
                  <<OK, "chunked", "END", "2", "CRLF", "answer qc", "end", "CRLF", "0", "CRLF", "CRLF">>>>,
    !.answers = {Stream1, AsStream(3, nxdomain("qb")), AsStream(5, answer("qc"))}]

MCScripts == {Pages, InChunks, Bare, Upload, Upgrade, Unchanged, Early, Distrust, Nameless, Dot, DohOverH1, DohOverH2}

\* What is written out above as asked is what the plaintext comes to, byte by byte, unless
\* it is no longer edited or is HTTP/2.
ASSUME AskedAssumption == \A s \in MCScripts \ {Upload, DohOverH2} : AsksFor(s)

\* A page without the usual tags that the close ends.
Held == [Quiet EXCEPT
    !.app = <<"GET", "END">>, !.asked = <<"GET", "identity", "END">>,
    !.replies = <<<<OK, "html", "END", "<p", ">", "x">>>>]
HeldScripts == {Held}
=============================================================================
