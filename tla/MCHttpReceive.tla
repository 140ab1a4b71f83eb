--------------------------- MODULE MCHttpReceive ---------------------------
(* Responses for HttpReceive: a status line, up to two header lines, the   *)
(* empty line and up to three bytes.                                       *)
EXTENDS HttpReceive

HeaderLines == {<<"x", "n">>, <<"c", "n">>, <<"e", "n">>}

Heads == {<<>>} \cup HeaderLines \cup {g \o h : g, h \in HeaderLines}

Bodies == UNION {[1..n -> {"b", "n", "0"}] : n \in 0..3}

Responses == {<<"x", "n">> \o head \o <<"n">> \o body : head \in Heads, body \in Bodies}
=============================================================================
