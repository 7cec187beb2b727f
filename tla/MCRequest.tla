------------------------------ MODULE MCRequest -----------------------------
(***************************************************************************)
(* Instances of Request.  The paths and the names of the arguments are cut *)
(* down to a letter.                                                       *)
(***************************************************************************)
EXTENDS Request

\* "/d", "/i", "/x"; "g", "d", "c"; "s" and "h" for hosts.
MCDataPath == <<47, 100>>
MCInsertPath == <<47, 105>>
MCDeletePath == <<47, 120>>
MCGraphKey == <<103>>
MCDefaultKey == <<100>>
MCContentKey == <<99>>
MCServerName == <<115>>
host == <<104>>

\* URIs with every kind of byte an escape has to hide, one that contains the URL
\* of this host further on, one that is not ASCII; and on this host "/d/a",
\* alone and with the arguments "z", "d" and "g=u", "/d", "/z" and "/z/".
MCStored ==
  {<<117, ch>> : ch \in {37, 38, 43, 59, 61, 32, 122}} \cup {<<37, 50, 54>>, <<38>>}
     \cup {<<117, 47>> \o host \o <<47>>, <<200>>}
     \cup {host \o <<47, 100, 47, 97>> \o q : q \in {<<>>, <<63, 122>>, <<63, 100>>, <<63, 103, 61, 117>>}}
     \cup {host \o path : path \in {<<47, 100>>, <<47, 122>>, <<47, 122, 47>>}}

\* Query strings: c, g, d with and without a value, separators in odd places,
\* names without a value, values without a name, an escape in a name.
Arguments ==
  {<<>>, <<103, 61, 117>>, <<103>>, <<103, 61>>, <<100>>, <<103, 61, 117, 38, 100>>, <<38>>,
   <<61, 117>>, <<103, 61, 117, 38>>, <<103, 61, 117, 38, 38, 99>>, <<71, 61, 118, 59, 103, 61, 117>>,
   <<37, 48, 48, 61, 97>>, <<37, 54, 55, 61, 117>>, <<122>>}
Contents ==
  {<<>>, <<99>>, <<99, 61, 97>>, <<99, 61, 98, 38, 103, 61, 117>>, <<103, 61, 117, 59, 99, 61, 97>>,
   <<99, 61, 37, 50>>, <<61, 97>>}

Line(k, v) == [key |-> k, value |-> v]
HostLines == {<<>>, <<Line("Host", host)>>, <<Line("Host", NULL), Line("Host", host)>>,
              <<Line("Host", host), Line("Host", <<111>>)>>, <<Line(NULL, NULL)>>, <<Line("", host)>>}
Sent(m, t, v, h, b) ==
  [valid |-> TRUE, method |-> m, target |-> t, version |-> v, headers |-> h, body |-> b]
At(path, query) == IF query = <<>> THEN path ELSE path \o <<63>> \o query
Below(path) == {path, path \o <<47>>, path \o <<47, 97>>}

\* Requests without a body, of which some are cut down to HTTP/0.9.
Bare ==
  {Sent(m, At(p, q), "1.1", h, <<>>) :
     m \in {"GET", "DELETE"}, p \in Below(MCDataPath), q \in Arguments, h \in HostLines}
  \cup {Sent(m, At(p, q), "0.9", <<>>, <<97>>) :
     m \in {"GET", "HEAD", "PUT", "POST", "DELETE"}, p \in Below(MCDataPath),
     q \in {<<>>, <<103, 61, 117>>}}
  \cup {[Sent("GET", MCDataPath, "1.1", <<>>, <<>>) EXCEPT !.valid = FALSE]}

\* Bodies as long as declared, longer, shorter, not declared, and sent twice.
Lengths == {<<>>, <<Line("Content-Length", NULL)>>, <<Line("Content-Length", 0)>>,
            <<Line("Content-Length", 2)>>, <<Line("Content-Length", 3), Line("Content-Length", 1)>>}
Types == {<<>>, <<Line("Content-Type", "rdf")>>, <<Line("Content-Type", "form")>>}
Loads ==
  {Sent(m, At(p, q), "1.1", t \o n \o h, b) :
     m \in {"PUT", "POST"}, p \in {MCDataPath, MCDataPath \o <<47, 97>>},
     q \in {<<>>, <<103, 61, 117>>, <<103, 61>>, <<100>>}, t \in Types, n \in Lengths,
     h \in {<<>>, <<Line("Host", host)>>}, b \in {<<>>, <<99>>, <<99, 61>>, <<99, 61, 97, 98>>}}

\* Forms sent as a whole, and cut short.
Forms ==
  {Sent("POST", At(p, q), v, IF v = "0.9" THEN <<>>
                             ELSE <<Line("Content-Length", n + Len(f)), Line("Content-Type", t)>>, f) :
     p \in {MCInsertPath, MCDeletePath}, q \in Contents, f \in Contents, t \in {"form", "rdf"},
     v \in {"0.9", "1.1"}, n \in {0, 1}}

\* Who follows the links of the index.
Following ==
  {Sent("GET", SubSeq(Link(host, uri, junk), 2, Len(Link(host, uri, junk))), "1.1",
        <<Line("Host", host)>>, <<>>) :
     uri \in {u \in MCStored : Head(Link(host, u, 65)) = 104}, junk \in {47, 65}}

MCMessages == Bare \cup Loads \cup Forms \cup Following
=============================================================================
