--------------------------- MODULE MCProxySettings ---------------------------
(* ProxySettings with one request for each branch of the checks. *)
EXTENDS ProxySettings

Typed == [mode |-> "manual", scheme |-> "http", host |-> "plain", port |-> 8080, bypass |-> {},
          pac |-> "invalid", mandatory |-> "yes"]

Edits ==
    {[Typed EXCEPT !.host = h, !.scheme = s] : h \in Host, s \in {"http", "socks5"}}
      \cup {[Typed EXCEPT !.port = p] : p \in {-1, 0, 1, 65535, 65536, 65537}}
      \cup {[Typed EXCEPT !.bypass = b] : b \in {{"good"}, {"good", "bad"}}}
      \cup {[Typed EXCEPT !.scheme = "socks4"]}
      \cup {[Typed EXCEPT !.mode = m] : m \in {"system", "direct", "typo"}}
      \cup {[Typed EXCEPT !.mode = "pac", !.pac = u, !.mandatory = b] :
              u \in {"invalid", "ftp", "http", "data", "badData"}, b \in Mandatory}

SomeRequests ==
    {[kind |-> k] : k \in {"getState", "reset", "malformed"}}
      \cup {[kind |-> "set", fields |-> f] : f \in Edits}

Server(s, h) == [scheme |-> s, host |-> h, port |-> 8080]

SomeUserValues ==
    {[mode |-> "manual", server |-> Server(s, h), bypass |-> {}] :
        s \in {"http", "socks4"}, h \in {"plain", "list"}}
      \cup {[mode |-> "pac", pac |-> "http", mandatory |-> b] : b \in Mandatory}
      \cup {[mode |-> m] : m \in {"direct", "auto_detect", "system"}}

SomeOtherValues == {[mode |-> "pac", pac |-> "http", mandatory |-> "absent"]}
=============================================================================
