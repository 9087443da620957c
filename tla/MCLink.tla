------------------------------- MODULE MCLink -------------------------------
\* Instance of Link for TLC.
EXTENDS Link

MCPeers == {"a:9000", "b:2", "c:3"}
MCPortOf == [p \in MCPeers |-> CASE p = "a:9000" -> 9000 [] p = "b:2" -> 2 [] p = "c:3" -> 3]

\* An ifname without a query.
Plain(s) ==
  [scheme |-> s, port |-> 9000, blocking |-> "1", timeout_ms |-> -1,
   max_connect |-> 1, remote |-> "", broadcast |-> "0"]

\* Every transport blocking for ever, with a timeout, and not blocking.
Modes(s) ==
  {Plain(s), [Plain(s) EXCEPT !.timeout_ms = 20], [Plain(s) EXCEPT !.blocking = "false"]}

\* UDP with a peer table, a remote that can and one that cannot be parsed, and
\* a broadcast address, that is not set up for want of a port and that reaches
\* one peer.
UdpSetups ==
  {[Plain("udp") EXCEPT !.max_connect = 2],
   [Plain("udp") EXCEPT !.max_connect = 0, !.remote = "malformed"],
   [Plain("udp") EXCEPT !.remote = "b:2", !.max_connect = 2],
   [Plain("udp") EXCEPT !.port = 0, !.broadcast = "1", !.timeout_ms = 20],
   [Plain("udp") EXCEPT !.broadcast = "true", !.max_connect = 2]}

MCSetups == {Plain("loop"), Plain("nosuch")} \cup UdpSetups
  \cup UNION {Modes(s) : s \in {"udp", "tcp", "serial"}}
=============================================================================
