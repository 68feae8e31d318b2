--------------------------- MODULE MCPipeFilters ---------------------------
(* Bytes of two bits; IPv4 addresses of two bytes, IPv6 ones of three.     *)
EXTENDS PipeFilters

B == 0 .. 2^ByteBits - 1

Peer(fam, a, n, i) == [family |-> fam, addr |-> a, port |-> n, pid |-> i]

Everywhere == {Peer("inet", <<a, b>>, 6, -1) : a, b \in B}
                  \cup {Peer("inet6", <<1, 2, a>>, 6, -1) : a \in B} \cup {Peer("ipc", <<>>, 0, 1)}

Mixed == {Peer("inet", <<1, 2>>, 6, -1), Peer("inet", <<1, 3>>, 6, -1),
          Peer("inet6", <<1, 2, 3>>, 9, -1), Peer("ipc", <<>>, 0, 1), Peer("ipc", <<>>, 0, 2)}

Net(fam, a, n) == [family |-> fam, addr |-> a, prefix |-> n]
Ip(m, nets)    == [op |-> "ip", mode |-> m, nets |-> nets]
All(f, g)      == [op |-> "all", kids |-> <<f, g>>]
Any(f, g)      == [op |-> "any", kids |-> <<f, g>>]
First          == [op |-> "first"]
Port(m, lo, hi) == [op |-> "port", mode |-> m, ranges |-> {<<lo, hi>>}]
Pid(m, i)      == [op |-> "pid", mode |-> m, pids |-> {i}]

OneNet == {Ip("ALLOW", {Net("inet", <<a, b>>, n)}) : a, b \in B, n \in 0 .. 2 * ByteBits}
V6     == {Ip(m, {Net("inet6", <<1, a, 2>>, n), Net("inet", <<1, 2>>, 3)}) :
              m \in {"ALLOW", "DENY"}, a \in {2, 3}, n \in 0 .. 3 * ByteBits}

Home  == Ip("ALLOW", {Net("inet", <<1, 2>>, 4)})
Combined == {First, All(First, Home), All(Home, First), Any(Home, First),
             Any(All(Pid("DENY", 1), First), Port("ALLOW", 9, 9))}
Children == {First, Home, Pid("DENY", 1), Port("ALLOW", 9, 9), All(Pid("DENY", 1), First)}

MCPeers   == Everywhere \cup Mixed
MCFilters == OneNet \cup V6 \cup Combined \cup Children
MCSetups  == {[filters |-> {f}, peers |-> Everywhere] : f \in OneNet \cup V6}
                 \cup {[filters |-> Combined, peers |-> Mixed]}

MCPortFilters == {Port(m, lo, hi) : m \in {"ALLOW", "DENY"}, lo, hi \in {5, 6, 9, 12}}
MCPortSetup   == {[filters |-> MCPortFilters, peers |-> Mixed]}
=============================================================================
