---------------------------- MODULE PipeFilters ----------------------------
(***************************************************************************)
(* The filters that decide at ADD_PRE whether a socket takes a connection  *)
(* (nng/cpp/pipe_filter.hpp, nng/_pipe_filter.pxi): address, port and pid  *)
(* lists, FirstWinsFilter, which locks on to the first connection it is    *)
(* asked about, and their combinations by & and |.                         *)
(*                                                                         *)
(* A filter is a record, op telling its class; a combination has its two   *)
(* children in kids.  There is one FirstWinsFilter object, which may occur *)
(* in several filters, as the shared_ptr does.  A peer is a nng_sockaddr   *)
(* and a pid; its port is the number, not its bytes.                       *)
(***************************************************************************)
EXTENDS Integers, Sequences

CONSTANTS ByteBits,   \* bits in a byte (8)
          Peers,      \* who may connect
          Filters,    \* the filters and all their children
          Setups      \* programs: the filters one assigns and the peers that connect

Keys       == {"PID", "IP", "PORT"}
IpFamilies == {"inet", "inet6"}
Byte       == 2^ByteBits

ASSUME PeersAssumption ==
    \A p \in Peers : DOMAIN p = {"family", "addr", "port", "pid"} /\ p.port \in 0 .. Byte * Byte - 1
ASSUME SetupsAssumption ==
    \A s \in Setups : s.filters \subseteq Filters /\ s.peers \subseteq Peers

(* What the constructors accept, and what they store.                      *)
Modes == {"ALLOW", "DENY"}
Ports == 0 .. Byte * Byte - 1

IpFilter(f)    == f.mode \in Modes /\ \A e \in f.nets : e.prefix \in 0 .. Len(e.addr) * ByteBits
PortFilter(f)  == f.mode \in Modes /\ \A r \in f.ranges : r[1] \in Ports /\ r[2] \in Ports
PidFilter(f)   == f.mode \in Modes /\ f.pids \subseteq Int
Combination(f) == Len(f.kids) = 2 /\ f.kids[1] \in Filters /\ f.kids[2] \in Filters

ASSUME FiltersAssumption ==
    \A f \in Filters :
        \/ f.op = "ip" /\ IpFilter(f)
        \/ f.op = "port" /\ PortFilter(f)
        \/ f.op = "pid" /\ PidFilter(f)
        \/ f.op = "first"
        \/ f.op \in {"all", "any"} /\ Combination(f)

VARIABLES setup,    \* the program
          filter,   \* PipeCollection::_filter
          first,    \* the FirstWinsFilter
          last,     \* what was last decided under this filter
          anchor,   \* the decision in which the FirstWinsFilter locked on
          group     \* the peers it has let through since then

vars == <<setup, filter, first, last, anchor, group>>

NoFilter   == [op |-> "none"]
NoDecision == [by |-> NoFilter, peers |-> {}, ok |-> TRUE]

TypeOK ==
    /\ setup \in Setups
    /\ filter \in setup.filters \cup {NoFilter}
    /\ first.mask \in SUBSET Keys \ {{}}
    /\ first.init \in BOOLEAN
    /\ first.port \in Ports
    /\ last.ok \in BOOLEAN /\ last.peers \subseteq setup.peers
    /\ anchor.ok \in BOOLEAN /\ anchor.peers \subseteq setup.peers
    /\ group \subseteq setup.peers

\* FirstWinsFilter.__init__() refuses an empty mask.
Init ==
    /\ setup \in Setups
    /\ filter = NoFilter
    /\ \E m \in SUBSET Keys \ {{}} :
          first = [mask |-> m, init |-> FALSE, pid |-> -1, addr |-> <<"unspec", <<>>>>, port |-> 0]
    /\ last = NoDecision
    /\ anchor = NoDecision
    /\ group = {}

-----------------------------------------------------------------------------
(* Slips in the code that the properties must notice; no action uses them. *)

\* The bits that do not fill a byte are not compared.
Mutant_WholeBytesOnly(addr, e) == \A i \in 1 .. e.prefix \div ByteBits : addr[i] = e.addr[i]

\* Each child is asked, whatever the others say.
Mutant_AsksEveryChild(g, asks, ok) ==
    \E i \in DOMAIN g.kids : asks[g.kids[i]]

-----------------------------------------------------------------------------
(* nng (external): a port is two bytes in network order, which a little-   *)
(* endian host reads the wrong way round.                                  *)
NetworkOrder(n) == (n % Byte) * Byte + (n \div Byte)

(* ipaddress (external): ip_network(strict=False) clears the host bits.    *)
KeepTop(b, n) == b - (b % 2^(ByteBits - n))

NetworkAddress(e) ==
    [e EXCEPT !.addr =
        [i \in DOMAIN e.addr |->
            LET before == (i - 1) * ByteBits
            IN  IF e.prefix <= before THEN 0
                ELSE IF e.prefix >= before + ByteBits THEN e.addr[i]
                ELSE KeepTop(e.addr[i], e.prefix - before)]]

-----------------------------------------------------------------------------
(* namespace detail                                                        *)

\* Addresses are <<family, bytes>>.
addrs_equal_ip(a, b) == a[1] \in IpFamilies /\ b[1] \in IpFamilies => a = b

sockaddr_port(p) == IF p.family \in IpFamilies THEN NetworkOrder(p.port) ELSE 0

\* cidr4_match() and cidr6_match(): whole bytes, then the bits under a mask.
cidr_match(addr, e) ==
    LET bytes == e.prefix \div ByteBits
        bits  == e.prefix % ByteBits
    IN  /\ \A i \in 1 .. bytes : addr[i] = e.addr[i]
        /\ bits # 0 => KeepTop(addr[bytes + 1], bits) = KeepTop(e.addr[bytes + 1], bits)

-----------------------------------------------------------------------------
(* allow() of the classes.                                                 *)

Decide(f, matched) == (f.mode = "ALLOW") = matched

IpAllows(f, p) ==
    p.family \in IpFamilies =>
        Decide(f, \E e \in f.nets : e.family = p.family /\ cidr_match(p.addr, NetworkAddress(e)))

PortAllows(f, p) ==
    LET port == sockaddr_port(p)
    IN  port # 0 => Decide(f, \E r \in f.ranges : port >= r[1] /\ port <= r[2])

PidAllows(f, p) == p.pid # -1 => Decide(f, p.pid \in f.pids)

FirstWinsAllows(p) ==
    first.init =>
        /\ "PID"  \in first.mask => p.pid = first.pid
        /\ "IP"   \in first.mask => addrs_equal_ip(<<p.family, p.addr>>, first.addr)
        /\ "PORT" \in first.mask => sockaddr_port(p) = first.port

Anchored(p) ==
    [first EXCEPT !.init = TRUE,
                  !.pid  = IF "PID"  \in first.mask THEN p.pid ELSE @,
                  !.addr = IF "IP"   \in first.mask THEN <<p.family, p.addr>> ELSE @,
                  !.port = IF "PORT" \in first.mask THEN sockaddr_port(p) ELSE @]

\* What each filter says of p.
Allows(p) ==
    LET ok[f \in Filters] ==
            CASE f.op = "ip"    -> IpAllows(f, p)
              [] f.op = "port"  -> PortAllows(f, p)
              [] f.op = "pid"   -> PidAllows(f, p)
              [] f.op = "first" -> FirstWinsAllows(p)
              [] f.op = "all"   -> \A i \in DOMAIN f.kids : ok[f.kids[i]]
              [] f.op = "any"   -> \E i \in DOMAIN f.kids : ok[f.kids[i]]
    IN  ok

\* A combination asks a child when no earlier one has settled the answer.
AsksThrough(g, asks, ok) ==
    \E i \in DOMAIN g.kids :
        /\ asks[g.kids[i]]
        /\ \A j \in 1 .. i - 1 : ok[g.kids[j]] = (g.op = "all")

\* Which filters come to ask the FirstWinsFilter about p.
AsksFirstWins(p) ==
    LET asks[f \in Filters] ==
            \/ f.op = "first"
            \/ f.op \in {"all", "any"} /\ AsksThrough(f, asks, Allows(p))
    IN  asks

-----------------------------------------------------------------------------
(* PipeCollection::handle_event() at ADD_PRE: nng closes the pipe unless   *)
(* the filter allows it.  The pipes themselves are in PipeTracking.        *)

AddPre(p) ==
    LET ok    == filter = NoFilter \/ Allows(p)[filter]
        asked == filter # NoFilter /\ AsksFirstWins(p)[filter]
        d     == [by |-> filter, peers |-> {p}, ok |-> ok]
    IN  /\ last' = d
        /\ first' = IF asked /\ ~first.init THEN Anchored(p) ELSE first
        /\ anchor' = IF asked /\ ~first.init THEN d ELSE anchor
        /\ group' = IF asked /\ FirstWinsAllows(p) THEN group \cup {p} ELSE group
        /\ UNCHANGED <<setup, filter>>

\* Socket.pipe_filter = f; close() sets None.
SetFilter(f) ==
    /\ filter' = f
    /\ last' = NoDecision
    /\ UNCHANGED <<setup, first, anchor, group>>

\* FirstWinsFilter.reset()
Reset ==
    /\ first' = [first EXCEPT !.init = FALSE]
    /\ anchor' = NoDecision
    /\ group' = {}
    /\ UNCHANGED <<setup, filter, last>>

Next ==
    \/ \E p \in setup.peers : AddPre(p)
    \/ \E f \in setup.filters \cup {NoFilter} : SetFilter(f)
    \/ Reset

Spec == Init /\ [][Next]_vars

-----------------------------------------------------------------------------
(* An IpFilter decides by the number an address is: it matches a network   *)
(* if the two numbers agree in their first prefix bits, from /0 to a full  *)
(* address; host bits given with the network do not matter.                *)
Number(addr) ==
    LET n[i \in 0 .. Len(addr)] == IF i = 0 THEN 0 ELSE n[i - 1] * Byte + addr[i]
    IN  n[Len(addr)]

InNetwork(p, e) ==
    LET host == 2^(Len(p.addr) * ByteBits - e.prefix)
    IN  p.family = e.family /\ Number(p.addr) \div host = Number(e.addr) \div host

IpFilterByPrefix ==
    last.by.op = "ip" =>
        \A p \in last.peers :
            p.family \in IpFamilies =>
                last.ok = ((last.by.mode = "ALLOW") <=> \E e \in last.by.nets : InNetwork(p, e))

(* A PortFilter decides by the port number: its documentation has "a plain *)
(* int (single port) or a (lo, hi) tuple (inclusive range)".               *)
PortFilterByNumber ==
    last.by.op = "port" =>
        \A p \in last.peers :
            p.family \in IpFamilies =>
                last.ok = ((last.by.mode = "ALLOW") <=> \E r \in last.by.ranges : p.port \in r[1] .. r[2])

(* All that a FirstWinsFilter lets through between two resets agree with   *)
(* each other in every selected key, in whatever filter it was asked and   *)
(* whatever was assigned in between.  Only an anchor without an IP address *)
(* (the "same-machine assumption") leaves the addresses open.              *)
GroupAgrees ==
    \A p, q \in group :
        /\ "PID"  \in first.mask => p.pid = q.pid
        /\ "PORT" \in first.mask => sockaddr_port(p) = sockaddr_port(q)
        /\ "IP"   \in first.mask /\ first.addr[1] \in IpFamilies =>
              addrs_equal_ip(<<p.family, p.addr>>, <<q.family, q.addr>>)

(* "The first connection to pass establishes the anchor": a connection     *)
(* that the whole filter rejects never locks the others out, when no       *)
(* filter that could reject it comes after the FirstWinsFilter in an &.    *)
HasLastWord ==
    LET asksFirst[f \in Filters] ==
            \/ f.op = "first"
            \/ f.op \in {"all", "any"} /\ \E i \in DOMAIN f.kids : asksFirst[f.kids[i]]
        final[f \in Filters] ==
            /\ f.op = "all" => /\ final[f.kids[Len(f.kids)]]
                               /\ \A i \in 1 .. Len(f.kids) - 1 : ~asksFirst[f.kids[i]]
            /\ f.op = "any" => \A i \in DOMAIN f.kids : final[f.kids[i]]
    IN  final

AnchorPassed == anchor.by # NoFilter /\ HasLastWord[anchor.by] => anchor.ok
=============================================================================
