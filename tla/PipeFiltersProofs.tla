-------------------------- MODULE PipeFiltersProofs --------------------------
(***************************************************************************)
(* What a FirstWinsFilter promises, for every set of peers, of filters and *)
(* of programs and for every choice of keys.                               *)
(***************************************************************************)
EXTENDS PipeFilters, TLAPS

(* The FirstWinsFilter is a record of its five fields.                     *)
FirstInv ==
    first = [mask |-> first.mask, init |-> first.init, pid |-> first.pid,
             addr |-> first.addr, port |-> first.port]

(* Whoever was let through was let through by the anchor that is there     *)
(* now: GroupAgrees, which compares two of them, does not mention it.      *)
GroupInv == \A p \in group : first.init /\ FirstWinsAllows(p)

IInv == FirstInv /\ GroupInv

(* addrs_equal_ip() is not transitive: a non-IP address equals all others. *)
(* Through an IP address it is.                                            *)
LEMMA EqualThroughIp ==
    ASSUME NEW a, NEW b, NEW c, c[1] \in IpFamilies, addrs_equal_ip(a, c), addrs_equal_ip(b, c)
    PROVE  addrs_equal_ip(a, b)
    BY DEF addrs_equal_ip

(* A peer that the filter locks on to matches the new anchor.              *)
LEMMA AnchorMatches ==
    ASSUME FirstInv, NEW p, first' = Anchored(p)
    PROVE  FirstInv' /\ first'.init /\ FirstWinsAllows(p)'
<1>1. first' = [mask |-> first.mask, init |-> TRUE,
                pid  |-> IF "PID"  \in first.mask THEN p.pid ELSE first.pid,
                addr |-> IF "IP"   \in first.mask THEN <<p.family, p.addr>> ELSE first.addr,
                port |-> IF "PORT" \in first.mask THEN sockaddr_port(p) ELSE first.port]
    BY Zenon DEF FirstInv, Anchored
<1>2. addrs_equal_ip(<<p.family, p.addr>>, <<p.family, p.addr>>)
    BY DEF addrs_equal_ip
<1> QED BY <1>1, <1>2 DEF FirstInv, FirstWinsAllows

LEMMA InvInit == Init => IInv
<1> SUFFICES ASSUME Init PROVE IInv
    OBVIOUS
<1>1. FirstInv
    BY DEF Init, FirstInv
<1>2. GroupInv
    BY DEF Init, GroupInv
<1> QED BY <1>1, <1>2 DEF IInv

LEMMA InvNext == IInv /\ [Next]_vars => IInv'
<1> SUFFICES ASSUME IInv, [Next]_vars PROVE IInv'
    OBVIOUS
<1> USE DEF IInv
<1>1. ASSUME NEW p \in setup.peers, AddPre(p) PROVE IInv'
  <2> DEFINE asked == filter # NoFilter /\ AsksFirstWins(p)[filter]
  <2>1. /\ first' = IF asked /\ ~first.init THEN Anchored(p) ELSE first
        /\ group' = IF asked /\ FirstWinsAllows(p) THEN group \cup {p} ELSE group
      BY <1>1 DEF AddPre
  <2> HIDE DEF asked
  <2>2. CASE asked /\ ~first.init
    <3>1. group = {}
        BY <2>2 DEF GroupInv
    <3>2. group' \subseteq {p}
        BY <2>1, <3>1
    <3>3. FirstInv' /\ first'.init /\ FirstWinsAllows(p)'
        BY <2>1, <2>2, AnchorMatches
    <3> QED BY <3>2, <3>3 DEF GroupInv
  <2>3. CASE ~asked
      BY <2>1, <2>3 DEF FirstInv, GroupInv, FirstWinsAllows
  <2>4. CASE asked /\ first.init
    <3>1. first' = first
        BY <2>1, <2>4
    <3>2. \A q \in group' : FirstWinsAllows(q)
        BY <2>1, <2>4 DEF GroupInv
    <3> QED BY <2>4, <3>1, <3>2 DEF FirstInv, GroupInv, FirstWinsAllows
  <2> QED BY <2>2, <2>3, <2>4
<1>2. ASSUME NEW f, SetFilter(f) PROVE IInv'
    BY <1>2 DEF SetFilter, FirstInv, GroupInv, FirstWinsAllows
<1>3. CASE Reset
  <2>1. FirstInv'
    <3>1. first' = [mask |-> first.mask, init |-> FALSE, pid |-> first.pid,
                    addr |-> first.addr, port |-> first.port]
        BY <1>3, Zenon DEF Reset, FirstInv
    <3> QED BY <3>1 DEF FirstInv
  <2>2. GroupInv'
      BY <1>3 DEF Reset, GroupInv
  <2> QED BY <2>1, <2>2
<1>4. CASE UNCHANGED vars
    BY <1>4 DEF vars, FirstInv, GroupInv, FirstWinsAllows
<1> QED BY <1>1, <1>2, <1>3, <1>4 DEF Next

LEMMA InvImplies == IInv => GroupAgrees
<1> SUFFICES ASSUME IInv, NEW p \in group, NEW q \in group
             PROVE  /\ "PID"  \in first.mask => p.pid = q.pid
                    /\ "PORT" \in first.mask => sockaddr_port(p) = sockaddr_port(q)
                    /\ "IP"   \in first.mask /\ first.addr[1] \in IpFamilies =>
                          addrs_equal_ip(<<p.family, p.addr>>, <<q.family, q.addr>>)
    BY DEF GroupAgrees
<1>1. /\ first.init
      /\ "PID"  \in first.mask => p.pid = first.pid /\ q.pid = first.pid
      /\ "PORT" \in first.mask => sockaddr_port(p) = first.port /\ sockaddr_port(q) = first.port
      /\ "IP"   \in first.mask => /\ addrs_equal_ip(<<p.family, p.addr>>, first.addr)
                                  /\ addrs_equal_ip(<<q.family, q.addr>>, first.addr)
    BY DEF IInv, GroupInv, FirstWinsAllows
<1> QED BY <1>1, EqualThroughIp

(* All connections that a FirstWinsFilter lets through between two resets  *)
(* agree in the selected keys (pipe_filter.hpp: "ALL selected dimensions   *)
(* must match after the anchor is established").                           *)
THEOREM GroupAgreement == Spec => []GroupAgrees
<1> QED BY InvInit, InvNext, InvImplies, PTL DEF Spec
=============================================================================
