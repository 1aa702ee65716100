------------------------------ MODULE MCIngest ------------------------------
(***************************************************************************)
(* Ingest for TLC: service ports 80 and 81, fragments of one datagram in   *)
(* two versions, and frames that are plain, tagged, tunnelled, truncated   *)
(* or not IP.                                                              *)
(***************************************************************************)
EXTENDS Ingest, TLC

Eth(tags) == [t |-> "eth", tags |-> tags]
Ip(v, s, d) == [t |-> v, src |-> s, dst |-> d]
Tcp(s, d) == [t |-> "tcp", sport |-> s, dport |-> d]
Frame(e, layers) == [egress |-> e, layers |-> layers]

Plain ==
    {Frame(FALSE, <<Eth(<<>>), Ip("ip4", s, "h"), Tcp(9, 80)>>) : s \in {"x", "y"}}
    \cup {Frame(TRUE, <<Eth(<<>>), Ip("ip4", "h", "x"), Tcp(80, 9)>>),
          Frame(FALSE, <<Eth(<<>>), Ip("ip6", "x", "h"), Tcp(9, 81)>>),
          Frame(FALSE, <<Eth(<<<<{"vlan"}, "7">>>>), Ip("ip4", "x", "h"), Tcp(9, 81)>>),
          Frame(FALSE, <<Eth(<<>>), Ip("ip4", "x", "h"), [t |-> "icmp"]>>),
          Frame(FALSE, <<Eth(<<>>), [t |-> "arp"], [t |-> "none"]>>),
          Frame(FALSE, <<Eth(<<<<{"vlan"}, "7">>>>), Ip("ip4", "x", "h") @@ [short |-> TRUE],
                         [t |-> "none"]>>)}

Inner == <<Ip("ip4", "x", "h"), Tcp(9, 80)>>
Vxlan == [t |-> "vxlan", sport |-> 9, dport |-> 4789, id |-> "vni"]
Gre == [t |-> "gre", id |-> "gre"]
Outside == <<Eth(<<>>), Ip("ip4", "a", "b")>>
Tunnelled ==
    {Frame(FALSE, Outside \o <<Vxlan, Eth(<<>>)>> \o Inner),
     Frame(FALSE, Outside \o <<Gre>> \o Inner),
     Frame(FALSE, Outside \o Inner),
     Frame(FALSE, Outside \o Inner \o Inner)}

Piece(off, data, more) ==
    Frame(FALSE, <<Eth(<<>>), Ip("ip4", "x", "h") @@
        [frag |-> [id |-> 1, off |-> off, more |-> more, ragged |-> FALSE, data |-> data]],
        [t |-> "none"]>>)
OtherPiece ==
    Frame(FALSE, <<Eth(<<>>), Ip("ip6", "x", "h") @@
        [frag |-> [id |-> 2, off |-> 0, more |-> TRUE, ragged |-> FALSE,
                   data |-> <<<<0, 1>>>>]], [t |-> "none"]>>)
Ragged ==
    Frame(FALSE, <<Eth(<<>>), Ip("ip4", "x", "h") @@
        [frag |-> [id |-> 1, off |-> 0, more |-> TRUE, ragged |-> TRUE,
                   data |-> <<<<0, 1>>>>]], [t |-> "none"]>>)
Pieces ==
    {Piece(0, <<<<0, v>>, <<1, v>>>>, TRUE) : v \in {1, 2}}
    \cup {Piece(1, <<<<1, 1>>>>, TRUE), Piece(2, <<<<2, 1>>>>, FALSE),
          Piece(1, <<<<1, 1>>>>, FALSE), OtherPiece, Ragged}

(* A client the operator does not want to see.                             *)
MCExcluded == {Frame(FALSE, <<Eth(<<>>), Ip("ip4", "z", "h"), Tcp(9, 80)>>)}
MCFrames == Plain \cup Tunnelled \cup Pieces \cup MCExcluded
MCDatagrams == <<<<Tcp(9, 80)>>, <<Tcp(9, 81)>>>>
=============================================================================
