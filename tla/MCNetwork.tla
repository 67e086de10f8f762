----------------------------- MODULE MCNetwork -----------------------------
(***************************************************************************)
(* Instances for TLC of the components that lead from a .torrent to the    *)
(* session of a peer: the walk to its info dictionary, the search through  *)
(* its trackers, one announce to a UDP tracker, and one session with its   *)
(* clock.  They share no state: in a behaviour one of them, the subject,   *)
(* moves and the others keep an initial state.                             *)
(***************************************************************************)
EXTENDS RawInfo, PeerDiscovery, UdpAnnounce, SessionLoop

VARIABLE subject

IdleTorrent == [announce |-> <<>>, announce_list |-> <<>>]
IdleWalk == source = <<>> /\ buf = <<>>

NetworkInit ==
    /\ subject \in {"walk", "discovery", "udp", "session"}
    /\ subject # "walk" => IdleWalk
    /\ subject # "discovery" => torrent = IdleTorrent /\ answer = [u \in Urls |-> Nothing]
    /\ WalkInit /\ DiscoveryInit /\ UdpInit /\ LoopInit

NetworkNext ==
    /\ \/ subject = "walk" /\ WalkNext /\ UNCHANGED <<discoveryVars, udpVars, loopVars>>
       \/ subject = "discovery" /\ DiscoveryNext /\ UNCHANGED <<walkVars, udpVars, loopVars>>
       \/ subject = "udp" /\ UdpNext /\ UNCHANGED <<walkVars, discoveryVars, loopVars>>
       \/ subject = "session" /\ LoopNext /\ UNCHANGED <<walkVars, discoveryVars, udpVars>>
    /\ UNCHANGED subject

networkVars == <<subject, walkVars, discoveryVars, udpVars, loopVars>>

NetworkSpec ==
    /\ NetworkInit /\ [][NetworkNext]_networkVars
    /\ subject = "udp" => UdpFairness
    /\ subject = "session" => LoopFairness
-----------------------------------------------------------------------------
(* For RawInfo *)

Str(s) == [kind |-> "bytes", bytes |-> s]
Num(s) == [kind |-> "int", digits |-> s]

\* Integers, byte strings that hold bencode, a key `info` inside, empty and
\* nested containers, and a length of two digits.
Values ==
    {Num(<<"-", "7">>), Str(<<>>), Str(<<"e", "1", ":", "n">>),
     Str(<<"d", "e", "d", "e", "d", "e", "d", "e", "d", "e", "d">>),
     [kind |-> "list", items |-> <<>>],
     [kind |-> "list", items |-> <<[kind |-> "list", items |-> <<Num(<<"1">>)>>], Str(<<"e">>)>>],
     [kind |-> "dict", entries |-> <<>>],
     [kind |-> "dict", entries |-> << <<<<Info>>, Num(<<"0">>)>>, <<<<"z">>, Str(<<"e">>)>> >>]}

Keys == {<<"a">>, <<Info>>, <<Info, "s">>}
SmallMetas == BoundedSeq(Keys \X Values, 2)

SmallGarbage ==
    {<<>>, <<"i", "1", "e">>, <<"l", "e">>, <<"d">>, <<"d", "x", ":">>, <<"d", ":", "e">>,
     <<"d", "1", ":", "n", "x">>, <<"d", "+", "1", ":", "n", "i", "e", "e">>,
     <<"d", "9", "9", ":", "n", "e">>}
-----------------------------------------------------------------------------
(* For PeerDiscovery *)

Scheme(u) == CASE u \in {"h1", "h2"} -> "http" [] u \in {"u1", "u6"} -> "udp" [] OTHER -> "wss"

Body(failure, ps, ps6) == [kind |-> "dict", failure |-> failure, peers |-> ps, peers6 |-> ps6]
Peer(ip, port) == [ip |-> ip, port |-> port]

\* Failures, both compact forms (with a repeated peer, and with a byte too many),
\* and a list with entries that cannot be used and a port out of range.
SomeBodies ==
    {Nothing, Body(Bytes(<<>>), Bytes(<<1, 0, 1>>), Nothing), Body(Nothing, Nothing, Nothing),
     Body(Nothing, Bytes(<<1, 0, 1, 2, 1, 0, 1, 0, 1>>), Nothing),
     Body(Nothing, Bytes(<<1, 0, 1, 2>>), Nothing),
     Body(Nothing, Bytes(<<2, 1, 0>>), Bytes(<<1, 0, 3, 1, 2, 1>>)),
     Body(Nothing, Bytes(<<2, 1, 0>>), Bytes(<<1, 0, 3>>)),
     Body(Int64(0), List(<<Peer(Bytes(<<1>>), Int64(18)), Peer(Bytes(<<>>), Int64(1)),
                           Peer(Bytes(<<2>>), Nothing), Peer(Nothing, Int64(1)),
                           Peer(Bytes(<<1>>), Int64(2))>>), Nothing)}

\* Bytes that are two entries over IPv4 and one over IPv6.
SomeOutcomes == {Nothing, Bytes(<<>>), Bytes(<<3, 3, 1, 3, 3, 1>>)}

SomeTorrents ==
    [announce : {<<>>, <<"h1">>, <<"u1">>, <<"u6">>, <<"w1">>},
     announce_list : {<<>>, << <<"h1", "h2">> >>, << <<"h1">>, <<"u1", "h1">> >>,
                      << <<>>, <<"w1", "h2">>, <<"u6">> >>}]
=============================================================================
