------------------------------ MODULE BridgeMC ------------------------------
(***************************************************************************)
(* The datagrams for model checking Bridge.                                *)
(***************************************************************************)
EXTENDS Bridge

\* A plain target, and one with a colon in it.
MCTargets == {<<Word("bridge")>>, <<Word("data"), Colon, Word("self")>>}

\* We find ourselves.
MCReplies == {<<"self", 1>>}

\* A bridge that answers two requests.
MCRepeated == {<<"peer", 1>>, <<"peer", 2>>}

\* A datagram from elsewhere for the plain target, with a port that is too large.
MCNoise == {construct(<<Word("bridge")>>, "peer", PortMax + 1 + TcpPort, 2)}
=============================================================================
