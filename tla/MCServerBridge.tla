-------------------------- MODULE MCServerBridge --------------------------
(* Small instances of ServerBridge for TLC. *)
EXTENDS ServerBridge

CONSTANTS c1, c2, c3

ThreeConns == {c1, c2, c3}

Kind(certified, offers, talks) ==
  [certified |-> certified, offers |-> offers, talks |-> talks]

\* The bridge's own client, one with a certificate of another CA, two other
\* TLS clients with a certificate of the client CA, and a silent one.
PeerKinds ==
  {Kind(TRUE, {Alpn}, TRUE), Kind(FALSE, {Alpn}, TRUE), Kind(TRUE, {}, TRUE),
   Kind(TRUE, Protocols \ {Alpn}, TRUE), Kind(TRUE, {Alpn}, FALSE)}
=============================================================================
