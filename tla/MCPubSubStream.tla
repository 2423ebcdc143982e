--------------------------- MODULE MCPubSubStream ---------------------------
(* An instance of PubSubStream: two streams, two tokens, one connection.    *)
EXTENDS PubSubStream
=============================================================================
