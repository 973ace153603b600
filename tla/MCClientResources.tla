-------------------------- MODULE MCClientResources --------------------------
(* A small instance of ClientResources for TLC. *)
EXTENDS ClientResources

CONSTANTS c1, c2, a1, a2

Built(transport, passed) == [transport |-> transport, passed |-> passed]
SomeClients == {Built("grpc", {}), Built("grpc", {"media"}), Built("http", {}),
                Built("http", {"media", "keycloak"})}
=============================================================================
