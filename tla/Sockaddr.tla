------------------------------ MODULE Sockaddr ------------------------------
(***************************************************************************)
(* The struct sockaddr_storage that main() keeps, src/main.c, and that the *)
(* command line or discovery writes as a sockaddr_in or a sockaddr_in6:    *)
(*                                                                         *)
(*     octets   0-1      2-3    4-7             8-23       24-27           *)
(*     IPv4     family   port   sin_addr        (zeros)                    *)
(*     IPv6     family   port   sin6_flowinfo   sin6_addr  sin6_scope_id   *)
(*                                                                         *)
(* The two structures share memory, and no writer clears what the other    *)
(* one, or an earlier round, has left there.                               *)
(***************************************************************************)
EXTENDS Naturals

CONSTANT Zeros  \* what octets that were never written spell

Families == {"none", "ipv4", "ipv6"}

Storage == [family : Families, port : Nat, quad : STRING, long : STRING, scope : Nat,
            length : Families]

\* struct sockaddr_storage address = {0}
Blank == [family |-> "none", port |-> 0, quad |-> Zeros, long |-> Zeros, scope |-> 0,
          length |-> "none"]

\* Writing family, address and length, each structure in its own place.
WriteHost(address, family, host) ==
  IF family = "ipv4"
    THEN [address EXCEPT !.family = family, !.quad = host, !.length = family]
    ELSE [address EXCEPT !.family = family, !.long = host, !.length = family]

WritePort(address, port) == [address EXCEPT !.port = port]

\* What connect() makes of it: the family says which structure is read, and the
\* length that all of it is.
Target(address) ==
  LET ipv4 == address.family = "ipv4"
  IN  [family |-> address.family, port |-> address.port,
       host   |-> IF ipv4 THEN address.quad ELSE address.long,
       flow   |-> IF ipv4 THEN Zeros ELSE address.quad,
       scope  |-> IF ipv4 THEN 0 ELSE address.scope]

\* The part of it that a command line or an offer can name.
Endpoint(address) ==
  LET target == Target(address)
  IN  [family |-> target.family, port |-> target.port, host |-> target.host]
=============================================================================
