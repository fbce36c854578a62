--------------------------- MODULE MCRateLimiter ----------------------------
(* Instances of RateLimiter for TLC: all clients come through one proxy, as in *)
(* docker/nginx.conf.                                                          *)
EXTENDS RateLimiter

CONSTANT nginx

AddressOfValue == [c \in Client |-> nginx]
=============================================================================
