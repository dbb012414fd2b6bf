------------------------ MODULE MCMessagePackFraming ------------------------
(* Instance of MessagePackFraming for TLC: digits of one bit in place of  *)
(* seven, so that bytes range over 0..3; every byte string of up to six   *)
(* bytes; payloads of up to six bytes, one more than a frame may have,    *)
(* each of one byte repeated.                                             *)
EXTENDS MessagePackFraming

MCWild == UNION {[1..n -> Byte] : n \in 0..6}
MCPayloads == UNION {{[i \in 1..n |-> b] : b \in {0, 1, 3}} : n \in 0..6}
=============================================================================
