------------------------------- MODULE MCCrc -------------------------------
(***************************************************************************)
(* The polynomial of config.h, and short messages of a few bytes.          *)
(***************************************************************************)
EXTENDS Crc

CONSTANT Lengths    \* of the messages, in bytes

ConfigPoly == <<1, 0, 1, 1, 1, 0, 1, 0, 1, 1, 0, 1, 0, 1, 0, 1>>

SomeBytes == {<<0, 0, 0, 0, 0, 0, 0, 0>>, <<1, 0, 1, 0, 0, 1, 0, 1>>,
              <<0, 0, 0, 0, 0, 0, 0, 1>>}
SomeMessages == UNION {[1..n -> SomeBytes] : n \in Lengths}
=============================================================================
