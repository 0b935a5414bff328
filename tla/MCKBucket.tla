------------------------------ MODULE MCKBucket ------------------------------
(***************************************************************************)
(* Hashes of four bits for the DHT.  The bits that count are the last      *)
(* three; d and e differ in the first bit only, so no split parts them.    *)
(***************************************************************************)
EXTENDS DHTService

CONSTANTS a, d, e

MCHashOf ==
  [n \in DHTNode |-> CASE n = a -> <<0, 1, 0, 0>>
                       [] n = d -> <<0, 0, 0, 1>>
                       [] n = e -> <<1, 0, 0, 1>>]
MCOwnHash == <<0, 0, 0, 0>>
MCTarget == {<<0, 0, 0, 1>>}
=============================================================================
