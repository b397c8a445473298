----------------------------- MODULE MCNftBackend -----------------------------
(* Two bits of address: four hosts and two networks of a shorter prefix.   *)
EXTENDS NftBackend

PrefixesDef == {1, 2}
NetsDef == {<<0, 0>>, <<0, 1>>, <<0, 2>>, <<1, 2>>}
=============================================================================
