-------------------------------- MODULE Tables --------------------------------
(* The hash maps of the code: functions from the keys that are present. *)

EmptyTable == [k \in {} |-> {}]

\* remove, for every key of S
Without(f, S) == [k \in DOMAIN f \ S |-> f[k]]

\* insert
Put(f, k, v) == [x \in DOMAIN f \cup {k} |-> IF x = k THEN v ELSE f[x]]
=============================================================================
