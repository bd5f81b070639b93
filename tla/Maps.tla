-------------------------------- MODULE Maps --------------------------------
(***************************************************************************)
(* Maps and keyed tables as functions on the keys they hold.               *)
(***************************************************************************)

\* map[key] = value
Put(map, key, value) == [k \in {key} \cup DOMAIN map |-> IF k = key THEN value ELSE map[k]]

\* The entries of the first map, and those of the second with other keys:
\* rows inserted into a table whose rule turns INSERT into UPDATE.
Over(new, old) == [k \in DOMAIN new \cup DOMAIN old |-> IF k \in DOMAIN new THEN new[k] ELSE old[k]]
=============================================================================
