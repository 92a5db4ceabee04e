----------------------------- MODULE OrderedMap -----------------------------
(***************************************************************************)
(* What a Dict promises: a finite map that remembers the order in which    *)
(* its keys were first set.  Setting a key that is there keeps its place;  *)
(* a key that is removed and set again goes to the end.                    *)
(***************************************************************************)
EXTENDS Integers, Sequences

CONSTANTS MapKeys, MapValues

VARIABLE entries   \* the entries in order, each a record of key and val

Has(k) == \E i \in DOMAIN entries : entries[i].key = k

Init == entries = <<>>

SetKey(k, x) ==
  entries' = IF Has(k)
             THEN [i \in DOMAIN entries |->
                     IF entries[i].key = k THEN [key |-> k, val |-> x] ELSE entries[i]]
             ELSE Append(entries, [key |-> k, val |-> x])

(* The entries behind the removed one move up by one place.                *)
RemoveKey(k) ==
  IF Has(k)
  THEN \E i \in DOMAIN entries :
         /\ entries[i].key = k
         /\ entries' = [j \in 1 .. (Len(entries) - 1) |-> entries[IF j < i THEN j ELSE j + 1]]
  ELSE entries' = entries

Next == \/ \E k \in MapKeys, x \in MapValues : SetKey(k, x)
        \/ \E k \in MapKeys : RemoveKey(k)

Spec == Init /\ [][Next]_entries
=============================================================================
