---------------------------- MODULE OrderedDict ----------------------------
(***************************************************************************)
(* Python's dictionaries that remember insertion order, as far as the code *)
(* uses them: a sequence of entries [k |-> key, v |-> value], oldest first,*)
(* with no key twice.  pool.py keeps four collections.OrderedDict (id2slot *)
(* and the three s3fifo queues), evicting in that order; kvcache.py's      *)
(* segments and files are kept the same way, least recently used first.    *)
(***************************************************************************)

EXTENDS Integers, Sequences, SequencesExt

Entry(K, V) == [k : K, v : V]

OrderedDicts(K, V) ==
    {d \in Seq(Entry(K, V)) : \A i, j \in DOMAIN d : d[i].k = d[j].k => i = j}

Keys(d) == {d[i].k : i \in DOMAIN d}

IndexOf(d, key) == CHOOSE i \in DOMAIN d : d[i].k = key

\* d[key]
Get(d, key) == d[IndexOf(d, key)].v

\* d.pop(key), for what is left
Without(d, key) == RemoveAt(d, IndexOf(d, key))

\* d.move_to_end(key)
MoveToEnd(d, key) == Append(Without(d, key), d[IndexOf(d, key)])

\* d[key] = val: an existing key keeps its position
Put(d, key, val) ==
    IF key \in Keys(d) THEN [d EXCEPT ![IndexOf(d, key)] = [k |-> key, v |-> val]]
    ELSE Append(d, [k |-> key, v |-> val])
=============================================================================
