--------------------------- MODULE MC_MemoryStore ---------------------------
(* A store of two keys and three peers, p1 the local one.  The distances    *)
(* order the peers differently for the two keys, so that inserts land at    *)
(* the front, the middle and the end of a provider list.                    *)
EXTENDS MemoryStore

CONSTANTS a1, a2, p1, p2, p3

MCDist == [k \in {a1, a2} |->
             IF k = a1 THEN [p \in {p1, p2, p3} |-> IF p = p1 THEN 1 ELSE IF p = p2 THEN 2 ELSE 3]
                       ELSE [p \in {p1, p2, p3} |-> IF p = p1 THEN 3 ELSE IF p = p2 THEN 1 ELSE 2]]
=============================================================================
