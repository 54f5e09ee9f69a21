------------------------------ MODULE Recency ------------------------------
(* Rows that carry the time they were recorded at, oldest first.           *)
EXTENDS Integers, Sequences

\* The rows that are not older than limit.
Since(rows, limit) ==
    LET kept[i \in 0 .. Len(rows)] ==
            IF i = 0 THEN <<>>
            ELSE IF rows[i].at >= limit THEN Append(kept[i - 1], rows[i])
                 ELSE kept[i - 1]
    IN kept[Len(rows)]
=============================================================================
