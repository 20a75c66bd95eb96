-------------------------------- MODULE Filter --------------------------------
(* The filter of JavaScript arrays, `array.filter((x) => !set.has(x))`, as   *)
(* the modules use it, and the order of a Map or a Set where any may do.     *)
(* The filter is a recursive function, and not the SelectSeq of Sequences,   *)
(* so that ListTheorems can reason about it.                                 *)
EXTENDS Naturals, Sequences, FiniteSets

(* The elements of s that are not in S, in their order.                     *)
Without(s, S) ==
    LET kept[i \in 0..Len(s)] ==
            IF i = 0 THEN <<>>
            ELSE IF s[i] \in S THEN kept[i - 1]
            ELSE Append(kept[i - 1], s[i])
    IN  kept[Len(s)]

(* The elements of the finite set S, each once.                             *)
InSomeOrder(S) ==
    CHOOSE s \in [1..Cardinality(S) -> S] : \A i, j \in DOMAIN s : s[i] = s[j] => i = j
===============================================================================
