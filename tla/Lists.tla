-------------------------------- MODULE Lists --------------------------------
(* Lists without repetitions, `Array.from(new Set(list))`, and what JavaScript *)
(* keeps by name and not by position.                                       *)
EXTENDS Naturals, Sequences, FiniteSets, Functions

(* The elements of s, each where it comes first. *)
Unique(s) ==
    LET once[i \in 0..Len(s)] ==
            IF i = 0 THEN <<>>
            ELSE IF s[i] \in Range(once[i - 1]) THEN once[i - 1]
            ELSE Append(once[i - 1], s[i])
    IN  once[Len(s)]

(* What is reached from the members of S, when x leads to next[x].          *)
Reach(next, S) ==
    {m \in DOMAIN next :
        \A C \in SUBSET DOMAIN next :
            S \subseteq C /\ (\A n \in C : next[n] \subseteq C) => m \in C}

(* The sum of the values of a function to the naturals. *)
Total(f) == Cardinality(UNION {{x} \X (1..f[x]) : x \in DOMAIN f})
===============================================================================
