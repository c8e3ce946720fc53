----------------------------- MODULE Collections -----------------------------
(***************************************************************************)
(* What arrays are, a Map that is set at a key, the filter of an array, of *)
(* which the positions it keeps are given as a set, and the first of       *)
(* several checks that fails.                                              *)
(***************************************************************************)
EXTENDS Naturals, Sequences

IsSequence(value) == value \in Seq({value[i] : i \in DOMAIN value})

\* map.set(key, value)
With(map, key, value) ==
  [k \in DOMAIN map \cup {key} |-> IF k = key THEN value ELSE map[k]]

\* The elements at the positions kept, in their order
Selected(seq, positions) ==
  LET kept[n \in 0 .. Len(seq)] ==
        IF n = 0 THEN << >>
        ELSE IF n \in positions THEN Append(kept[n - 1], seq[n])
        ELSE kept[n - 1]
  IN  kept[Len(seq)]

Least(S) == CHOOSE n \in S : \A m \in S : n <= m

\* The first of the errors, "none" if there is none
FirstReal(errors) ==
  LET real == {k \in DOMAIN errors : errors[k] # "none"}
  IN  IF real = {} THEN "none" ELSE errors[Least(real)]
=============================================================================
