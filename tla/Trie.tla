-------------------------------- MODULE Trie --------------------------------
(***************************************************************************)
(* util/trie: domain patterns, kept by their labels from the last one on.  *)
(* A domain is the sequence of its labels in the order they are written;   *)
(* a trie is a function from its nodes to their data, where a node is the  *)
(* sequence of labels that leads to it from the root.                      *)
(***************************************************************************)
EXTENDS Naturals, Sequences, SequencesExt

CONSTANT Nil      \* no data

Wild == "+"

Empty == [n \in {<< >>} |-> Nil]

Has(t, n, l) == Append(n, l) \in DOMAIN t

(* The nodes on the way are made as needed; a pattern that is there gets   *)
(* the new data.                                                           *)
Insert(t, s, data) ==
  [n \in DOMAIN t \cup Prefixes(Reverse(s)) |->
     IF n = Reverse(s) THEN data
     ELSE IF n \in DOMAIN t THEN t[n] ELSE Nil]

(* A label leads to the node below that has it, or else to the wildcard    *)
(* below; a label that leads nowhere is passed over.                       *)
Root == [node |-> << >>, wild |-> FALSE]

Descend(t, c, l) ==
  IF Has(t, c.node, l) THEN [node |-> Append(c.node, l), wild |-> FALSE]
  ELSE IF Has(t, c.node, Wild) THEN [node |-> Append(c.node, Wild), wild |-> TRUE]
  ELSE c

(* The node reached after i labels, and whether it was by a wildcard.      *)
Reached(t, s) ==
  LET at[i \in 0 .. Len(s)] ==
        IF i = 0 THEN Root ELSE Descend(t, at[i - 1], Reverse(s)[i])
  IN  at

(* The data the search ends at, Nil if it finds none: only the first label *)
(* decides, and a domain that is only on the way to others has what the    *)
(* wildcard below it says.                                                 *)
Search(t, s) ==
  LET before == Reached(t, s)[Len(s) - 1]
      after  == Reached(t, s)[Len(s)]
  IN  IF after # before /\ ~after.wild /\ t[after.node] = Nil
         /\ Has(t, after.node, Wild)
      THEN t[Append(after.node, Wild)]
      ELSE IF after # before \/ before.wild THEN t[after.node] ELSE Nil

-----------------------------------------------------------------------------
(* What a set of patterns, a wildcard as their first label at most, means. *)
Covers(p, s) == p = s \/ (p[1] = Wild /\ IsSuffix(Tail(p), s))

MostSpecific(P, s) ==
  IF s \in P THEN s
  ELSE CHOOSE p \in P : Covers(p, s) /\ \A q \in P : Covers(q, s) => Len(q) <= Len(p)

(* The search goes down another pattern's nodes, past the best one's       *)
(* wildcard, and takes no step back.                                       *)
Hidden(P, s) ==
  \E q \in P, w \in Suffixes(s) : Len(w) >= Len(MostSpecific(P, s)) /\ IsSuffix(w, q)

Within(p, s) ==
  \E f \in [DOMAIN p -> DOMAIN s] :
    \A i \in DOMAIN p : p[i] = s[f[i]] /\ \A j \in 1 .. i - 1 : f[j] < f[i]

(* A pattern is what is left of the domain without some of its labels: the *)
(* search passes over those.                                               *)
Stumbles(P, s) == \E p \in P : IF p[1] = Wild THEN Within(Tail(p), s)
                               ELSE p[1] = s[1] /\ Within(p, s)

(* The pattern that is meant by the patterns P for a domain.               *)
Meant(P, s) == IF \E p \in P : Covers(p, s) THEN {MostSpecific(P, s)} ELSE {}

(* The domains for which the search finds what is meant.                   *)
Clear(P, s) ==
  /\ \A p \in P : \A i \in 2 .. Len(p) : p[i] # Wild
  /\ IF \E p \in P : Covers(p, s) THEN s \in P \/ ~Hidden(P, s) ELSE ~Stumbles(P, s)
=============================================================================
