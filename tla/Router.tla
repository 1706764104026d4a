------------------------------- MODULE Router -------------------------------
(***************************************************************************)
(* router: which egress a flow leaves by.  The rules are of several types, *)
(* each a map from patterns to egresses (a trie for domains); the types    *)
(* are asked in the order of Prior, then the rule DEFAULT.  A policy other *)
(* than `none' does not exist, so that an action is its egress.            *)
(***************************************************************************)
EXTENDS Trie

VARIABLES
  prior,      \* the types in the order they are asked
  rules,      \* the maps of the types that have one
  domains,    \* the trie of the type DOMAIN
  default     \* the egress of the rule DEFAULT; Nil without one

routerVars == <<prior, rules, domains, default>>

MapType == {"ROUTE", "GEOIP", "PRGNAME", "PRGPATH"}

NoRules == [p \in {} |-> Nil]

RouterInit ==
  /\ prior = << >>
  /\ rules = [k \in MapType |-> NoRules]
  /\ domains = Empty
  /\ default = Nil

(* The types Insert takes, and the type each is kept as.                   *)
Kept == [k \in {"ROUTE", "GEOIP", "PRGPATH", "PRGAME"} |->
           IF k = "PRGAME" THEN "PRGNAME" ELSE k]

ValidType(k) == k \in DOMAIN Kept \cup {"DOMAIN", "DEFAULT"}

SetEntry(f, p, e) == [x \in DOMAIN f \cup {p} |-> IF x = p THEN e ELSE f[x]]

InsertRule(k, p, e) ==
  \/ /\ k = "DEFAULT"
     /\ default' = e
     /\ UNCHANGED <<prior, rules, domains>>
  \/ /\ k = "DOMAIN"
     /\ domains' = Insert(domains, p, e)
     /\ UNCHANGED <<prior, rules, default>>
  \/ /\ k \in DOMAIN Kept
     /\ rules' = [rules EXCEPT ![Kept[k]] = SetEntry(@, p, e)]
     /\ UNCHANGED <<prior, domains, default>>

-----------------------------------------------------------------------------
(* What a map's rule compares: a flow is a record of the ingress, domain,  *)
(* country of the remote address and process it is known by, Nil where it  *)
(* is not.                                                                 *)
Pattern(k, m) == CASE k = "ROUTE"   -> m.ingress
                   [] k = "GEOIP"   -> m.country
                   [] k = "PRGNAME" -> m.name
                   [] k = "PRGPATH" -> m.path

Match(k, m) ==
  CASE k = "DOMAIN"  -> IF m.domain = Nil THEN Nil ELSE Search(domains, m.domain)
    [] k = "DEFAULT" -> default
    [] k \in MapType -> IF Pattern(k, m) \in DOMAIN rules[k]
                        THEN rules[k][Pattern(k, m)] ELSE Nil
    [] OTHER         -> Nil

Dispatch_lastMatch(m) ==
  LET hits == {i \in DOMAIN prior : Match(prior[i], m) # Nil}
  IN  IF hits = {} THEN default
      ELSE Match(prior[Max(hits)], m)

(* The first type in the order that has a rule for the flow; Nil, for      *)
(* which Dispatch panics, without any.                                     *)
Dispatch(m) ==
  LET hits == {i \in DOMAIN prior : Match(prior[i], m) # Nil}
  IN  IF hits = {} THEN default
      ELSE Match(prior[Min(hits)], m)
=============================================================================
