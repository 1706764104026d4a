------------------------------- MODULE Config -------------------------------
(***************************************************************************)
(* The start of the program up to the point where it serves: global.Init   *)
(* parses the parts of the configuration in their order and registers      *)
(* them; an error or a panic ends the program.  The names and the rule     *)
(* lines are those of any configuration; a line is the sequence of its     *)
(* fields, which the model picks as the parser comes to them.              *)
(***************************************************************************)
EXTENDS Router, FiniteSets

CONSTANTS
  EgressNames,    \* what the lists of names in a configuration can be
  GroupNames,
  IngressNames,
  Line,           \* the rule lines
  Flow,           \* what is known of the flows that come
  MaxLines        \* a bound of the model: the longest list of rules

(* Fields are what strings.Split leaves, labels too: at least one.         *)
IsSequence(s) == Len(s) \in Nat /\ s = [i \in 1 .. Len(s) |-> s[i]]

ASSUME ConfigAssumption ==
  /\ \A l \in Line :
       /\ IsSequence(l) /\ \A i \in DOMAIN l : l[i] # Nil
       /\ Len(l) > 1 /\ l[1] = "DOMAIN" => IsSequence(l[2]) /\ Len(l[2]) > 0
  /\ \A m \in Flow : m.domain # Nil => IsSequence(m.domain) /\ Len(m.domain) > 0

VARIABLES
  names,     \* the configured names: of egresses, their groups, ingresses
  lines,     \* the rule lines up to now
  stage,     \* where Init is
  reading,   \* whether ParseRouter still reads lines
  mmdb,      \* the file of the GeoIP database
  egresses,  \* the registered names, as above
  groups,
  ingresses

vars == <<routerVars, names, lines, stage, reading, mmdb, egresses, groups, ingresses>>

parts == <<egresses, groups, ingresses>>

ConfigInit ==
  /\ RouterInit
  /\ names \in [egress : EgressNames, group : GroupNames, ingress : IngressNames]
  /\ lines = << >> /\ stage = "egress" /\ reading = TRUE
  /\ mmdb \in {"none", "partial", "good"}
  /\ egresses = {} /\ groups = {} /\ ingresses = {}

NoDup(s) == Cardinality({s[i] : i \in DOMAIN s}) = Len(s)
Elems(s) == {s[i] : i \in DOMAIN s}

-----------------------------------------------------------------------------
Egress_noBuiltins ==
  /\ stage = "egress"
  /\ IF NoDup(names.egress)
     THEN egresses' = Elems(names.egress) /\ stage' = "group"
     ELSE stage' = "error" /\ UNCHANGED egresses
  /\ UNCHANGED <<routerVars, names, lines, reading, mmdb, groups, ingresses>>

(* ParseEgress: DIRECT and REJECT replace what has their name.             *)
Egress ==
  /\ stage = "egress"
  /\ IF NoDup(names.egress)
     THEN egresses' = Elems(names.egress) \cup {"DIRECT", "REJECT"} /\ stage' = "group"
     ELSE stage' = "error" /\ UNCHANGED egresses
  /\ UNCHANGED <<routerVars, names, lines, reading, mmdb, groups, ingresses>>

Group_unchecked ==
  /\ stage = "group"
  /\ IF NoDup(names.group)
     THEN groups' = Elems(names.group) /\ stage' = "rules"
     ELSE stage' = "error" /\ UNCHANGED groups
  /\ UNCHANGED <<routerVars, names, lines, reading, mmdb, egresses, ingresses>>

Group ==
  /\ stage = "group"
  /\ IF NoDup(names.group) /\ Elems(names.group) \cap egresses = {}
     THEN groups' = Elems(names.group) /\ stage' = "rules"
     ELSE stage' = "error" /\ UNCHANGED groups
  /\ UNCHANGED <<routerVars, names, lines, reading, mmdb, egresses, ingresses>>

-----------------------------------------------------------------------------
IsPrior(l) == l[1] \in {"PRIOR", "Prior", "prior"}

(* The fields of a line with its policy.                                   *)
Full(l) == IF Len(l) < 4 /\ l[1] # "PRIOR" THEN Append(l, "none") ELSE l

Ends(l) == Len(Full(l)) = 3 /\ l[1] = "DEFAULT"

(* A field is missing, or the type is not one that Insert takes: the type  *)
(* is compared in capitals by the parser, which only PRIOR gains from, and *)
(* as it is written by Insert.                                             *)
Panics(l) == \/ Len(l) < 2
             \/ /\ ~Ends(l) /\ ~IsPrior(l)
                /\ Len(Full(l)) < 4 \/ ~ValidType(l[1])

(* A rule for countries opens the database: a file that is not there is    *)
(* fetched, which may break off; one that cannot be read is closed, though *)
(* it was never opened.                                                    *)
OpenMmdb(l) ==
  IF l[1] # "GEOIP" \/ mmdb = "good" THEN UNCHANGED mmdb
  ELSE mmdb = "none" /\ mmdb' = "good"

ReadRule(l) ==
  /\ stage = "rules" /\ reading /\ Len(lines) < MaxLines
  /\ lines' = Append(lines, l)
  /\ ~Panics(l) /\ OpenMmdb(l)
  /\ \/ /\ Ends(l)
        /\ InsertRule("DEFAULT", Nil, l[2])
        /\ reading' = FALSE
     \/ /\ IsPrior(l)
        /\ prior' = prior \o Tail(Full(l))
        /\ UNCHANGED <<rules, domains, default, reading>>
     \/ /\ ~Ends(l) /\ ~IsPrior(l)
        /\ InsertRule(l[1], l[2], l[3])
        /\ UNCHANGED reading
  /\ UNCHANGED <<names, stage, parts>>

(* The lines after DEFAULT are not read.                                   *)
PassOver(l) ==
  /\ stage = "rules" /\ ~reading /\ Len(lines) < MaxLines
  /\ lines' = Append(lines, l)
  /\ UNCHANGED <<routerVars, names, stage, reading, mmdb, parts>>

RulePanics(l) ==
  /\ stage = "rules" /\ reading /\ Len(lines) < MaxLines
  /\ lines' = Append(lines, l) /\ stage' = "panic"
  /\ \/ Panics(l) /\ UNCHANGED mmdb
     \/ ~Panics(l) /\ l[1] = "GEOIP" /\ mmdb = "none" /\ mmdb' \in {"none", "partial"}
     \/ ~Panics(l) /\ l[1] = "GEOIP" /\ mmdb = "partial" /\ UNCHANGED mmdb
  /\ UNCHANGED <<routerVars, names, reading, parts>>

UsualOrder == <<"ROUTE", "PRGPATH", "PRGNAME", "DOMAIN", "GEOIP">>

RulesOver ==
  /\ stage = "rules"
  /\ prior' = IF prior = << >> THEN UsualOrder ELSE prior
  /\ stage' = "ingress"
  /\ UNCHANGED <<rules, domains, default, names, lines, reading, mmdb, parts>>

-----------------------------------------------------------------------------
Ingress ==
  /\ stage = "ingress"
  /\ IF NoDup(names.ingress)
     THEN ingresses' = Elems(names.ingress) /\ stage' = "ingressGroup"
     ELSE stage' = "error" /\ UNCHANGED ingresses
  /\ UNCHANGED <<routerVars, names, lines, reading, mmdb, egresses, groups>>

(* What is registered as groups of ingresses are those of egresses.        *)
IngressGroup ==
  /\ stage = "ingressGroup"
  /\ stage' = IF Elems(names.group) \cap ingresses = {} THEN "up" ELSE "error"
  /\ UNCHANGED <<routerVars, names, lines, reading, mmdb, parts>>

Next == \/ Egress \/ Group \/ RulesOver \/ Ingress \/ IngressGroup
        \/ \E l \in Line : ReadRule(l) \/ PassOver(l) \/ RulePanics(l)

Spec == ConfigInit /\ [][Next]_vars /\ WF_vars(Next)

-----------------------------------------------------------------------------
(* What the lines say, read as a list: those up to the first DEFAULT with  *)
(* nothing but an egress count.                                            *)
Counting ==
  {i \in DOMAIN lines : \A j \in 1 .. i - 1 : ~Ends(lines[j])}

EgressOf(l) == IF Ends(l) THEN l[2] ELSE l[3]

Order ==
  LET upTo[i \in 0 .. Len(lines)] ==
        IF i = 0 THEN << >>
        ELSE IF i \in Counting /\ IsPrior(lines[i])
             THEN upTo[i - 1] \o Tail(Full(lines[i])) ELSE upTo[i - 1]
  IN  upTo[Len(lines)]

StatedOrder == IF Order = << >> THEN UsualOrder ELSE Order

Written(k) == IF k = "PRGNAME" THEN "PRGAME" ELSE k

Patterns == {lines[i][2] : i \in {j \in Counting : lines[j][1] = "DOMAIN"}}

Fits(k, p, m) ==
  \/ k = "DEFAULT"
  \/ k = "DOMAIN" /\ m.domain # Nil /\ p \in Meant(Patterns, m.domain)
  \/ k \in MapType /\ p = Pattern(k, m)

(* The lines of a type that apply to a flow, of which the last one counts. *)
Lines(k, m) ==
  {i \in Counting : lines[i][1] = Written(k) /\ Fits(k, lines[i][2], m)}

Said(k, m) ==
  IF Lines(k, m) = {} THEN Nil ELSE EgressOf(lines[Max(Lines(k, m))])

Stated(m) ==
  LET hits == {i \in DOMAIN StatedOrder : Lines(StatedOrder[i], m) # {}}
  IN  Said(IF hits = {} THEN "DEFAULT" ELSE StatedOrder[Min(hits)], m)

(* The egress of a flow is the one the list of rules states: the first     *)
(* type in the stated order that has a rule for it, the last rule of that  *)
(* type, for a domain that of its most specific pattern, and DEFAULT       *)
(* without any.  It need not be for domains that another pattern hides, or *)
(* that become a pattern when labels are left out, nor where a pattern has *)
(* a wildcard that is not its first label.                                 *)
DispatchRight ==
  stage = "up" =>
    \A m \in Flow : m.domain = Nil \/ Clear(Patterns, m.domain) =>
                     Dispatch(m) = Stated(m)

(* Once the program serves every flow has an egress, if the rules name     *)
(* configured ones and DIRECT or REJECT only, and end in a DEFAULT.        *)
FlowsHaveEgress ==
  /\ stage = "up"
  /\ \E i \in DOMAIN lines : Ends(lines[i])
  /\ \A i \in Counting : ~IsPrior(lines[i]) =>
       EgressOf(lines[i]) \in Elems(names.egress) \cup {"DIRECT", "REJECT"}
  => \A m \in Flow : Dispatch(m) \in egresses

(* Init gives up for names exactly when two egresses, two groups or two    *)
(* ingresses share one, or a group has that of an egress or an ingress.    *)
NamesApart ==
  stage \in {"up", "error"} =>
    (stage = "up" <=>
       /\ NoDup(names.egress) /\ NoDup(names.group) /\ NoDup(names.ingress)
       /\ Elems(names.group) \cap (egresses \cup Elems(names.ingress)) = {})
=============================================================================
