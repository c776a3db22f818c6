---------------------------- MODULE MCTransforms ----------------------------
(***************************************************************************)
(* Instances of Transforms for TLC: every chain of at most three of ten    *)
(* transforms.  With MaxExact = 8, 9 is read as 8, 27 as 28, and 44 as 48, *)
(* which is printed as 50.                                                 *)
(***************************************************************************)
EXTENDS Transforms, FiniteSetsExt

NoHeaders == [k \in {} |-> ""]

Payloads ==
  {[kind |-> "nil"], [kind |-> "array"]}
    \cup {[kind |-> "object", fields |-> [email |-> n, amount |-> n]] : n \in {2, 9, 27, 44}}

MCInputs ==
  {[type |-> t, op |-> o, payload |-> p, headers |-> NoHeaders] :
     t \in {"created", "shipped"}, o \in {"insert", "update"}, p \in Payloads}

Catalog ==
  {[does |-> "event types", allowed |-> {"created"}],
   [does |-> "operations", allowed |-> {"insert"}],
   [does |-> "header", key |-> "tenant", value |-> "a"],
   [does |-> "header", key |-> "routing_key", value |-> "here"],
   [does |-> "route", routes |-> [created |-> "orders"]],
   [does |-> "route", routes |-> [default |-> "rest"]],
   [does |-> "mask", fields |-> {"email"}],
   [does |-> "mask", fields |-> {"amount", "phone"}],
   [does |-> "timestamp"],
   [does |-> "enrich", key |-> "tenant"]}

MCChains == UNION {[1..n -> Catalog] : n \in 0..3}
MCStoreData == {"b"}

(* The shortest decimal that reads back as f, the nearest of several.      *)
Shortest(f) ==
  LET s == Spacing(f)
      reads == {n \in 0..(f + s) : Nearest(n) = f}
      zeros == Max({k \in 0..2 : \E n \in reads : n % 10^k = 0})
      short == {n \in reads : n % 10^zeros = 0}
  IN CHOOSE n \in short : \A m \in short : Distance(n, f) <= Distance(m, f)

MCPrinted == [f \in {Nearest(v) : v \in 0..60} |-> Shortest(f)]
=============================================================================
