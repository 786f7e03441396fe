------------------------------ MODULE HeaderMap ------------------------------
(***************************************************************************)
(* HeaderMap, the multimap of headers: names are compared without case, a  *)
(* name that is there keeps the spelling it was first given, and the total *)
(* number of values is kept apart in len.  A OneOrMany is the sequence of  *)
(* its values.                                                             *)
(***************************************************************************)
EXTENDS Values

(* What UniCase compares: the symbol in lower case. *)
Lower(c) == IF c = "A" THEN "a" ELSE IF c = "B" THEN "b" ELSE c
Fold(name) == [i \in DOMAIN name |-> Lower(name[i])]

EmptyHeaders == [headers |-> [k \in {} |-> <<>>], len |-> 0]

Has(m, name) == Fold(name) \in DOMAIN m.headers

(* get_all *)
GetAll(m, name) == IF Has(m, name) THEN m.headers[Fold(name)].values ELSE <<>>

(* BTreeMap::insert and its Entry keep the key that is already there. *)
Put(m, name, values) ==
    LET spelled == IF Has(m, name) THEN m.headers[Fold(name)].name ELSE name
    IN [k \in DOMAIN m.headers \cup {Fold(name)} |->
          IF k = Fold(name) THEN [name |-> spelled, values |-> values] ELSE m.headers[k]]

(* A mutant: the values that are replaced stay counted. *)
InsertHeaderForgetful(m, name, value) ==
    [headers |-> Put(m, name, <<value>>), len |-> m.len + 1]

InsertHeader(m, name, value) ==
    [headers |-> Put(m, name, <<value>>),
     len |-> m.len - Len(GetAll(m, name)) + 1]

AppendHeader(m, name, value) ==
    [headers |-> Put(m, name, Append(GetAll(m, name), value)), len |-> m.len + 1]

RemoveHeader(m, name) ==
    [headers |-> [k \in DOMAIN m.headers \ {Fold(name)} |-> m.headers[k]],
     len |-> m.len - Len(GetAll(m, name))]

(* FromIterator and Extend append one header after the other. *)
Pairs == Seq(Strings \X Strings)
CollectHeaders[pairs \in Pairs] ==
    IF pairs = <<>> THEN EmptyHeaders
    ELSE AppendHeader(CollectHeaders[Front(pairs)], Last(pairs)[1], Last(pairs)[2])

(* iter: the names in the tree's order, each with its values in theirs.    *)
(* Which order the tree has is of no consequence here.                     *)
HeaderPairs(m) ==
    LET keys == SetToSeq(DOMAIN m.headers)
        Of(e) == [i \in DOMAIN e.values |-> <<e.name, e.values[i]>>]
    IN FlattenSeq([k \in DOMAIN keys |-> Of(m.headers[keys[k]])])
==============================================================================
