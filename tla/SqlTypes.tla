------------------------------ MODULE SqlTypes ------------------------------
(***************************************************************************)
(* The descriptors of SQL types, how close two of them are and what type   *)
(* an expression of several has (metadata/SqlTypeDescriptor.ts,            *)
(* parser/SqlTypeInference.ts).                                            *)
(***************************************************************************)
EXTENDS Integers, Sequences, FiniteSets, SequencesExt, FiniteSetsExt

Absent == -2   \* a facet that is not there
MaxLength == -1

IntegerNames == {"tinyint", "smallint", "int", "bigint"}
DecimalNames == {"decimal", "numeric", "money", "smallmoney"}
FloatingNames == {"float", "real"}
StringNames == {"char", "varchar", "text"}
UnicodeNames == {"nchar", "nvarchar", "ntext"}
DateNames == {"date", "datetime", "datetime2", "datetimeoffset", "smalldatetime"}
BinaryNames == {"binary", "varbinary", "image", "timestamp", "rowversion"}

FamilyOf(name) ==
  CASE name \in IntegerNames -> "integer"
    [] name \in DecimalNames -> "decimal"
    [] name \in FloatingNames -> "floatingPoint"
    [] name \in StringNames -> "string"
    [] name \in UnicodeNames -> "unicodeString"
    [] name \in DateNames -> "dateTime"
    [] name = "time" -> "time"
    [] name \in BinaryNames -> "binary"
    [] name = "bit" -> "boolean"
    [] name = "uniqueidentifier" -> "guid"
    [] name = "xml" -> "xml"
    [] name = "sql_variant" -> "variant"
    [] OTHER -> "unknown"

NoFacets == [length |-> Absent, precision |-> Absent, scale |-> Absent]

\* A type of the catalog or of an expression: a name, its facets, and for a user-defined
\* type that it is one and the system type under it, if that is known.
Known(name) == [kind |-> "known", name |-> name, family |-> FamilyOf(name), facets |-> NoFacets,
                userDefined |-> FALSE, underlying |-> "", families |-> {}]
Sized(name, length) == [Known(name) EXCEPT !.facets.length = length]
Scaled(name, precision, scale) ==
  [Known(name) EXCEPT !.facets.precision = precision, !.facets.scale = scale]
UserDefined(name, underlying) ==
  [Known(name) EXCEPT !.family = "userDefined", !.userDefined = TRUE, !.underlying = underlying]
Unknown == [Known("unknown") EXCEPT !.kind = "unknown"]
\* What a parameter takes that accepts several families.
Families(families) == [Unknown EXCEPT !.kind = "family", !.families = families]

NumericFamilies == {"integer", "decimal", "floatingPoint"}
CompatibleFamily(left, right) ==
  \E together \in {NumericFamilies, {"string", "unicodeString"}, {"dateTime", "time"}} :
    {left, right} \subseteq together

Near(left, right) == IF left.facets = right.facets THEN "exact" ELSE "sameBaseType"

\* System types: the same name, or families that convert into each other.
CompareSystemTypes(expected, actual) ==
  CASE expected.name = actual.name -> Near(expected, actual)
    [] expected.name # actual.name /\ CompatibleFamily(expected.family, actual.family) ->
         "compatibleFamily"
    [] OTHER -> "incompatible"

\* A user-defined type is compared by its name, then by what both are built on.
CompareUserDefined(expected, actual) ==
  IF expected.userDefined /\ actual.userDefined /\ expected.name = actual.name
  THEN Near(expected, actual)
  ELSE IF expected.underlying # "" /\ actual.underlying # ""
       THEN CompareSystemTypes(Known(expected.underlying), Known(actual.underlying))
       ELSE "unknown"

CompareSqlTypes(expected, actual) ==
  CASE expected.kind = "family" ->
         (CASE actual.family \in expected.families -> "compatibleFamily"
            [] actual.family \notin expected.families /\ actual.kind = "unknown" -> "unknown"
            [] OTHER -> "incompatible")
    [] expected.kind # "family" /\ "unknown" \in {expected.kind, actual.kind} -> "unknown"
    [] expected.kind = "known" /\ actual.kind # "unknown" /\ (expected.userDefined \/ actual.userDefined) ->
         CompareUserDefined(expected, actual)
    [] OTHER -> CompareSystemTypes(expected, actual)

\* The result type of CASE and COALESCE is the first of these among the types.
TypePrecedence ==
  <<"sql_variant", "xml", "datetimeoffset", "datetime2", "datetime", "smalldatetime", "date",
    "time", "float", "real", "decimal", "numeric", "money", "smallmoney", "bigint", "int",
    "smallint", "tinyint", "bit", "ntext", "text", "image", "timestamp", "rowversion",
    "uniqueidentifier", "nvarchar", "nchar", "varchar", "char", "varbinary", "binary">>
Precedence(type) ==
  Min({i \in DOMAIN TypePrecedence : TypePrecedence[i] = type.name}
        \cup {Len(TypePrecedence) + 1})

WidestFacet(values) ==
  LET present == values \ {Absent}
  IN  CASE present = {} -> Absent
        [] MaxLength \in present -> MaxLength
        [] OTHER -> Max(present)

\* The type at the first of some places, all of one name, with the widest of each facet.
MergeSameBaseType(types, places) ==
  [types[Min(places)] EXCEPT !.facets =
     [f \in DOMAIN NoFacets |-> WidestFacet({types[i].facets[f] : i \in places})]]

ReconcileByPrecedence(types) ==
  LET known == {i \in DOMAIN types : types[i].kind = "known"}
      own   == {i \in known : types[i].userDefined}
      first == types[Min(own)]
      best  == Min({Precedence(types[i]) : i \in known})
  IN  CASE known = {} -> Unknown
        [] own # {} -> IF \A i \in own : types[i].name = first.name THEN first ELSE Unknown
        [] OTHER -> IF best > Len(TypePrecedence) THEN Unknown
                    ELSE MergeSameBaseType(types, {i \in known : Precedence(types[i]) = best})

\* A branch of CASE or an argument of COALESCE that is the literal NULL: it has no type.
NullLiteral == [Unknown EXCEPT !.kind = "null"]

\* A reconciliation that takes what is known and leaves the other branches out.
ReconcileKnown(branches) == ReconcileByPrecedence(branches)

\* The type of CASE or COALESCE: not known as soon as that of one branch is not.
ReconcileExpressions(branches) ==
  IF \E i \in DOMAIN branches : branches[i].kind = "unknown" THEN Unknown
  ELSE ReconcileByPrecedence(branches)

-----------------------------------------------------------------------------
Close == {"exact", "sameBaseType", "compatibleFamily"}

(* Two types are as close one way as the other: the direction in which a relationship is
   read does not decide whether its columns may be joined (the heuristic policy compares
   target with source, the configuration source with target).  Closeness carries over
   between types of the system. *)
ClosenessIsMutual(types) ==
  \A i, j \in DOMAIN types :
    LET a == types[i] b == types[j]
    IN  /\ CompareSqlTypes(a, b) = CompareSqlTypes(b, a)
        /\ \A k \in DOMAIN types :
             LET c == types[k]
             IN  (/\ ~b.userDefined
                  /\ CompareSqlTypes(a, b) \in Close /\ CompareSqlTypes(b, c) \in Close)
                   => CompareSqlTypes(a, c) \in Close

Orderings(types) == {[i \in DOMAIN types |-> types[p[i]]] : p \in Bijection(DOMAIN types, DOMAIN types)}

(* The type of CASE or COALESCE over branches of system types does not depend on their
   order.  A CASE or COALESCE of some of them in the place of these leaves it as it is when
   its own type is known, and leaves no type when it is not: an unresolved branch is never
   covered up by the others (docs/TYPE_SYSTEM.md:258). *)
ReconcileIsOne(branches) ==
  (\A i \in DOMAIN branches : ~branches[i].userDefined) =>
    /\ \A order \in Orderings(branches) :
         ReconcileExpressions(order) = ReconcileExpressions(branches)
    /\ \A i \in DOMAIN branches :
         LET inner  == ReconcileExpressions(SubSeq(branches, 1, i))
             nested == <<inner>> \o SubSeq(branches, i + 1, Len(branches))
         IN  ReconcileExpressions(nested) =
               IF inner.kind = "known" THEN ReconcileExpressions(branches) ELSE Unknown
=============================================================================
