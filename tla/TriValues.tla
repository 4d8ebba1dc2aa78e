----------------------------- MODULE TriValues ------------------------------
(***************************************************************************)
(* The three-valued values of the policy and the operators its CEL         *)
(* evaluates over them (policy/value.rs, policy/rules/eval.rs).            *)
(*                                                                         *)
(* Unknown is a value that cannot be known before the command runs, Null   *)
(* is known to be absent, and a list that is not exhaustive may hold more  *)
(* than it shows, after what it shows.  A text is the sequence of its      *)
(* parts: the components of a path, with "/" in front of an absolute one.  *)
(* A list's elements are never lists.                                      *)
(***************************************************************************)
EXTENDS Naturals, Sequences, SequencesExt

\* TriVal.  Every value has the field v, so that values compare.
Unknown == [t |-> "unknown", v |-> <<>>]
Null == [t |-> "null", v |-> <<>>]
Text(s) == [t |-> "string", v |-> s]
Number(n) == [t |-> "int", v |-> n]
Boolean(b) == [t |-> "bool", v |-> b]
ListOf(elements, exhaustive) ==
    [t |-> "list", v |-> [elements |-> elements, exhaustive |-> exhaustive]]
IsText(v) == v.t = "string"
IsList(v) == v.t = "list"
IsUnknown(v) == v.t = "unknown"

\* TriBool
And(a, b) == IF a = "False" \/ b = "False" THEN "False"
             ELSE IF a = "True" /\ b = "True" THEN "True" ELSE "Unknown"
Or(a, b) == IF a = "True" \/ b = "True" THEN "True"
            ELSE IF a = "False" /\ b = "False" THEN "False" ELSE "Unknown"
\* and, or over many
Every(truths) == IF "False" \in truths THEN "False"
                 ELSE IF "Unknown" \in truths THEN "Unknown" ELSE "True"
Some(truths) == IF "True" \in truths THEN "True"
                ELSE IF "Unknown" \in truths THEN "Unknown" ELSE "False"
Not(a) == CASE a = "True" -> "False" [] a = "False" -> "True" [] OTHER -> "Unknown"
Of(b) == IF b THEN "True" ELSE "False"
ToTriVal(a) == IF a = "Unknown" THEN Unknown ELSE Boolean(a = "True")

\* is_truthy: anything but a Boolean is false.
Truthy(v) == CASE IsUnknown(v) -> "Unknown"
               [] v.t = "bool" -> Of(v.v)
               [] OTHER -> "False"

\* tri_eq on two values that are not lists.
ScalarEq(a, b) ==
    IF IsUnknown(a) \/ IsUnknown(b) THEN "Unknown"
    ELSE IF a.t # b.t THEN "False" ELSE Of(a.v = b.v)

\* list_eq: element by element, and then by the lengths as far as they are known.
ListEq(x, y) ==
    LET n == IF Len(x.elements) < Len(y.elements) THEN Len(x.elements) ELSE Len(y.elements)
        truth == Every({ScalarEq(x.elements[i], y.elements[i]) : i \in 1..n})
        complete == CASE Len(x.elements) < Len(y.elements) -> x.exhaustive
                      [] Len(x.elements) > Len(y.elements) -> y.exhaustive
                      [] OTHER -> x.exhaustive /\ y.exhaustive
    IN  CASE truth = "False" -> "False"
          [] complete /\ Len(x.elements) # Len(y.elements) -> "False"
          [] complete /\ Len(x.elements) = Len(y.elements) -> truth
          [] OTHER -> And("Unknown", truth)

\* tri_eq: a list equals no single value for sure, and differs from none.
TriEq(a, b) ==
    CASE IsUnknown(a) \/ IsUnknown(b) -> "Unknown"
      [] IsList(a) /\ IsList(b) -> ListEq(a.v, b.v)
      [] ~(IsUnknown(a) \/ IsUnknown(b)) /\ IsList(a) # IsList(b) -> "Unknown"
      [] OTHER -> ScalarEq(a, b)

EvalEq(a, b) == ToTriVal(TriEq(a, b))
EvalNe(a, b) == ToTriVal(Not(TriEq(a, b)))
EvalLess(a, b) == IF a.t = "int" /\ b.t = "int" THEN Boolean(a.v < b.v) ELSE Unknown
EvalAnd(a, b) == ToTriVal(And(Truthy(a), Truthy(b)))
EvalOr(a, b) == ToTriVal(Or(Truthy(a), Truthy(b)))
EvalNot(a) == ToTriVal(Not(Truthy(a)))

\* eval_in over a list
EvalIn(needle, haystack) ==
    IF IsUnknown(needle) \/ ~IsList(haystack) THEN Unknown
    ELSE LET truth == Some({TriEq(needle, haystack.v.elements[i]) :
                              i \in DOMAIN haystack.v.elements})
         IN  IF truth = "False" /\ ~haystack.v.exhaustive THEN Unknown ELSE ToTriVal(truth)

\* eval_comprehension for exists and all: over a list that may hold more,
\* only a conclusion that no further element changes stands.  tests are the
\* values of the predicate on the elements shown.
Definite(accu, conclusion, list) ==
    IF ~list.v.exhaustive /\ accu # conclusion THEN Unknown ELSE ToTriVal(accu)
EvalExists(list, tests) ==
    IF ~IsList(list) THEN Unknown
    ELSE Definite(Some({Truthy(tests[i]) : i \in DOMAIN tests}), "True", list)
EvalAll(list, tests) ==
    IF ~IsList(list) THEN Unknown
    ELSE Definite(Every({Truthy(tests[i]) : i \in DOMAIN tests}), "False", list)

\* string_test with one text given, as startsWith and glob are used: passes
\* is the test of it where it is known.
StringTest(a, passes) ==
    CASE IsUnknown(a) -> Unknown
      [] IsText(a) -> Boolean(passes)
      [] OTHER -> Boolean(FALSE)

\* eval_path_fn with in_project and is_temp: Null stays Null.  No directory
\* of this machine is another one's, and /tmp is temporary everywhere.
InProject(path, host, dirs) ==
    CASE path.t = "null" -> Null
      [] IsText(path) /\ host # "unknown" ->
            Boolean(host = "here" /\ \E d \in dirs : IsPrefix(d, path.v))
      [] OTHER -> Unknown
IsTemp(path, host, temp) ==
    CASE path.t = "null" -> Null
      [] IsText(path) ->
            IF IsPrefix(<<"/", "tmp">>, path.v) THEN Boolean(TRUE)
            ELSE IF host = "unknown" THEN Unknown
            ELSE Boolean(host = "here" /\ IsPrefix(temp, path.v))
      [] OTHER -> Unknown

\* eval_index (from 0), eval_last and eval_size
EvalIndex(list, n) ==
    CASE list.t = "null" -> Null
      [] IsList(list) ->
            IF n < Len(list.v.elements) THEN list.v.elements[n + 1]
            ELSE IF list.v.exhaustive THEN Null ELSE Unknown
      [] OTHER -> Unknown
EvalLast(list) ==
    CASE list.t = "null" -> Null
      [] IsList(list) ->
            IF ~list.v.exhaustive THEN Unknown
            ELSE IF list.v.elements = <<>> THEN Null ELSE Last(list.v.elements)
      [] OTHER -> Unknown
EvalSize(list) ==
    IF IsList(list) /\ list.v.exhaustive THEN Number(Len(list.v.elements)) ELSE Unknown

\* eval_ternary
EvalTernary(cond, then, otherwise) ==
    CASE Truthy(cond) = "True" -> then
      [] Truthy(cond) = "False" -> otherwise
      [] OTHER -> Unknown

\* eval_home: the context's home for the command's own user
EvalHome(u, own, home) == IF u.t = "string" /\ TriEq(u, own) = "True" THEN home ELSE Unknown

-----------------------------------------------------------------------------
\* w is what v may turn out to be.
Resolves(v, w) ==
    \/ IsUnknown(v)
    \/ v.t = w.t /\ v = w
    \/ /\ IsList(v) /\ IsList(w)
       /\ Len(v.v.elements) <= Len(w.v.elements)
       /\ \A i \in DOMAIN v.v.elements :
             LET a == v.v.elements[i]
                 b == w.v.elements[i]
             IN  IsUnknown(a) \/ (a.t = b.t /\ a = b)
       /\ v.v.exhaustive => w.v.exhaustive /\ Len(v.v.elements) = Len(w.v.elements)
=============================================================================
