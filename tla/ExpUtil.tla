------------------------------ MODULE ExpUtil ------------------------------
(***************************************************************************)
(* exp-util.cc: what the program makes of the texts in its configuration   *)
(* files.  A text is modelled by its form and by the parts that            *)
(* split_string cuts its inside into:                                      *)
(*   10                [form |-> "", parts |-> <<"10">>]                   *)
(*   set(0-1,1-2)      [form |-> "set", parts |-> <<<<"0","1">>, ...>>]    *)
(*   map(0->1: 10)     [form |-> "map", parts |-> <<<<key, text>>>>]       *)
(* Texts that differ may mean the same number ("1", "01"); a text that is  *)
(* in no domain below means none.  Error stands for the exception a parser *)
(* throws: which one it is makes no difference, nobody catches it.         *)
(***************************************************************************)
EXTENDS Integers, Sequences, FiniteSets

CONSTANTS
  Error,      \* an exception
  Int64Of,    \* the integers that texts denote for std::stoll
  DoubleOf,   \* the numbers that texts denote for std::stod, in units of 1/One
  One

ASSUME NumbersAssumption ==
  /\ Error \notin Int
  /\ \A t \in DOMAIN Int64Of : Int64Of[t] \in Int
  /\ \A t \in DOMAIN DoubleOf : DoubleOf[t] \in Int
  /\ "" \notin DOMAIN Int64Of \cup DOMAIN DoubleOf
  /\ One \in Nat \ {0}

Distinct(s) == \A i, j \in DOMAIN s : s[i] = s[j] => i = j
Elements(s) == {s[i] : i \in DOMAIN s}

\* The text of a value that has no form; "" is no number and no word.
Plain(v) == IF v.form = "" /\ Len(v.parts) = 1 THEN v.parts[1] ELSE ""

----------------------------------------------------------------------------
(* Numbers and words *)

parse_int64(t) == IF t \in DOMAIN Int64Of THEN Int64Of[t] ELSE Error

parse_positive_int64(t) ==
  IF t \in DOMAIN Int64Of /\ Int64Of[t] >= 0 THEN Int64Of[t] ELSE Error

parse_geq_one_int64(t) ==
  IF t \in DOMAIN Int64Of /\ Int64Of[t] >= 1 THEN Int64Of[t] ELSE Error

parse_double(t) == IF t \in DOMAIN DoubleOf THEN DoubleOf[t] ELSE Error

parse_positive_double(t) ==
  IF t \in DOMAIN DoubleOf /\ DoubleOf[t] >= 0 THEN DoubleOf[t] ELSE Error

parse_boolean(t) ==
  IF t \in {"true", "1"} THEN TRUE
  ELSE IF t \in {"false", "0"} THEN FALSE ELSE Error

----------------------------------------------------------------------------
(* Sets, lists and maps *)

parse_set_string(v) ==
  IF v.form = "set" /\ Distinct(v.parts) THEN Elements(v.parts) ELSE Error

parse_set_positive_int64(v) ==
  LET strings == parse_set_string(v)
      numbers == {parse_positive_int64(t) : t \in strings}
  IN IF /\ strings # Error
        /\ Error \notin numbers
        /\ Cardinality(numbers) = Cardinality(strings)
     THEN numbers ELSE Error

\* Two numbers with a delimiter between them, as in 0-1 and 0->1.
Pair(t) ==
  IF Len(t) = 2 /\ Error \notin {parse_positive_int64(t[1]), parse_positive_int64(t[2])}
  THEN <<parse_positive_int64(t[1]), parse_positive_int64(t[2])>> ELSE Error

parse_set_directed_pair_positive_int64(v) ==
  LET strings == parse_set_string(v)
      pairs == {Pair(t) : t \in strings}
  IN IF /\ strings # Error
        /\ Error \notin pairs
        /\ \A p \in pairs : p[1] # p[2]
        /\ Cardinality(pairs) = Cardinality(strings)
     THEN pairs ELSE Error

parse_list_positive_int64(v) ==
  IF v.form = "list" /\ \A i \in DOMAIN v.parts : parse_positive_int64(v.parts[i]) # Error
  THEN [i \in DOMAIN v.parts |-> parse_positive_int64(v.parts[i])] ELSE Error

\* The key-value pairs, in the order they are written.
parse_map_string(v) ==
  IF /\ v.form = "map"
     /\ \A i \in DOMAIN v.parts : Len(v.parts[i]) = 2
     /\ Distinct([i \in DOMAIN v.parts |-> v.parts[i][1]])
  THEN v.parts ELSE Error

all_items_are_less_than(s, number) == \A v \in s : v < number

----------------------------------------------------------------------------
(* Configuration files: a sequence of lines, each a sequence of the texts   *)
(* between its equals signs                                                *)

read_config(lines) ==
  IF /\ \A i \in DOMAIN lines : Len(lines[i]) = 2
     /\ Distinct([i \in DOMAIN lines |-> lines[i][1]])
  THEN [key \in {lines[i][1] : i \in DOMAIN lines} |->
          lines[CHOOSE i \in DOMAIN lines : lines[i][1] = key][2]]
  ELSE Error

\* Asking for a key that is not there throws: the text stands for it, since
\* none of the parsers accepts it.
NoText == [form |-> "none", parts |-> <<>>]

get_param_or_fail(key, config) ==
  IF key \in DOMAIN config THEN config[key] ELSE NoText

get_param_or_default(key, default, config) ==
  IF key \in DOMAIN config THEN config[key] ELSE default
=============================================================================
