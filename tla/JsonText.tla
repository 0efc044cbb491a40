-------------------------------- MODULE JsonText --------------------------------
(***************************************************************************)
(* The JSON values, writer and parser every message of the language-model  *)
(* back ends goes through (core/json.hpp).  A value is a tagged tuple, an  *)
(* object's fields a sequence of <<key, value>> in the order its hash map  *)
(* iterates them.  A text is a sequence of tokens: punctuation, literals,  *)
(* numbers, whole strings, and the letters a hexadecimal number leaves.    *)
(* Layout is left out; the parser skips it.                                *)
(***************************************************************************)
EXTENDS Integers, Sequences, SequencesExt

CONSTANTS Controls,  \* the strings with a control character that has no short escape
          MaxDepth   \* bound on the levels of a value that is written

Null == <<"null">>
String(s) == <<"string", s>>
Mark(c) == <<c>>

\* as_string(), operator[] and contains(): what is missing is null, or empty.
AsString(v) == IF v[1] = "string" THEN v[2] ELSE ""
Fields(v) == IF v[1] = "object" THEN v[2] ELSE <<>>
HasField(v, key) == \E i \in DOMAIN Fields(v) : Fields(v)[i][1] = key
Field(v, key) ==
  IF HasField(v, key) THEN (CHOOSE f \in Range(Fields(v)) : f[1] = key)[2] ELSE Null
Item(v, n) == IF v[1] = "array" /\ n + 1 \in DOMAIN v[2] THEN v[2][n + 1] ELSE Null

-------------------------------------------------------------------------------

\* A string with such a character leaves the stream writing integers in base 16, to
\* the end of the text.  The digits are read back in base 10 as far as they go.
Base16(hex, token) == hex \/ (token[1] = "string" /\ token[2] \in Controls)
Digits(n) ==
  LET high == n \div 16   low == n % 16
      digit(d) == IF d < 10 THEN <<"number", d>> ELSE Mark("letter")
  IN  CASE high = 0 -> <<digit(low)>>
        [] high \in 1..9 /\ low < 10 -> <<<<"number", 10 * high + low>>>>
        [] OTHER -> <<digit(high), Mark("letter")>>

\* serialize(): the tokens of a value, a list's or an object's written in turn and
\* separated by commas; here one level of nesting after the other.
Between(n, i) == IF i < n THEN <<Mark(",")>> ELSE <<>>
Written(v) ==
  CASE v[1] = "array" ->
         <<Mark("[")>> \o FlattenSeq([i \in DOMAIN v[2] |-> <<v[2][i]>> \o Between(Len(v[2]), i)]) \o <<Mark("]")>>
    [] v[1] = "object" ->
         <<Mark("{")>> \o FlattenSeq([i \in DOMAIN v[2] |->
              <<String(v[2][i][1]), Mark(":"), v[2][i][2]>> \o Between(Len(v[2]), i)]) \o <<Mark("}")>>
    [] OTHER -> <<v>>
Tokens(v) ==
  LET level[n \in 0..MaxDepth] ==
        IF n = 0 THEN <<v>>
        ELSE LET above == level[n - 1] IN FlattenSeq([i \in DOMAIN above |-> Written(above[i])])
  IN  level[MaxDepth]

Stringify(v) ==
  LET tokens == Tokens(v)
      hex(i) == \E j \in 1..(i - 1) : Base16(FALSE, tokens[j])
  IN  FlattenSeq([i \in DOMAIN tokens |->
        IF tokens[i][1] = "number" /\ hex(i) THEN Digits(tokens[i][2]) ELSE <<tokens[i]>>])

-------------------------------------------------------------------------------

Fail == [ok |-> FALSE, val |-> Null, next |-> 0]
Read(v, next) == [ok |-> TRUE, val |-> v, next |-> next]

\* An object keeps the last of the fields of one key.
Put(fields, key, v) ==
  IF \E i \in DOMAIN fields : fields[i][1] = key THEN fields ELSE <<<<key, v>>>> \o fields

\* Mutant: a list that breaks off counts as ended.
Closes_AtEnd(token, mark) == token \in {Mark(mark), Mark("end")}
Closes(token, mark) == token = Mark(mark)

\* parse_value(), parse_array() and parse_object(), from a position of the text.
ParseFrom(text) ==
  LET at(p) == IF p \in DOMAIN text THEN text[p] ELSE Mark("end")
      list(tag, mark, read, add(_), more) ==
        IF ~read.ok THEN Fail
        ELSE IF Closes(at(read.next), mark) THEN Read(<<tag, add(<<>>)>>, read.next + 1)
        ELSE IF at(read.next) = Mark(",") /\ more.ok
               THEN Read(<<tag, add(more.val[2])>>, more.next) ELSE Fail
      f[what \in {"value", "items", "members"}, p \in 1..(Len(text) + 1)] ==
        CASE what = "value" ->
               CASE at(p)[1] \in {"null", "bool", "number", "string"} -> Read(at(p), p + 1)
                 [] at(p) = Mark("[") ->
                      IF at(p + 1) = Mark("]") THEN Read(<<"array", <<>>>>, p + 2) ELSE f["items", p + 1]
                 [] at(p) = Mark("{") ->
                      IF at(p + 1) = Mark("}") THEN Read(<<"object", <<>>>>, p + 2) ELSE f["members", p + 1]
                 [] OTHER -> Fail
          [] what = "items" ->
               LET item == f["value", p]
               IN  list("array", "]", item, LAMBDA rest : <<item.val>> \o rest,
                        IF item.ok /\ at(item.next) = Mark(",") THEN f["items", item.next + 1] ELSE Fail)
          [] what = "members" ->
               LET key == at(p)
                   item == IF key[1] = "string" /\ at(p + 1) = Mark(":") /\ p + 2 <= Len(text)
                             THEN f["value", p + 2] ELSE Fail
               IN  list("object", "}", item, LAMBDA rest : Put(rest, key[2], item.val),
                        IF item.ok /\ at(item.next) = Mark(",") THEN f["members", item.next + 1] ELSE Fail)
  IN  f["value", 1]

\* try_parse(): what follows a whole value is not looked at.
TryParse(text) == LET read == ParseFrom(text) IN [ok |-> read.ok, val |-> read.val]

-------------------------------------------------------------------------------

\* A document comes back as it was, unless a number was written after a control
\* character; and of a list or an object, no text that breaks off before its end is
\* taken for a document.  That is all that tells a cut answer from a whole one.
ComesBackWhole(v) ==
  LET text == Stringify(v)
  IN  /\ \/ TryParse(text) = [ok |-> TRUE, val |-> v]
         \/ \E i, j \in DOMAIN text : i < j /\ text[i][1] = "string" /\ text[i][2] \in Controls
                                      /\ text[j][1] \in {"number", "letter"}
      /\ v[1] \in {"array", "object"} =>
           \A n \in 0..(Len(text) - 1) : ~TryParse(SubSeq(text, 1, n)).ok
===============================================================================
