---------------------------- MODULE JsonBuilder ----------------------------
(***************************************************************************)
(* The JSON builder (src/common/json.c) every snapshot and reply is made   *)
(* with.  A call is a handful of json_write calls; the model keeps those,  *)
(* with the width of their text, and writes one token for each.  Callers   *)
(* nest objects and arrays properly, as all callers in the repository do.  *)
(* They never look at json_error.                                          *)
(***************************************************************************)
EXTENDS Integers, Sequences, SequencesExt

CONSTANTS
  JsonSize,       \* bytes of the buffer
  JsonMaxDepth,   \* bound on the nesting
  JsonMaxCalls    \* bound on the calls

ASSUME JsonAssumption ==
  JsonSize \in Nat \ {0} /\ JsonMaxDepth \in Nat /\ JsonMaxCalls \in Nat

VARIABLES
  j,      \* the builder: text, size, pos, depth, needs_comma, error
  ideal,  \* ghost: a builder that was given the same calls and all the room
  jsonOpen,   \* the caller: "obj" or "arr" for each structure it has open
  jsonKeyed,  \* the caller: a key waits for its value
  jsonCalls

jsonVars == <<j, ideal, jsonOpen, jsonKeyed, jsonCalls>>

Punctuation == {"{", "}", "[", "]", ","}
Tokens == Punctuation \cup {"key quote", "key text", "key colon",
                            "quote", "text", "unquote", "literal"}

(* A colon comes with the closing quote of its key; a number, a boolean or *)
(* null is one json_write.                                                 *)
Width(t) == IF t \in {"key colon", "literal"} THEN 2 ELSE 1

Unlimited == 100 * (JsonMaxCalls + 1)

JsonTypeOK ==
  /\ \A b \in {j, ideal} :
       /\ b.text \in Seq(Tokens)
       /\ b.pos \in 0 .. b.size - 1   \* the NUL behind the text is inside, too
       /\ b.depth = Len(jsonOpen)
       /\ b.comma \in BOOLEAN /\ b.error \in BOOLEAN
  /\ jsonOpen \in Seq({"obj", "arr"})
  /\ jsonKeyed \in BOOLEAN /\ jsonCalls \in 0 .. JsonMaxCalls

-----------------------------------------------------------------------------
json_init(size) ==
  [text |-> << >>, size |-> size, pos |-> 0, depth |-> 0,
   comma |-> FALSE, error |-> FALSE]

\* A slip: a later, shorter text is written although an earlier one was not.
json_writeAgain(b, t) ==
  IF b.pos + Width(t) >= b.size THEN [b EXCEPT !.error = TRUE]
  ELSE [b EXCEPT !.text = Append(@, t), !.pos = @ + Width(t)]

json_write(b, t) ==
  IF b.error THEN b
  ELSE IF b.pos + Width(t) >= b.size THEN [b EXCEPT !.error = TRUE]
  ELSE [b EXCEPT !.text = Append(@, t), !.pos = @ + Width(t)]

WriteAll(b, ts) == FoldLeft(json_write, b, ts)

json_comma_if_needed(b) ==
  [(IF b.comma THEN json_write(b, ",") ELSE b) EXCEPT !.comma = FALSE]

JsonStart(b, t) ==
  [json_write(json_comma_if_needed(b), t) EXCEPT !.depth = @ + 1, !.comma = FALSE]

json_object_start(b) == JsonStart(b, "{")
json_array_start(b) == JsonStart(b, "[")

\* A slip: the next member of the parent follows without a comma.
json_object_endBare(b) ==
  [json_write(b, "}") EXCEPT !.depth = @ - 1]

json_object_end(b) ==
  [json_write(b, "}") EXCEPT !.depth = @ - 1, !.comma = TRUE]
json_array_end(b) ==
  [json_write(b, "]") EXCEPT !.depth = @ - 1, !.comma = TRUE]

json_key(b) ==
  WriteAll(json_comma_if_needed(b), <<"key quote", "key text", "key colon">>)

json_string(b) ==
  [WriteAll(json_comma_if_needed(b), <<"quote", "text", "unquote">>)
     EXCEPT !.comma = TRUE]

(* json_int, json_uint, json_double, json_bool and json_null. *)
json_literal(b) ==
  [json_write(json_comma_if_needed(b), "literal") EXCEPT !.comma = TRUE]

(* json_kv_int and its like; json_kv_string. *)
json_kv(b) == json_literal([json_key(b) EXCEPT !.comma = FALSE])
json_kv_string(b) == json_string([json_key(b) EXCEPT !.comma = FALSE])

-----------------------------------------------------------------------------
JsonInit ==
  /\ j = json_init(JsonSize) /\ ideal = json_init(Unlimited)
  /\ jsonOpen = << >> /\ jsonKeyed = FALSE
  /\ jsonCalls = 0

JsonCall(op(_)) ==
  /\ jsonCalls < JsonMaxCalls /\ jsonCalls' = jsonCalls + 1
  /\ j' = op(j) /\ ideal' = op(ideal)

InObject == jsonOpen # << >> /\ Last(jsonOpen) = "obj"
InArray == jsonOpen # << >> /\ Last(jsonOpen) = "arr"
ValueDue == jsonKeyed \/ InArray \/ (jsonOpen = << >> /\ jsonCalls = 0)

Opens(kind) ==
  /\ ValueDue /\ Len(jsonOpen) < JsonMaxDepth
  /\ jsonOpen' = Append(jsonOpen, kind) /\ jsonKeyed' = FALSE

Closes == jsonOpen' = Front(jsonOpen) /\ UNCHANGED jsonKeyed

ObjectStart == Opens("obj") /\ JsonCall(json_object_start)
ArrayStart == Opens("arr") /\ JsonCall(json_array_start)
ObjectEnd == InObject /\ ~jsonKeyed /\ Closes /\ JsonCall(json_object_end)
ArrayEnd == InArray /\ Closes /\ JsonCall(json_array_end)
JsonKey ==
  /\ InObject /\ ~jsonKeyed
  /\ jsonKeyed' = TRUE /\ UNCHANGED jsonOpen
  /\ JsonCall(json_key)
JsonValue ==
  /\ ValueDue /\ jsonOpen # << >>
  /\ jsonKeyed' = FALSE /\ UNCHANGED jsonOpen
  /\ JsonCall(json_string) \/ JsonCall(json_literal)
KeyValue ==
  /\ InObject /\ ~jsonKeyed
  /\ UNCHANGED <<jsonOpen, jsonKeyed>>
  /\ JsonCall(json_kv) \/ JsonCall(json_kv_string)

JsonDone ==
  /\ jsonCalls = JsonMaxCalls \/ (jsonOpen = << >> /\ jsonCalls > 0)
  /\ UNCHANGED jsonVars

JsonNext == \/ ObjectStart \/ ArrayStart \/ ObjectEnd \/ ArrayEnd
        \/ JsonKey \/ JsonValue \/ KeyValue \/ JsonDone

JsonSpec == JsonInit /\ [][JsonNext]_jsonVars

-----------------------------------------------------------------------------
(* JSON itself, as an automaton with a stack that reads tokens.  A state   *)
(* says what has to come next.                                             *)
Whole(stack) == [stack |-> stack, next |-> IF stack = << >> THEN "end" ELSE "sep"]

AfterValue(a, t) ==
  CASE t = "{"       -> [stack |-> Append(a.stack, "obj"), next |-> "first key"]
    [] t = "["       -> [stack |-> Append(a.stack, "arr"), next |-> "first value"]
    [] t = "literal" -> Whole(a.stack)
    [] t = "quote"   -> [a EXCEPT !.next = "text"]
    [] OTHER         -> [a EXCEPT !.next = "bad"]

Closed(a, t) ==
  IF \/ t = "}" /\ Last(a.stack) = "obj"
     \/ t = "]" /\ Last(a.stack) = "arr"
  THEN Whole(Front(a.stack)) ELSE [a EXCEPT !.next = "bad"]

Accept(a, t) ==
  CASE a.next \in {"value", "first value"} /\ t # "]" -> AfterValue(a, t)
    [] a.next = "first value" /\ t = "]" -> Closed(a, t)
    [] a.next = "text" /\ t = "text" -> [a EXCEPT !.next = "unquote"]
    [] a.next = "unquote" /\ t = "unquote" -> Whole(a.stack)
    [] a.next \in {"key", "first key"} /\ t = "key quote" ->
         [a EXCEPT !.next = "key text"]
    [] a.next = "first key" /\ t = "}" -> Closed(a, t)
    [] a.next = "key text" /\ t = "key text" -> [a EXCEPT !.next = "key colon"]
    [] a.next = "key colon" /\ t = "key colon" -> [a EXCEPT !.next = "value"]
    [] a.next = "sep" /\ t = "," ->
         [a EXCEPT !.next = IF Last(a.stack) = "obj" THEN "key" ELSE "value"]
    [] a.next = "sep" /\ t \in {"}", "]"} -> Closed(a, t)
    [] OTHER -> [a EXCEPT !.next = "bad"]

Parse(text) == FoldLeft(Accept, [stack |-> << >>, next |-> "value"], text)

(* As long as the buffer suffices the text is JSON: what has been written  *)
(* can be continued to a document, with the caller's nesting, and is one   *)
(* when the outermost structure is closed.  In particular every comma is   *)
(* where it belongs, at every depth.                                       *)
WellFormed ==
  LET a == Parse(ideal.text)
  IN  /\ a.next # "bad"
      /\ a.stack = jsonOpen
      /\ (jsonOpen = << >> /\ jsonCalls > 0) => a.next = "end"

(* Running out of room only cuts the document off: what is in the buffer   *)
(* is the beginning of the full text, all of it unless json_error says     *)
(* so.  No later, shorter text slips in behind the gap.                    *)
CutNotGarbled ==
  /\ IsPrefix(j.text, ideal.text)
  /\ ~j.error => j.text = ideal.text

=============================================================================
