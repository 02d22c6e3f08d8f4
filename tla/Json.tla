-------------------------------- MODULE Json --------------------------------
(***************************************************************************)
(* core/json.{h,cc}: lookups into a parsed document that throw on a layout *)
(* they do not expect.  rapidjson is external: a value is a record of its  *)
(* kind and content, an object's content a function from its member names. *)
(*                                                                         *)
(* A text is a sequence of the parts code tells apart: the characters of a *)
(* number, or one whole word, so that every text can be compared.          *)
(*                                                                         *)
(* A throw is a value of its own: Throws(...) says of a lookup whether it  *)
(* throws, and the lookup is its result if it does not.                    *)
(***************************************************************************)
EXTENDS Sequences, TLC

JsonString(text) == [kind |-> "string", text |-> text]
Word(word) == JsonString(<<word>>)
JsonBool(bool) == [kind |-> "bool", bool |-> bool]
JsonArray(values) == [kind |-> "array", values |-> values]
JsonObject(members) == [kind |-> "object", members |-> members]
JsonUint(number) == [kind |-> "uint", number |-> number]

(* What Parse() leaves of a text that is not JSON. *)
JsonNull == [kind |-> "null"]

(* No member, as far as std::optional tells. *)
Missing == [kind |-> "missing"]

FindJsonMember(object, name) ==
  IF object.kind = "object" /\ name \in DOMAIN object.members
    THEN object.members[name] ELSE Missing

RequireThrows(object, name, kind) == FindJsonMember(object, name).kind # kind

RequireJsonString(object, name) == FindJsonMember(object, name).text

FindJsonStringThrows(object, name) ==
  FindJsonMember(object, name).kind \notin {"missing", "string"}

(* FindJsonString(), with value_or("") as every caller has it. *)
FindJsonString(object, name) ==
  IF FindJsonMember(object, name).kind = "string"
    THEN FindJsonMember(object, name).text ELSE <<>>
=============================================================================
