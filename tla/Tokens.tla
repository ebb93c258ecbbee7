------------------------------- MODULE Tokens -------------------------------
(***************************************************************************)
(* The tokens that the tokenizer hands to the parser                       *)
(* (tokenization/token.hpp), without their positions.                      *)
(***************************************************************************)

IntToken(value)    == [kind |-> "int", value |-> value]
NameToken(k, name) == [kind |-> k, name |-> name]     \* k is "lower" or "upper"
Token(k)           == [kind |-> k]

Symbols    == {"defn", "data", "case", "of", "=", "->", "+", "-", "*", "/",
               "{", "}", "(", ")", ","}
IsToken(t) == \/ t.kind = "int" /\ t = IntToken(t.value)
              \/ t.kind \in {"lower", "upper"} /\ t = NameToken(t.kind, t.name)
              \/ t.kind \in Symbols /\ t = Token(t.kind)
=============================================================================
