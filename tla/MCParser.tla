------------------------------ MODULE MCParser ------------------------------
(***************************************************************************)
(* Token sequences for the parser: every short body over the tokens that   *)
(* precedence is about, and programs that use every production, cut off at *)
(* every token and with every edit of one token.                           *)
(***************************************************************************)
EXTENDS Grammar

MCUpperNames == {"A", "B", "Int", "T"}
MCNames      == MCUpperNames \cup {"f", "x", "y"}

ShortBodies ==
  {<<"defn", "f", "=", "{">> \o body \o <<"}">> :
     body \in UNION {[1..n -> {"x", "1", "+", "*", "(", ")"}] : n \in 0..5}}

Whole ==
  {<< "data", "T", "=", "{", "A", ",", "B", "T", "Int", "}", "defn", "x", "=", "{", "1", "}" >>,
   << "defn", "f", "x", "=", "{", "case", "x", "of", "{", "A", "->", "{", "1", "}",
      "B", "y", "x", "->", "{", "f", "y", "*", "1", "-", "x", "}", "}", "}" >>,
   << "defn", "f", "x", "y", "=", "{", "(", "x", "+", "1", ")", "/",
      "case", "f", "x", "-", "1", "of", "{", "x", "->", "{", "x", "}", "}", "y", "}" >>}

Edited ==
  UNION {LET start(k) == SubSeq(s, 1, k - 1)
             rest(k)  == SubSeq(s, k, Len(s))
             words    == Symbols \cup {"1", "x", "A"}
         IN  UNION {{start(k), start(k) \o Tail(rest(k))}
                    \cup {start(k) \o <<w>> \o rest(k) : w \in words}
                    \cup {start(k) \o <<w>> \o Tail(rest(k)) : w \in words} : k \in DOMAIN s} :
           s \in Whole}

MCInputs == {Words(s) : s \in ShortBodies \cup Whole \cup Edited}
=============================================================================
