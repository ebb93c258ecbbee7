---------------------------- MODULE MCTokenizer -----------------------------
(***************************************************************************)
(* Every short text over one character of each class, and longer words     *)
(* around the keywords.  No int is larger than 21.                         *)
(***************************************************************************)
EXTENDS Tokenizer, SequencesExt

Short == SeqOf({"o", "f", "A", "1", "2", "-", ">", "=", " ", "\n", "@"}, 4)

Joined ==
  {Keyword[k] \o between \o Keyword[l] :
     k \in DOMAIN Keyword, l \in DOMAIN Keyword,
     between \in {<< >>, <<"\n">>, <<VerticalTab>>, <<"A">>, <<"1">>, <<"=">>, <<"_">>}}

MCTexts == Short \cup Joined
=============================================================================
