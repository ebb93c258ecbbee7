---------------------------- MODULE MCCompiled ------------------------------
(***************************************************************************)
(* Programs for the generator and its machine: lists of numbers taken      *)
(* apart by all kinds of case expressions, nested in each other and in     *)
(* every kind of place.  Those that the analyses refuse are left aside.    *)
(***************************************************************************)
EXTENDS Compiled, Readings

MCUpperNames == {"Int", "L", "N", "C", "P", "Q", "R"}
MCNames      == MCUpperNames \cup {"f", "main", "x", "y", "l", "m"}

List == <<"data", "L", "=", "{", "N", ",", "C", "Int", "L", "}">>
Function(name, parameters, body) ==
  <<"defn", name>> \o parameters \o <<"=", "{">> \o body \o <<"}">>
CaseOf(s, bs) == <<"case">> \o s \o <<"of", "{">> \o bs \o <<"}">>
Arm(pattern, body) == pattern \o <<"->", "{">> \o body \o <<"}">>

N(body) == Arm(<<"N">>, body)
C(body) == Arm(<<"C", "y", "m">>, body)
Else(body) == Arm(<<"y">>, body)

Branches ==
  {N(<<"x">>) \o C(b) : b \in {<<"y">>, <<"y", "+", "f", "x", "m">>, <<"f", "y", "m">>}}
  \cup {C(<<"x", "-", "y">>) \o N(<<"2">>), C(<<"y">>), Else(<<"x">>)}
  \cup {C(<<"y">>) \o C(<<"x">>) \o N(<<"x">>), C(<<"y">>) \o Else(<<"x">>),
        N(<<"x">>) \o Else(<<"f", "x", "N">>) \o C(<<"f", "x", "f">>)}

Scrutinees == {<<"l">>, <<"C", "1", "l">>,
               CaseOf(<<"l">>, C(<<"m">>) \o Arm(<<"m">>, <<"C", "x", "m">>))}

Bodies ==
  {CaseOf(s, bs) : s \in Scrutinees, bs \in Branches}
  \cup {<<"x", "/", "(">> \o CaseOf(<<"l">>, bs) \o <<")", "-", "1">> : bs \in Branches}
  \cup {CaseOf(<<"l">>, N(CaseOf(<<"C", "x", "l">>, bs)) \o C(CaseOf(<<"m">>, bs))) : bs \in Branches}

Mains ==
  {<<"f", "2", "N">>, <<"f", "0", "(", "C", "3", "(", "C", "0", "N", ")", ")">>}

Lists == {List \o Function("f", <<"x", "l">>, body) \o Function("main", << >>, main) :
            body \in Bodies, main \in Mains}

Others ==
  {List \o Function("f", <<"x">>, <<"x", "+", "1">>) \o Function("main", << >>, main) :
     main \in {<<"f">>, <<"f", "1">>, <<"C", "1", "N">>, <<"(", "f", "1", ")", "*", "9", "*", "9">>,
               <<"1", "-", "8", "/", "3">>, <<"(", "0", "-", "7", ")", "/", "2">>, <<"1", "/", "0">>,
               <<"(", "0", "-", "8", "*", "8", "*", "2", ")", "/", "(", "0", "-", "1", ")">>,
               CaseOf(<<"C", "1", "N">>, C(<<"m">>)), CaseOf(<<"C", "1", "N">>, N(<<"1">>)),
               CaseOf(<<"2">>, Else(<<"y", "*", "y">>)),
               CaseOf(<<"C">>, Arm(<<"y">>, <<"y", "1", "N">>)),
               CaseOf(<<"C", "1">>, Arm(<<"y">>, <<"3">>)),
               <<"(">> \o CaseOf(<<"N">>, Else(<<"C">>)) \o <<")", "1", "N">>,
               CaseOf(<<"N">>, Else(<<"3">>) \o N(<<"main">>))}}
  \cup {List \o Function("main", << >>, <<"f", "+", "1">>) \o Function("f", << >>, <<"2">>),
        List \o Function("f", << >>, <<"2">>)}
  \cup {Function("main", << >>, main) \o List \o Function("f", <<"x", "y">>, <<"x", "-", "y">>)
          \o <<"data", "P", "=", "{", "Q", "L", "Int", ",", "R", "}">> :
        main \in {<<"R">>, <<"Q", "N", "1">>, <<"f", "1">>, <<"f", "1", "2">>, <<"f", "(", "f", "9", "9", ")", "(", "f", "1", "2", ")">>,
                 CaseOf(<<"Q", "(", "C", "5", "N", ")", "6">>,
                        Arm(<<"Q", "l", "x">>, CaseOf(<<"l">>, C(<<"f", "x", "y">>))) \o Arm(<<"R">>, <<"1">>))}}

MCPrograms == {ProgramOf(text) : text \in Lists \cup Others}
=============================================================================
