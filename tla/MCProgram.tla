------------------------------ MODULE MCProgram -------------------------------
(* Small strings, files and messages; functions, of which two have one type;  *)
(* words of one byte more than the widths, so that lengths take two bytes.    *)
EXTENDS Program

CONSTANTS f1, f2, f3, f4, null

MCLetter == {"a", "b"}
Chars == {" ", ":", "a", "1", NUL}
MCStrings == BoundedSeq(Chars, 3) \cup {<<"a", ":", ":", ":", "a">>}
MCLines == BoundedSeq({" ", ":", "a", "2"}, 3)
             \cup {<<"a", ":", " ", "1", "0", "\r">>, <<"\t", "a", " ", ":", "-", "1">>,
                   <<"a", " ", "b", ":", "+", "3">>, <<"a", ":", "4", "x">>}
MCTokens == {<<"{", "{">>, <<"}", "}">>, <<"{", "}">>, <<"a">>}
MCPorts == {{}} \cup {{p} : p \in
    {<<>>, <<"a">>, <<"0">>, <<"7">>, <<"0", "7">>, <<"-", "7">>, <<"7", ".", "a">>,
     <<"a", ".">>, <<"a", "b", "1", "2">>, <<"6", "5", "5", "3", "5">>,
     <<"6", "5", "5", "3", "6">>, <<"1", "0", "0", "0", "0", "0">>}}
MCBytes == {0, 15, 16, 171, 255}

Infos == [0..1 -> {<<<<3, <<>>>>>>, <<<<40, <<1, 2>>>>>>}]
Listed(S) == FoldSet(LAMBDA x, s : Append(s, x), <<>>, S)
MCMessages ==
    << [type |-> 0, members |-> Firsconnection(2), value |-> <<<<<<0, 7>>>>>>],
       [type |-> 0, members |-> Firsconnection(2), value |-> <<<<<<1, 7>>>>>>],
       [type |-> 1, members |-> FirsconnectionOK, value |-> <<>>],
       [type |-> 2, members |-> WorkerInfoMap, value |-> <<<<>>>>] >>
    \o [i \in 1..4 |-> [type |-> 2, members |-> WorkerInfoMap, value |-> <<Listed(Infos)[i]>>]]

int == Num(2)
Texts == {<<>>, <<1>>, <<1, 2, 3, 4, 5>>}
Use(types, plain, values) ==
    LET vs == Listed(values)
    IN  [i \in DOMAIN vs |-> [types |-> types, plain |-> plain, value |-> vs[i]]]
MCValues ==
    Use(<<int, string>>, TRUE, {0, 200} \X Texts)
    \o Use(<<List(string), Array(int, 2)>>, TRUE,
           (BoundedSeq(Texts, 2) \cup {[i \in 1..18 |-> <<i % 16>>]}) \X {<<0, 0>>, <<17, 3>>})
    \o Use(<<Map(int, List(int)), int>>, FALSE,
           {<<>>, 1 :> <<5, 6>>, 2 :> <<7>>, (1 :> <<>>) @@ (2 :> <<8, 9>>)} \X {0, 1})

MCFunc == {f1, f2, f3, f4}
Mangled == (f1 :> "FiiE") @@ (f2 :> "FiiE") @@ (f3 :> "FiiSsE") @@ (f4 :> "FvSt6vectorIiEE")
MCArgTypes == (f1 :> <<int>>) @@ (f2 :> <<int>>) @@ (f3 :> <<int, string>>)
                @@ (f4 :> <<List(int)>>)
MCArgs == (f1 :> <<18>>) @@ (f2 :> <<3>>) @@ (f3 :> <<1, <<4, 5, 6, 7>>>>)
            @@ (f4 :> <<<<1, 2>>>>)
MCBuffers == Seq(Seq(0..15))
=============================================================================
