---------------------------- MODULE MCRequestText ----------------------------
(***************************************************************************)
(* Inputs for RequestText: texts of any form, and what well-formed texts   *)
(* are made from.                                                          *)
(***************************************************************************)
EXTENDS RequestText

Strings(chars, first, last) == UNION {[1 .. n -> chars] : n \in first .. last}
Lists(elements, last)       == UNION {[1 .. n -> elements] : n \in 1 .. last}

AnyTexts ==
    Strings({"x", "&", "=", ";", "quote", " "}, 0, 4) \cup
    Strings({"x", "%", "0", "&"}, 1, 4) \cup
    Strings({"x", " ", "HTTP", "/", ":"}, 1, 5)

(***************************************************************************)
(* A name of a field is written as it is, so it must not hold the          *)
(* characters that end it; a value is encoded and may hold any.            *)
(***************************************************************************)
AllQueries ==
    Lists([name : {<<"x">>, <<"%", "1">>}, value : Strings({"x", "%", "=", "&", "+"}, 0, 2)], 2)

(***************************************************************************)
(* An attribute without quotes has a value: parse takes the character      *)
(* behind `=' for the value's first, whatever it is.                       *)
(***************************************************************************)
AllAttributes ==
    Lists([name : {<<"x">>, <<"x", " ", "1">>}, style : {"bare"}, value : {<< >>}] \cup
          [name : {<<"x">>}, style : {"quoted"}, value : Strings({"x", ";", "quote", " "}, 0, 2)] \cup
          [name : {<<"x">>}, style : {"token"}, value : Strings({"x", ";", "quote", "="}, 1, 2)], 2)

AllHeads ==
    [method : {<<"x">>, <<"x", "x">>},
     path : {<<"/">>, <<"/", "x">>, <<"/", "HTTP">>},
     query : Strings({"?", "=", "x"}, 0, 2),
     version : {<<"1">>, <<"1", "/">>},
     fields : {<< >>} \cup
              Lists([name : {<<"x">>, <<"x", " ">>},
                     value : {<< >>, <<":">>, <<"x", " ">>}], 2)]
=============================================================================
