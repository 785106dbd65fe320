------------------------------- MODULE MCParts -------------------------------
(* The server with three slots; of the indices one has a definition, one has *)
(* none yet, and one is as good as another when it is cut.  Documents of     *)
(* seven elements and eight ways to declare the languages, with prefixes and *)
(* without, in either order, with a namespace nobody knows.  Numbers of up   *)
(* to five digits before the point and two or five after it, where the       *)
(* formats hold three and four.                                              *)
EXTENDS Parts

MCSecdef == <<"x", NoSdef>>
MCIdx == {1, 2, 5}

Decl(p, n) == [pref |-> p, ns |-> n]
MCDecls == {<<Decl("", "TWSXML")>>, <<Decl("", "FIXML")>>, <<Decl("p", "TWSXML")>>,
            <<Decl("u", "UNK"), Decl("", "TWSXML")>>,
            <<Decl("", "TWSXML"), Decl("p", "FIXML")>>, <<Decl("", "TWSXML"), Decl("u", "UNK")>>,
            <<Decl("u", "UNK"), Decl("p", "TWSXML"), Decl("", "FIXML")>>,
            <<Decl("u", "UNK"), Decl("p", "FIXML"), Decl("q", "TWSXML")>>}

DigitsOf(n) == UNION {[1 .. k -> {0, 4, 9}] : k \in 0 .. n}
MCTexts == [neg : BOOLEAN, int : DigitsOf(5), frac : DigitsOf(2)] \cup
           [neg : BOOLEAN, int : {<<>>}, frac : [1 .. 5 -> {0, 9}]]
MCScales == {-1, 2}
MCQuanta == {-1, 0, 1}
=============================================================================
