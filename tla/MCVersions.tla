-------------------------------- MODULE MCVersions --------------------------------
(***************************************************************************)
(* Instances of Versions: lists of up to three of 31 versions and          *)
(* not-quite-versions, and two requests for names that differ in case, in  *)
(* the escaping's mark, or not at all.                                     *)
(***************************************************************************)
EXTENDS Versions

Bytes == ("!" :> 33) @@ ("+" :> 43) @@ ("-" :> 45) @@ ("." :> 46) @@ ("/" :> 47) @@ ("0" :> 48)
          @@ ("1" :> 49) @@ ("2" :> 50) @@ ("9" :> 57) @@ ("A" :> 65) @@ ("a" :> 97) @@ ("b" :> 98)
          @@ ("v" :> 118)
B(letters) == [i \in DOMAIN letters |-> Bytes[letters[i]]]

Release(minor) == B(<<"v", "1", ".">>) \o minor \o B(<<".", "0">>)
R    == Release(B(<<"1">>))
Pres ==
  {B(p) : p \in {
     <<"a">>, <<"A">>, <<"a", ".", "1">>, <<"a", ".", "2">>, <<"a", "b">>, <<"b">>, <<"2">>, <<"1", "0">>,
     <<"1", "0", "0">>, <<"1", "0", "0", "0">>, <<"9", "9">>, <<"-">>, <<"1", "-", "a">>, <<"2", ".", "a">>,
     <<"0">>, <<"0", "1">>, <<"a", ".", ".", "b">>, <<>>}}

Texts ==
  {Release(B(m)) : m \in {<<"1">>, <<"9">>, <<"1", "0">>, <<"1", "0", "0">>, <<"0", "1">>, <<>>}}
    \cup {R \o B(<<"-">>) \o p : p \in Pres}
    \cup {R \o B(x) : x \in {<<"+", "a">>, <<"+">>, <<"-", "a", "+", "b", "-", "1">>, <<"+", "a", "-">>, <<".", "1">>}}
    \cup {B(<<"v", "1", ".", "1">>), Tail(R)}

Modules  == {B(m) : m \in {<<"a">>, <<"A">>, <<"!", "a">>, <<"a", "A">>, <<"!">>}}
Pinned   == {R \o B(x) : x \in {<<>>, <<"-", "a">>, <<"-", "A">>, <<"-", "!", "a">>, <<"/">>}}
Asked    == [module : Modules, version : Pinned]

\* Each list in the order that List reverses.
MCLists    == {l \in SeqOf(Texts, 3) : \A i, j \in DOMAIN l : i < j => ~TextLess(l[i], l[j])}
MCRequests == {{r, s} : r, s \in Asked}
===============================================================================
