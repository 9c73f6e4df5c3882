----------------------------- MODULE MCPackages -----------------------------
(* Three libraries.  ext lies inside base, as @s/base/ext does, and asks   *)
(* for versions of it; web asks for both.                                  *)
EXTENDS Packages

DefOrder == <<"base", "ext", "web">>
DefMajor == <<1, 1, 2>>
DefOffered == [base |-> {1, 2, 3}, ext |-> {1, 2}, web |-> {1, 2}]
DefNeeds == [base |-> <<<<>>, <<>>, <<>>>>,
             ext |-> <<<<<<"base", {1, 2}>>>>, <<<<"base", {2, 3}>>>>, <<>>>>,
             web |-> <<<<<<"base", {1}>>>>, <<<<"base", {1, 2, 3}>>, <<"ext", {1, 2}>>>>, <<>>>>]
DefGoNeeds == [base |-> <<0, 2, 3>>, ext |-> <<0, 0, 0>>, web |-> <<1, 1, 0>>]
DefGoMajor == <<1, 1, 2>>
DefInside == [base |-> {"ext"}, ext |-> {}, web |-> {}]
DefMislabelled == {<<"ext", 1, 2>>, <<"base", 1, 2>>}
DefFlags == {<<FALSE, FALSE>>, <<TRUE, TRUE>>}
=============================================================================
