----------------------------- MODULE MCPhoneList -----------------------------
(* Texts of up to three characters over two digits, a space, a comma and an    *)
(* apostrophe: seven numbers that differ in what becomes of them, clean or not. *)
EXTENDS PhoneList

MCTexts == {<<"1">>, <<"1", "1">>, <<"1", " ", "2">>, <<"1", ",", "2">>, <<" ", "2">>, <<"1", "'">>, <<>>}
=============================================================================
