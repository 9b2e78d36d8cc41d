------------------------------- MODULE MCLabs -------------------------------
(* Texts that meet the exit string: a character, a NUL, its beginnings, all *)
(* of it, and one that would be it but for a character.  User programs that *)
(* only exit, call the system, loop, and stay at one instruction.           *)
EXTENDS Sessions

TextsValue == {<<>>, <<"x">>, <<Nul>>, <<"D">>, <<"D", "O", "N">>, ExitString,
               <<"D", "O", "x", "N", "E", "!", "!", "!", "nl">>}
RunsValue == {<<10>>, <<10, 11, 12, 13>>, <<10, 11, 12, 11, 12, 11, 14>>, <<10, 11, 11, 11, 12>>}
SwitchValue == <<4, 5, 6>>
=============================================================================
