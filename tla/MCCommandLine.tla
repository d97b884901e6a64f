--------------------------- MODULE MCCommandLine ---------------------------
(***************************************************************************)
(* The values of arguments and options that CommandLine is checked with:   *)
(* each of the characters that are told apart alone, at the beginning, in  *)
(* the middle and at the end, and the name of a subcommand.                *)
(***************************************************************************)
EXTENDS CommandLine

MCValues ==
  {<<>>, <<"w">>, <<BLANK>>, <<"-">>, <<SLASH>>, <<QUOTE>>, <<"w", BLANK, "w">>,
   <<SLASH, QUOTE>>, <<QUOTE, "w">>, <<"w", SLASH>>, <<"w", QUOTE>>, <<"list">>}
=============================================================================
