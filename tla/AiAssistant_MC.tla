--------------------------- MODULE AiAssistant_MC ---------------------------
(***************************************************************************)
(* An instance of AiAssistant for TLC.                                     *)
(***************************************************************************)
EXTENDS AiAssistant

Queries == {
  <<"select">>, <<"select", "join", "semicolon">>, <<"select", "order", "fetch">>,
  <<"select", "ordinal">>, <<"select", "filter", "order">>, <<"select", "comma">>,
  <<"select", "quoted">>, <<"select", "quoted", "order">>,
  <<"select", "semicolon", "update">>, <<"select", "lock">>, <<"update">>, <<"prose">>,
  <<"select", "--", "semicolon", "lock", "nl", "join">>, <<"select", "'", "lock", "'">>,
  <<"select", "q'[", "'", "]'", "join">>, <<"/*", "update", "*/", "nl", "select">>,
  <<"/*", "nl", "update", "nl", "*/", "nl", "select">>}

Plain  == Queries
Fenced == {<<"prose", "nl", "fence", "nl">> \o q \o <<"nl", "fence", "nl", "prose">> : q \in Queries}
Second == {<<"fence", "prose", "fence", "nl", "fence">> \o q \o <<"fence">> :
             q \in {<<"select">>, <<"select", "semicolon", "update">>}}
Cut    == {<<"fence", "nl">> \o q \o <<"nl">> : q \in {<<"select">>, <<"update">>}}

MCAnswers == Plain \cup Fenced \cup Second \cup Cut
MCOriginals == {<<"select">>, <<"select", "join">>, <<"select", "lock">>}
MCSchemas == {{"select"}, {"select", "join"}}
==============================================================================
