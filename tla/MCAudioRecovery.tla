-------------------------- MODULE MCAudioRecovery --------------------------
(* Small instances of AudioRecovery: the two backends of the start and two *)
(* for replacements, and the commands that meet in one run.                *)
EXTENDS AudioRecovery, Sequences

MCBackends == 1..4

Commands(commands) == [c \in AllCommands |-> Cardinality({i \in DOMAIN commands : commands[i] = c})]

MCScenarios ==
  {Commands(s) : s \in {
     <<"repair", "emergency", "load">>, <<"global", "emergency", "load">>, <<"repair", "global", "load">>,
     <<"repair", "stall", "load">>, <<"stall", "stall", "play">>, <<"global", "global", "stall">>,
     <<"repair", "replace">>, <<"emergency", "emergency", "play">>, <<"device", "repair", "start">>,
     <<"device", "emergency", "stall">>, <<"global", "device", "play">>, <<"stall", "global", "start">>}}
=============================================================================
