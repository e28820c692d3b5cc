----------------------------- MODULE MCRuntime ------------------------------
(* Hosts and programs for Runtime:                                           *)
(*   several    starts, steps, runs and destroys several executors, over a   *)
(*              module with a function that leaves a thing on its stack and  *)
(*              one that does not                                            *)
(*   any        runs every program of up to ProgramLength instructions       *)
(*   recycling  steps two executors through a short program, collects at any *)
(*              time, destroys executors and starts others                   *)
(*   runOnly    is like runtime/main.c with more than one executor           *)
EXTENDS Assembly

CONSTANTS
  ProgramLength,  \* of the programs of host "any"
  ShortLength     \* of the programs of host "recycling"

Pusher == <<<<"BIPUSH", 1>>, <<"RET">>>>
Sleeper == <<<<"NOP">>, <<"RET">>>>

SmallModule ==
  [code |-> Assemble(Pusher \o Sleeper),
   functions |-> <<[address |-> 0, paramCount |-> 0],
                   [address |-> Len(Assemble(Pusher)), paramCount |-> 0]>>,
   globalCount |-> 0]
-----------------------------------------------------------------------------
\* Function 1 takes one parameter; the jumps of the menu go to the final RET.
Callee == <<<<"LOD", 0>>, <<"STR", 1>>, <<"RET">>>>

Menu ==
  {<<"BIPUSH", 1>>, <<"DUP">>, <<"SWAP">>, <<"POP">>, <<"STR", 0>>, <<"STR", 1>>,
   <<"LOD", 0>>, <<"STRG", 0>>, <<"LODG", 0>>, <<"SFPUSH", 1>>, <<"CALL">>,
   <<"SUB">>, <<"JZ", 0>>}

CalleeSize == Len(Assemble(Callee))

\* The callee comes first, then main.
Program(body) ==
  LET start == CalleeSize
      end   == start + Len(Assemble(body))
      main  == [k \in DOMAIN body |-> IF body[k][1] = "JZ" THEN <<"JZ", end>> ELSE body[k]]
  IN  [code |-> Assemble(Callee \o main \o <<<<"RET">>>>),
       functions |-> <<[address |-> start, paramCount |-> 0],
                       [address |-> 0, paramCount |-> 1]>>,
       globalCount |-> 1]

Programs(length) == {Program(body) : body \in UNION {[1..n -> Menu] : n \in 0..length}}
-----------------------------------------------------------------------------
\* What malloc returned may happen to look initialised, like the id of a
\* thing, or like no id at all.
AnyGarbage == {DeadThing, 0, 9}

HostSeveral ==
  [calls |-> {"module_create", "add_function", "executor_create", "executor_destroy",
              "executor_step_in", "executor_step_out", "executor_step",
              "context_step", "context_run", "context_destroy"},
   modules |-> {SmallModule}, entries |-> {0, 1, 2, 3}, garbage |-> {DeadThing},
   maxModules |-> 2, maxExecutors |-> 2, maxDestroys |-> 2, maxFrames |-> 2,
   maxCells |-> 2, maxFunctions |-> 3, maxDead |-> 0]

HostAny ==
  [calls |-> {"module_create", "executor_create", "context_run"},
   modules |-> Programs(ProgramLength), entries |-> {0, 1, 2}, garbage |-> AnyGarbage,
   maxModules |-> 1, maxExecutors |-> 1, maxDestroys |-> 0, maxFrames |-> 0,
   maxCells |-> 1, maxFunctions |-> 2, maxDead |-> 0]

HostRecycling ==
  [HostAny EXCEPT
     !.calls = {"module_create", "executor_create", "executor_step", "executor_destroy",
                "context_collect"},
     !.modules = Programs(ShortLength), !.entries = {0}, !.garbage = {DeadThing},
     !.maxExecutors = 2, !.maxDestroys = 1, !.maxCells = 3, !.maxDead = 2]

HostRunOnly ==
  [HostSeveral EXCEPT !.calls = {"module_create", "executor_create", "context_run"},
                      !.maxCells = 1]

MCHosts == [several |-> HostSeveral, any |-> HostAny, recycling |-> HostRecycling]
MCRunOnly == [runOnly |-> HostRunOnly]
MCShortPrograms == [any |-> [HostAny EXCEPT !.garbage = {DeadThing}]]
=============================================================================
