------------------------------- MODULE MCScopes -------------------------------
(* A loop over an extended task, and a retried and extended call whose      *)
(* extension has a nested scope and may hang.                               *)
EXTENDS Scopes

Scopes   == {"main", "each", "try", "ticks", "catch", "nested", "pre", "post", "empty"}
Tasks    == {"loop", "step", "risky", "turn", "call", "spin", "tick", "fix",
             "inner", "probe", "audit", "last"}
Programs == [main   |-> <<"loop", "turn", "last">>,
             each   |-> <<"step", "risky", "turn">>,
             try    |-> <<"call", "spin">>,
             ticks  |-> <<"tick">>,
             catch  |-> <<"fix">>,
             nested |-> <<"probe">>,
             pre    |-> <<"inner">>,
             post   |-> <<"audit">>,
             empty  |-> <<>>]

\* Jumps go forward; "probe" is in no scope that jumps there.
Flows == [t \in Tasks |-> {"continue", "exit", "end"}
                          \cup (IF t = "loop" THEN {"last", "probe"} ELSE {})]

Dos   == {"inner"}
Fors  == {"loop", "spin"}
Tries == {"risky"}

Bodies   == [inner |-> "nested", loop |-> "each", risky |-> "try", spin |-> "ticks"]
Handlers == [risky |-> "catch"]
Catchers == [risky |-> {"fault", "timeout"}]
Limits   == [risky |-> 2]
Lengths  == [loop |-> 2, spin |-> 1]
Setters  == [loop |-> {"item", "index"}, spin |-> {"n", "i"}, risky |-> {"error"}]

Extensions == {"log", "check"}
Targets    == [t \in Tasks |-> CASE t = "call"  -> <<"log", "check">>
                                 [] t = "step"  -> <<"check">>
                                 [] t = "audit" -> <<"log">>
                                 [] t = "probe" -> <<"log">>
                                 [] OTHER       -> <<>>]
Pres  == [log |-> "pre", check |-> "post"]
Posts == [log |-> "post", check |-> "empty"]

\* The nesting of the program, the extensions' scopes aside, and TLC's evidence
\* that programs are what Nested and OwnNames say.
Asides == {"pre", "post", "empty", "inner", "nested", "probe", "audit"}
Levels == << {"main", "pre", "post", "empty"}, {"loop", "last", "inner", "audit"},
             {"each", "nested"}, {"step", "risky", "turn", "probe"}, {"try", "catch"},
             {"call", "spin", "fix"}, {"ticks"}, {"tick"} >>
Depths == [x \in Scopes \cup Tasks |-> CHOOSE d \in 1 .. Len(Levels) : x \in Levels[d]]
ASSUME ProgramIsNested == Nested(Depths, Asides) /\ OwnNames

=============================================================================
