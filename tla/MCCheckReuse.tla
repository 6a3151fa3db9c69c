---------------------------- MODULE MCCheckReuse ----------------------------
(* tests.unit imports lib, which imports util, and is declared to read     *)
(* data; tests.plugin loads util while it runs.                            *)
EXTENDS CheckReuse, TLC

CONSTANTS unit, plugin, lib, util, data, runner, testUnit, testPlugin

MCPath     == {unit, plugin, lib, util, data, runner, Tools}
MCTracked  == MCPath \ {data, Tools}
MCCheck    == {testUnit, testPlugin}
MCBefore   == testUnit :> {} @@ testPlugin :> {testUnit}
MCModule   == testUnit :> {unit} @@ testPlugin :> {plugin}
MCDeclared == testUnit :> {data} @@ testPlugin :> {}
MCImports  == [p \in MCPath |-> IF p = unit THEN {lib} ELSE IF p = lib THEN {util} ELSE {}]
MCLoads    == [p \in MCPath |-> IF p = plugin THEN {util} ELSE {}]
=============================================================================
