--------------------------- MODULE MCPluginManager ---------------------------
(* A small instance of PluginManager for TLC: "all" contains a meta plugin *)
(* that contains "all" again, "bad" ends with a plugin without a module,   *)
(* "none" is empty.                                                        *)
EXTENDS PluginManager, TLC

CONSTANTS belt, table, cam, all, some, bad, none

Lists == all :> <<belt, some>> @@ some :> <<table, all>> @@
         bad :> <<cam, some, none>> @@ none :> <<>>
Calls == {<<n>> : n \in {all, some, bad}} \cup {<<belt, table>>, <<table, cam>>}
=============================================================================
