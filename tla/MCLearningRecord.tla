--------------------------- MODULE MCLearningRecord ---------------------------
(* Instances of LearningRecord: a path with one module, one attempt, its     *)
(* completion, a rebinding of a key and a rebinding of an attempt id.         *)
EXTENDS LearningRecord, TLC

Granular(type, id, item, ref) ==
  [type |-> type, key |-> <<"command", id, 0>>, path |-> "p", module |-> "m",
   item |-> item, ref |-> ref, source |-> "none", at |-> 0]

LibraryCommands ==
  {Granular("enroll", "k1", {"m"}, {}),
   Granular("enroll", "k2", {"m", "n"}, {}),
   Granular("complete", "k3", {}, {}),
   Granular("record", "k2", {"a"}, {}),
   Granular("record", "k3", {"a"}, {}),
   Granular("correct", "k4", {"c"}, {"a"})}

NoCommands == {}

OneImport == {[id |-> "x", item |-> {"A"}]}
Resaves == {[id |-> "x", item |-> {"A"}], [id |-> "y", item |-> {"B"}]}
Before == {[item |-> {"O"}, revision |-> 1, at |-> 0]}
Nothing == {}

AnyOrder == Permutations(Requests)
===============================================================================
