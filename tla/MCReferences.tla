---------------------------- MODULE MCReferences ----------------------------
(***************************************************************************)
(* An instance of References for TLC: three names, one instance with a     *)
(* folder and a title, and what may be sent: rules for everything or for   *)
(* the instance, a bundle of rules and one of a configuration.             *)
(***************************************************************************)
EXTENDS References

CONSTANTS std, ani, kid, arr, dir1, ttl1

Draft(name, scope) == [target |-> name, scope |-> scope, on |-> TRUE]
AllOfArr == [q \in {dir1, ttl1} |-> arr]
SomeDrafts == {Draft(ani, {arr}), Draft(kid, {})}
SomeBundles == {{Draft(ani, {arr}), Draft(kid, {})}}
SomeConfigs ==
  {[fallback |-> ani, categories |-> {kid},
    folders |-> {[folder |-> dir1, category |-> ani, declared |-> TRUE]},
    pins |-> {[title |-> ttl1, category |-> ani]},
    rules |-> {Draft(ani, {}), Draft(kid, {arr})}, replace |-> replace,
    tests |-> {[expects |-> ani, instance |-> arr]}] : replace \in BOOLEAN}
=============================================================================
