--------------------------- MODULE MCExtensionTest ---------------------------
(***************************************************************************)
(* Values for ExtensionTest: files of up to three tests out of a pool, in  *)
(* which the Ingress of one Application is created, updated, kept and      *)
(* deleted, expectations are right and wrong, and tests are malformed;     *)
(* extensions with and without a ConfigMap, webhooks, and permissions.     *)
(***************************************************************************)
EXTENDS ExtensionTest, TLC

App(spec) == [name |-> "a", spec |-> spec]
Labelled(spec) == [spec |-> spec, label |-> TRUE]

ValidateTest(type, resource, invalid) ==
  "validate" :> [type |-> type, resource |-> resource, old |-> None, invalid |-> invalid]
DefaultTest(resource, expected) ==
  "defaulting" :> [resource |-> resource, expected |-> expected]
SyncTest(resource, expected, lookup) ==
  "sync" :> [resource |-> resource, expected |-> expected, lookup |-> lookup]
DeleteTest(resource, notFound) ==
  "delete" :> [resource |-> resource, notFound |-> notFound]
Has(rules) == [name |-> "a", rules |-> rules]

MCTests == {
  ValidateTest("create", App("foreign"), TRUE),
  ValidateTest("delete", App("unused"), FALSE),
  ValidateTest("", App("plain"), FALSE),
  ValidateTest("update", None, TRUE),
  "validate" :> [type |-> "update", resource |-> None, old |-> App("plain"), invalid |-> TRUE],
  DefaultTest(App("bare"), [spec |-> "plain", label |-> FALSE]),
  DefaultTest(App("plain"), None),
  DefaultTest(None, None),
  SyncTest(None, None, <<>>),
  DeleteTest(None, <<>>),
  SyncTest(App("plain"), Labelled("plain"), <<Has("plain")>>),
  SyncTest(App("plain"), None, <<>>),
  SyncTest(App("foreign"), Labelled("foreign"), <<Has("foreign"), Has("plain")>>),
  SyncTest(App("unused"), None, <<Has("plain")>>),
  DeleteTest(App("plain"), <<"a">>),
  DeleteTest(App("plain"), <<>>),
  SyncTest(App("bare"), Labelled("bare"), <<>>) @@ DeleteTest(App("bare"), <<"a">>),
  <<>> }

MCFiles ==
  [config : BOOLEAN, tests : UNION {[1 .. n -> MCTests] : n \in 0 .. 3}]

All == {"get", "create", "update", "delete"}
Ext(configMap, webhooks, perms) ==
  [loads |-> TRUE, configMap |-> configMap, validation |-> webhooks, defaulting |-> webhooks,
   perms |-> perms]

MCExtensions == {
  Ext(TRUE, TRUE, All), Ext(FALSE, TRUE, All \ {"delete"}), Ext(FALSE, FALSE, {}),
  [Ext(TRUE, TRUE, All) EXCEPT !.loads = FALSE] }
=============================================================================
