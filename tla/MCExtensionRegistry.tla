------------------------ MODULE MCExtensionRegistry ------------------------
(* Instances of ExtensionRegistry for TLC.                                  *)
EXTENDS ExtensionRegistry, TLC

MCBase == [t \in Targets |-> {<<"image">>, <<"resources">>, <<"resources", "limits">>}]
MCObjects == {<<"resources">>, <<"db">>, <<"db", "conn">>, <<"free">>}

\* What a spec of an extension holds: its targets and the paths of its schema.
Both == {"Application", "Work"}
App  == {"Application"}
Schemas ==
  "hosts"  :> {<<"hosts">>} @@
  "hosts2" :> {<<"db">>, <<"db", "conn">>, <<"db", "conn", "host">>} @@
  "users"  :> {<<"users">>, <<"db">>, <<"db", "users">>} @@
  "users2" :> {<<"db">>, <<"db", "users">>, <<"db", "conn">>, <<"db", "conn", "port">>} @@
  "stolen" :> {<<"hosts">>, <<"db">>, <<"db", "conn">>, <<"db", "conn", "host">>} @@
  "bare"   :> {} @@
  "free"   :> {<<"free">>} @@
  "wide"   :> {<<"wide">>}

MCPathsOf == [s \in Specs |-> Schemas[s]]
MCTargetsOf == [s \in Specs |-> IF s = "wide" THEN Both ELSE App]
BothTargets == [s \in Specs |-> Both]

\* Extensions whose fields are their own, and share an object and one in it, and
\* a spec with fields of the other.
Mixed  == "a" :> {"hosts", "hosts2", "bare"} @@ "b" :> {"users2", "stolen"}
Single == "a" :> {"hosts"} @@ "b" :> {"users"}
\* Two extensions that define the same field.
Fields == "a" :> {"hosts", "users"} @@ "b" :> {"stolen"}
\* An extension with an object that has no properties of its own.
Open   == "a" :> {"hosts"} @@ "b" :> {"free"}
\* An extension that gives up a target.
Narrow == "a" :> {"wide", "hosts"} @@ "b" :> {"users"}

\* The hypothesis of the theorems about the schemas holds for these, but for Open.
ASSUME MCObjectsHaveProperties == SpecsOf # Open => ObjectsHaveProperties
=============================================================================
