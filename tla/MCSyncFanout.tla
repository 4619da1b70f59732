---------------------------- MODULE MCSyncFanout ----------------------------
(***************************************************************************)
(* Values for the constants of SyncFanout: three extensions, one of which  *)
(* the spec does not select, and short streams with every kind of          *)
(* response, several of them about one path.                               *)
(***************************************************************************)
EXTENDS SyncFanout

Entry(k, v)    == [kind |-> k, val |-> v]
Meta(p, v)     == [kind |-> "meta", path |-> p, val |-> v]
Patch(p, v)    == [kind |-> "patch", path |-> p, val |-> v]
Plain(k)       == [kind |-> k]

MCExt      == {"x", "y", "z"}
MCSelected == {"x", "y"}
MCPaths    == {"p", "q"}

MCScripts ==
  { <<>>,
    <<Entry("env", "v1"), Entry("env", "v2")>>,
    <<Entry("container", "v1"), Entry("envFrom", "v1"), Entry("initContainer", "v1")>>,
    <<Meta("p", "v1"), Meta("p", "v2")>>,
    <<Meta("p", "v3"), Patch("p", "null"), Entry("env", "v3")>>,
    <<Patch("p", "v4"), Patch("q", "v5"), Patch("p", "v6")>>,
    <<Plain("emptyPatch"), Plain("badPatch"), Meta("q", "v7")>>,
    <<Entry("env", "v4"), Plain("error")>>,
    <<Plain("unknown"), Entry("env", "v5")>> }
=============================================================================
