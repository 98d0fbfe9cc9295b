-------------------------- MODULE MCActionPipeline --------------------------
(* Small instances of ActionPipeline for TLC. *)
EXTENDS ActionPipeline, SessionGeometry

CONSTANTS MCMaxActions,  \* --max-actions
          MCPoses        \* camera poses of the session

MCChunkCount == SessionChunks(MCMaxActions, MCPoses)

\* run_browser.py:492 says "maximum configured browser actions reached" when it
\* ends a session: no more user actions complete than --max-actions asks for.
WithinMaxActions ==
    Cardinality({a \in Ids : Complete(a)}) <= MCMaxActions
=============================================================================
