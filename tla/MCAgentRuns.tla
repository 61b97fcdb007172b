----------------------------- MODULE MCAgentRuns -----------------------------
(* Two instances, and a model answer of two tool calls of which one waits for *)
(* an approval.                                                               *)
EXTENDS AgentRuns
=============================================================================
