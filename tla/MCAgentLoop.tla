----------------------------- MODULE MCAgentLoop -----------------------------
(* Instances of AgentLoop: histories of a few messages, three tool calls.    *)
EXTENDS AgentLoop

MCCalls == 1..4
=============================================================================
