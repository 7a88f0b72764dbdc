---------------------------- MODULE MCChatService ----------------------------
(* ChatService for TLC: ollama answers directly, through a client that      *)
(* retries; watsonx connects on first use, with retries switched off.  No   *)
(* symmetry, because liveness is checked.                                   *)
EXTENDS ChatService

MCOrder  == <<"ollama", "watsonx">>
MCLazy   == {"watsonx"}
MCPinned == {"watsonx"}
=============================================================================
