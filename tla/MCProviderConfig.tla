-------------------------- MODULE MCProviderConfig --------------------------
EXTENDS ProviderConfig

\* One name of every kind a reader of FALLBACK_ORDER may treat differently.
Names == {"ollama", "watsonx", "WATSONX", "anthropic", "bedrock", "fallback", "olama", Blank}

\* Three entries: enough for a good one, a bad one and the order between them.
MCOrders == UNION {[1..n -> Names] : n \in 0..3}
=============================================================================
