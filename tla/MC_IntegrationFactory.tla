------------------------ MODULE MC_IntegrationFactory ------------------------
\* The two provider classes of the code, in the order of the default configuration.
EXTENDS IntegrationFactory

CONSTANTS native, n8n

MCProviders == {native, n8n}
MCLocal == {native}
MCPriority == [p \in MCProviders |-> IF p = native THEN 1 ELSE 2]
=============================================================================
