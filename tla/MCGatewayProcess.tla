-------------------------- MODULE MCGatewayProcess --------------------------
\* A sequence, which a configuration file cannot write.
EXTENDS GatewayProcess

TwoPollers == <<"argocd", "kubernetes">>
=============================================================================
