---------------------------- MODULE MCPolicyForm ----------------------------
EXTENDS PolicyForm
CONSTANTS p, q
MCPolicies == {p, q}
MCTyped == {<< 0, 1 >>, << 1, 2 >>}
=============================================================================
