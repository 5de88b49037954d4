------------------------------ MODULE MCWebPages ------------------------------
EXTENDS WebPages, TLC
CONSTANTS p, q, h1, h2
MCPolicies == {p, q}
PolicySymmetry == Permutations(MCPolicies)
MCTyped == {<< 0, 1 >>, << 1, 2 >>}
MCHosts == {h1, h2}
MCDates == << "monday", "tuesday", "wednesday" >>
MCBarDates == << "monday", "sunday" >>
Link(protocol, function) == [protocol |-> protocol, function |-> function]
MCHostsOf == [d \in Range(MCDates) |-> CASE d = "monday" -> << h1, h2 >>
                                         [] d = "tuesday" -> << h2 >>
                                         [] d = "wednesday" -> << >>]
MCLinksOf == [d \in Range(MCDates) |->
                CASE d = "monday" -> << Link("dnp3", "read"), Link("modbus", "read") >>
                  [] d = "tuesday" -> << Link("modbus", "read") >>
                  [] d = "wednesday" -> << >>]
MCProtocols == << "dnp3", "modbus" >>
=============================================================================
