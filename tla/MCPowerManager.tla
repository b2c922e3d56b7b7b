--------------------------- MODULE MCPowerManager ---------------------------
\* Counters in the order the applications give them, scaled down: off is
\* isolation, reset, switch; on is switch, reset, isolation.
EXTENDS PowerManager_proofs

MCCounters == {
    [iso_off |-> 2, reset_off |-> 3, switch_off |-> 4, switch_on |-> 2, reset_on |-> 7, iso_on |-> 8],
    [iso_off |-> 3, reset_off |-> 4, switch_off |-> 3, switch_on |-> 4, reset_on |-> 5, iso_on |-> 5]}

\* The interrupt comes while the core still runs or when its domain is off,
\* and no other wfi is executed; or only when the domain is off.
MCUses == {[wake |-> {"awake", "off"}, wfi |-> FALSE], [wake |-> {"off"}, wfi |-> TRUE]}

\* The hypotheses of the theorems: the first counters leave the time they ask for.
ASSUME MCHypotheses == HealthyUses /\ Polls /\ \E c \in Counters : Ordered(c)

=============================================================================
