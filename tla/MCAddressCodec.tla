--------------------------- MODULE MCAddressCodec ---------------------------
EXTENDS AddressCodec

\* All zeroes, the IPv4-mapped prefix, a head one byte short of it (::ff:..)
\* and a link-local head fe80::.
MCHeads == {Zeroes(12), IPV4_PREFIX,
            <<0, 0, 0, 0, 0, 0, 0, 0, 0, 0, 0, 255>>,
            <<254, 128, 0, 0, 0, 0, 0, 0, 0, 0, 0, 0>>}
\* 0.0.0.0, 0.0.0.1 and 10.0.0.1.
MCTails == {<<0, 0, 0, 0>>, <<0, 0, 0, 1>>, <<10, 0, 0, 1>>}
\* Below, at and above 96, the IPv4 and IPv6 limits, and beyond them.
MCPrefixes == {0, 24, 64, 96, 120, 128, 129, 160, 255}
MCPorts == {0, 80}
=============================================================================
