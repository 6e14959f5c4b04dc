-------------------------- MODULE MCHandleRegistry --------------------------
EXTENDS HandleRegistry, Sequences

\* Three addresses: a builder, a device and a socket at once, with reuse.
MCAddrs == {1, 2, 3}
MCMaxAllocs == 4
\* 10.0.0.1 in mapped form, and fe80::1.
MCMapped == AC!IPV4_PREFIX \o <<10, 0, 0, 1>>
MCIpv6 == <<254, 128, 0, 0, 0, 0, 0, 0, 0, 0, 0, 0, 0, 0, 0, 1>>
\* 10.0.0.1/24 given as spec 4.1 asks (120), and as a plain IPv4 prefix.
MCInterfaces == {[addr |-> MCMapped, prefix |-> 120],
                 [addr |-> MCMapped, prefix |-> 24]}
MCGateways == {MCMapped, MCIpv6}
MCMedia == {"Invalid", "Ethernet", "Ip", "Ieee802154"}
MCMtu == 1500
=============================================================================
