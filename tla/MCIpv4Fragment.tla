--------------------------- MODULE MCIpv4Fragment ---------------------------
EXTENDS Ipv4Fragment

\* Headers of 1 and 2 units, MTUs below, at and above them, payloads that
\* fill one, two and three chunks.
MCHeaderLens == {1, 2}
MCMtus == 0..4
MCMaxPayload == 5
\* Any wrap past the longest payload behaves as 2^64 does: one chunk.
MCUsize == 64
=============================================================================
