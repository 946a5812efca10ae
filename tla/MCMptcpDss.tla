----------------------------- MODULE MCMptcpDss -----------------------------
\* Model-checking instance of MptcpDss.
EXTENDS MptcpDss

\* The DSS formats XNU itself sends (mptcp_setup_opts never combines a
\* 64-bit DSN with a 64-bit Data ACK), with a 64-bit Data ACK alone added.
XnuFormats ==
    {{"M"}, {"A"}, {"M", "A"}, {"M", "m"}, {"A", "a"},
     {"M", "m", "A"}, {"M", "A", "a"}, {"m", "a"}}

\* Every format RFC 8684 allows, the 64-bit DSN with a 64-bit Data ACK too.
RfcFormats == XnuFormats \cup {{"M", "m", "A", "a"}}
=============================================================================
