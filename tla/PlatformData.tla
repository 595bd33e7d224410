------------------------------ MODULE PlatformData ------------------------------
(***************************************************************************)
(* The static EC2 platform table platform_data_map[] of                    *)
(* src/platform-aws.c and the lookup get_platform_data() performs on it.   *)
(* Fields a C designated initializer leaves out are zero: latency 0.0,     *)
(* default_dup_conns 0, topology NULL (written "" here).  Latencies are in *)
(* microseconds; all table values are whole numbers.  A platform type     *)
(* string is a sequence of tokens, each catalog name being one token.      *)
(***************************************************************************)
EXTENDS Naturals, Sequences

NoTopology == ""

Entry(name, topo, dup, lat, gdr, flush, proto, dpt) ==
  [name |-> name, topology |-> topo, default_dup_conns |-> dup, latency |-> lat,
   gdr_required |-> gdr, net_flush_required |-> flush,
   default_protocol |-> proto, domain_per_thread |-> dpt]

platform_data_map ==
  << Entry("p4d.24xlarge", "p4d-24xl-topo.xml", 0, 75, TRUE, TRUE, "SENDRECV", 0),
     Entry("p4de.24xlarge", "p4de-24xl-topo.xml", 0, 75, TRUE, TRUE, "SENDRECV", 0),
     Entry("p3dn.24xlarge", NoTopology, 4, 150, FALSE, TRUE, "SENDRECV", 0),
     Entry("p5.48xlarge", "p5.48xl-topo.xml", 0, 75, TRUE, FALSE, "RDMA", 0),
     Entry("g5.48xlarge", "g5.48xl-topo.xml", 0, 0, FALSE, TRUE, "SENDRECV", 0),
     Entry("trn1.32xlarge", NoTopology, 0, 0, TRUE, TRUE, "SENDRECV", 1),
     Entry("trn1n.32xlarge", NoTopology, 0, 0, TRUE, TRUE, "SENDRECV", 1) >>

(* Lines 209-212: the whole table is scanned and the last entry whose     *)
(* name equals the platform type wins; 0 stands for a NULL result.        *)
LookupPlatform(type) ==
  LET hits == {k \in DOMAIN platform_data_map : <<platform_data_map[k].name>> = type}
  IN IF hits = {} THEN 0 ELSE CHOOSE k \in hits : \A j \in hits : j <= k

=============================================================================
