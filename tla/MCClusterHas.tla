---------------------------- MODULE MCClusterHas ----------------------------
(***************************************************************************)
(* ClusterHas on a small fleet: two database servers and one proxy, the   *)
(* smallest fleet in which a loop can stop on its second element and the  *)
(* servers-then-proxies order of IsProvisioned matters.                    *)
(***************************************************************************)
EXTENDS ClusterHas

CONSTANTS db1, db2, px1

MCDbServers == <<db1, db2>>
MCProxyList == <<px1>>
MCNoServers == << >>
=============================================================================
