--------------------------- MODULE MCNginxReload ---------------------------
(***************************************************************************)
(* Model-checking instance of NginxReload: the main nginx.conf and one     *)
(* conf.d file, two valid renderings and one invalid one.                 *)
(***************************************************************************)
EXTENDS NginxReload

CONSTANTS nginxConf, ingA, g1, g2, b1

MCConfSlots == {ingA}
MCGoodConf  == {g1, g2}
MCBadConf   == {b1}
=============================================================================
