--------------------------- MODULE MCMetricsServer ---------------------------
(* Instance of MetricsServer: as many scrapes as the server admits, so that  *)
(* a further one is refused, and a container of docker more than its cache   *)
(* holds.                                                                    *)
EXTENDS MetricsServer, TLC

MCRuntimeOf == "d1" :> "docker" @@ "d2" :> "docker"

MCLeftOut == {"meminfo", "slab", "zswap", "kernelprocs"}
=============================================================================
