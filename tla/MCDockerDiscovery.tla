-------------------------- MODULE MCDockerDiscovery --------------------------
(* Two containers; docker restarts and an inspect may fail.                *)
EXTENDS DockerDiscovery

CONSTANTS a, b
=============================================================================
