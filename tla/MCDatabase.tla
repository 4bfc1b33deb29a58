----------------------------- MODULE MCDatabase -----------------------------
(* Instances of Database: the container is a model value.                  *)
EXTENDS Database

CONSTANT a

WestOfUtc == -1
=============================================================================
