----------------------- MODULE MCPersistenceWorker --------------------------
(* The persistence worker with one aircraft; the values are in the          *)
(* configuration files.                                                     *)
EXTENDS PersistenceWorker

CONSTANT a1
OneAircraft == {a1}
=============================================================================
