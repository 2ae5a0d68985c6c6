---------------------------- MODULE MCMeshBridge ----------------------------
(* Two messages of the mesh and a heartbeat, which the API refuses: the     *)
(* node_id of the bridge (bridge.py:541) is not hexadecimal.                *)
EXTENDS MeshBridge
CONSTANTS sos, text, beat
=============================================================================
