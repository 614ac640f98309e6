--------------------------- MODULE FirmwareUpdate ---------------------------
(***************************************************************************)
(* What an over the air update promises its application: after it started, *)
(* the finish callback is called once, with success exactly if a complete  *)
(* image that matches its checksum is what boots next.                     *)
(***************************************************************************)
CONSTANTS Versions,   \* firmware versions the server may assign
          NoVersion   \* nothing assigned; as a boot image, the running firmware

VARIABLES phase,      \* "idle", "running", "succeeded", "failed"
          version,    \* the version the running or last update is about
          installed   \* the version that boots next

uvars == <<phase, version, installed>>

UpdateInit == phase = "idle" /\ version = NoVersion /\ installed = NoVersion

(* A firmware is assigned; one assigned during an update replaces it. *)
Begin(v) == /\ phase # "succeeded"
            /\ phase' = "running" /\ version' = v
            /\ UNCHANGED installed

Succeed == /\ phase = "running"
           /\ phase' = "succeeded" /\ installed' = version
           /\ UNCHANGED version

Abort == /\ phase = "running"
         /\ phase' = "failed"
         /\ UNCHANGED <<version, installed>>

UpdateNext == (\E v \in Versions : Begin(v)) \/ Succeed \/ Abort

UpdateSpec == UpdateInit /\ [][UpdateNext]_uvars
=============================================================================
