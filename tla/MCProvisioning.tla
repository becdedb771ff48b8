---------------------------- MODULE MCProvisioning ----------------------------
(***************************************************************************)
(* Instances of Provisioning for TLC.                                      *)
(***************************************************************************)
EXTENDS ProvisioningProperties, TLC

\* The four manifests of in_apply_order, and two that stand for them: what
\* the Deployment mounts, and the Deployment the coroutine waits for.
FullManifests == << "PersistentVolumeClaim", "Secret", "Deployment", "Service" >>
ShortManifests == << "PersistentVolumeClaim", "Deployment" >>

RunSymmetry == Permutations(Run)
=============================================================================
