---------------------------- MODULE MCLifecycle ----------------------------
(* A process with two static objects and all four configurations.           *)
EXTENDS Lifecycle

AllConfigs == ConfigType

=============================================================================
