----------------------------- MODULE MCWorkflows -----------------------------
(***************************************************************************)
(* All plans, with two addresses to give, two tries of a step and one move *)
(* of somebody else.                                                       *)
(***************************************************************************)
EXTENDS Workflows
MCKinds == {"eip", "auto", "ipv6", "static", "dynamic", "dualstack", "azure", "linode", "stopped", "swap"}
=============================================================================
