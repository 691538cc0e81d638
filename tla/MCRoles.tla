------------------------------- MODULE MCRoles ------------------------------
(* The instances of CopyService for the roles, which start at version 0;    *)
(* the configurations give the constants.                                   *)
EXTENDS CopyService
=============================================================================
