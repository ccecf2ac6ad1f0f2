------------------------------- MODULE MCAuth -------------------------------
(* An instance of Auth for TLC: a user and an admin.                        *)
EXTENDS Auth

MCUsers == {"ann", "root"}
MCAdmins == {"root"}
=============================================================================
